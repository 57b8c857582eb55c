# A TLA+ verification of the TerStars order system

TerStars sells Telegram Stars: a buyer orders in a Telegram bot, pays through YooKassa (roubles) or
with TON, and a worker buys the Stars from Fragment out of a prepaid hot wallet. This project
models the parts of the program in which money can be lost, model-checks them with TLC on small
instances and proves the most important results with TLAPS for every size.

Everything is translated from the source under `src/app`; `PROJECT.json` maps each definition to the lines
it stands for.

## 1. The system

Four processes share one PostgreSQL database (`docker-compose.yml`):

| process | runs | holds |
|---|---|---|
| `bot` | polling UI, admin commands, TON `PaymentMonitor`, notifications of `OrderWorker`, `ProviderHealthMonitor` | the bot token, the single-poller lock |
| `purchase-worker` | `OrderWorker(process_orders=True)` | the wallet seed: the only process that can POST to Fragment |
| `admin` | the web panel (`order_action`: retry, reconcile, sync payment, refund, cancel, manual review, resend) | YooKassa credentials |
| `payment-gateway` | YooKassa webhooks | YooKassa credentials |

All of them call the same `OrderService`. Its methods open a transaction, lock the order row (`SELECT ... FOR
UPDATE`), check the status, call `OrderRepository.transition` and commit. External calls
happen *between* transactions. That is where the hard behaviour is: what a task learnt before a call
may be stale when it stores the answer, another process may have moved the order meanwhile, and the task
may die with the answer in its hands.

### Components

| component | state | operations | what is hard | what makes it correct |
|---|---|---|---|---|
| Order domain (`domain.py`) | the transition table | `ensure_order_transition` | a table that allows more than the operations use | no status changes outside the table |
| Purchase delivery (`services/orders.py`, `fragment_client.py`) | `orders.status`, `purchase_attempts`, in-process delivery locks, requests at Fragment | deliver, apply result, reconcile, safe retry, manual review, refund | lost POST answers, two processes on one order, stale results, retries, crashes | one POST per order; Stars or money but not both; nothing accepted is forgotten; COMPLETED is final; every purchase ends |
| YooKassa payments (`services/orders.py`, `payments/yookassa.py`, `payment_gateway.py`) | `payments` row, provider payment | initiate, sync, webhook, apply snapshot | snapshots out of order, lost creation answers, dropped webhooks | one provider payment per order; PAID only when captured; a capture is never forgotten |
| TON payments (`payment_monitor.py`, `ton_payment.py`) | `ton_tx_hash`, payment row, expiry | observe, confirm, expire, cancel | late, duplicate, under- and overpaid transfers, cancellation races, the monitor's batch | PAID only for the exact, timely transfer; one transfer pays one order; every transfer is noticed |
| Notification outbox (`order_worker.py`, `process_lock.py`) | `order_notifications` with claims, the customer message at Telegram, the polling lock | enqueue, claim, deliver, finish, resend | stale claims, a lost lock, answers that do not come, retries after newer messages | every status change is announced or abandoned; nothing is told twice without a fault; outcomes are true and final |
| Order creation and the buyer's conversation (`handlers/orders.py`, `create_order`) | FSM data with the quote, idempotency keys, user row | menus, preview, confirm, create | handlers that wait while the conversation changes, double clicks, limits counted concurrently | an order is what its preview showed; one order per preview; limits hold |
| Admin panel (`admin/`), switches (`set_runtime_bool`) | sessions, sign-in counters, block list, audit, runtime switches | login, logout, order actions, switches | parallel requests, sessions that end, a failure or a restart between a command and its audit, two processes on one switch | guesses are bounded; only live sessions act; the audit is true and names who did what took effect; a switch stands as somebody set it |
| Start-up and configuration (`config.py`, `container.py`), test payments | the settings of each running service | validate, wire, start, stop | services restarted one by one across a change of settings, orders that outlive it | simulated money buys no Stars |
| Rate limiting, health monitor | windows, counters | allow, tick | boundaries | limits per window |
| Pricing, pages, migrations | caches | arithmetic, rendering | - | not protocol logic |

`PROJECT.json` lists every component with its status and every hazard with its source line and the properties that
would catch it.

## 2. What is modelled

### `OrderDomain`

The sixteen order statuses, the transition table (`AllowedTargets`) and `CanTransition`, which is what
`OrderRepository.transition` lets through: no change, or a listed target. Anything else raises and rolls the
transaction back.

### `PurchaseDelivery`

From the confirmation of a payment to Stars, a refund or an operator.

| variable | code |
|---|---|
| `status` | `orders.status` |
| `attempt` | the unique `purchase_attempts` row of an order: status, provider request id (`rid`), transaction id (`tx`), and whether its error code is `MERCHANT_BALANCE_RETRY_APPROVED` (`approved`) |
| `valid`, `enabled` | the verdict of `_purchase_validation_error`, the `purchases_enabled` control |
| `fragment` | what Fragment did with every POST (external) |
| `money`, `refund` | the YooKassa refund or manual TON return as it happened, and `payments.refund_status` |
| `task` | the program counter and local variables of each coroutine that runs a service method |
| `retried` | history: the orders for which an administrator approved a balance retry |
| `crashes` | counts process restarts |

One action is one transaction or one external call:

- `PickRecoverable`, `DeliverNothing`, `DeliverToReview`, `StartPurchase`, `ResumePurchase` -
  `process_recoverable_orders` and the transaction of `_deliver_paid_order`, under the in-process lock
  (`LockFree`). `Continue` is what the method does after that transaction has committed: poll a known request, POST
  a new one, or declare the answer lost.
- `RefuseLocally`, `SendPost`, `PostReturns`, `CheckReturns` - the Fragment client. A request exists from the moment
  it is sent; `FragmentAnswers` and `FragmentSettles` decide about it whether or not anybody waits.
- `ApplyPending`, `ApplySucceeded`, `ApplyNotSucceeded`, `ApplyDropped` - `_apply_purchase_result` with the
  repository methods it calls. A transition the table refuses rolls back, which loses the result.
- `RetryRead`, `ApproveRetry`, `RefuseRetry`, `Reconcile`, `MoveToManualReview`, `SetPurchasesEnabled` -
  administrators. `RetryRead` is the unlocked read of `safe_retry_order`, so its decision may be stale.
- `RequestRefund`, `RefundReturns`, `StoreRefund`, `RefundWebhook`, `MoneySettles`, `MarkRefunded` - the refund
  half of YooKassa and the manual confirmation.
- `ConfirmPayment` - the payment side moves the order to PAID.
- `Crash` - a process stops and its tasks are gone.

Abstractions: a result is represented by the branch of `_apply_purchase_result` it selects; the error codes by the class
the code distinguishes (balance, definitive, uncertain); amounts, recipients and texts are left out, with `valid`
standing for the validation of a paid order. A definitive code in the answer to a status GET is taken as what Fragment says
of the request. The guards of `request_yookassa_refund` on the payment (succeeded and refundable) hold for every
order that was PAID and are left out. The test provider is part of `Deployment`.

Properties. Safety: `AtMostOnePost`, `RefundOnlyAfterFailure`, `NeverStarsAndRefund`, `RefundedIsReturned`, `CompletedIsBacked`,
`AcceptedIsTracked`, and `OnePosterPerProcess`, which is proved only: what the lock of a process is for. Steps: `RequestIdIsKept`, `CompletedIsFinal`. Liveness:
`StartedPurchaseSettles`, `PaidOrderIsTakenUp`. The comment above each definition says what it means and which method it is about.

The properties about one POST, one outcome exempt orders in `retried`: after an approved balance retry the
code may POST again, which is what the run `blind_post` shows. `OnePosterPerProcess` exempts none: within one process two tasks never stand before a POST for one order.

### `OrderPromise` and `PurchaseDeliveryPromise`

`OrderPromise` is the abstract specification: for each order the Stars (`none`, `asked`, `given`, `refused`), the money (`kept`, `returning`,
`returned`) and what the order says (`open`, `completed`, `refunded`). It has no processes, calls or rows: the Stars are asked for once and only
while the money is kept, the money goes back only when no Stars are under way, and an order is closed only as what it is. An administrator who
approves a balance retry takes the promise over.

`PurchaseDeliveryPromise` reads the abstract state off Fragment (`StarsOf`), the payment side (`CashOf`) and `orders.status` (`SaysOf`), never off a
row that may not know yet, and `KeepsPromise` says that `PurchaseDelivery` implements `OrderPromise` under this mapping: every transaction,
call, crash and stale answer is one abstract step or none. It catches combinations that the single invariants do not name, such as a second
POST after a refund began.

### `PaymentPromise`

The abstract specification of both ways to pay. For each order a stage (`open`, `paid`, `taken up`, `failed`, `closed`, `review`) and the money (`none`, `received`, `declined`), without snapshots,
transfers, rows or tasks. An open order becomes paid only if its money was received, failed only if it was declined; only an open one is closed; a closed, paid or taken up order may
still go to an operator, and nothing brings it back. Money is received or declined once.

`YooKassaPayment` and `TonPayment` implement it (`KeepsPayment` in both). The stage is read off `orders.status` (`OrderDomain.StageOf`), the money never off a row: in roubles it is what
the payment is at YooKassa, with TON whether the ledger holds a transfer of the exact amount to this order within its window (`PaidInTime`), noticed or not. One transaction may take
an order through several statuses, but it is one step of the promise.

### `YooKassaPayment`

From the order to PAID or PAYMENT_FAILED in roubles.

| variable | code |
|---|---|
| `status`, `orderPayment` | `orders.status`, `orders.payment_status` |
| `payment` | the `payments` row: whether `provider_reference` is `pending:<id>` or known, the status, whether the confirmation link is stored |
| `late` | `orders.expires_at` has passed |
| `provider`, `events` | the payment at YooKassa and the notifications it repeats until they are acknowledged (external) |
| `task` | a coroutine of the bot, the panel or the gateway: where it is, the snapshot it read, the notification it answers |

- `BeginInitiate`, `InitiateRefused`, `LinkKnown`, `SetUpPayment`, `CreateReturns`, `CreateLost` -
  `initiate_yookassa_payment`: a transaction that stores the row, the call under the idempotency key of the row, then
  `apply_yookassa_snapshot`. The call may create the payment and lose the answer.
- `BeginSync`, `BeginWebhook`, `GetReturns` - `sync_yookassa_payment` and the webhook, up to the answer of YooKassa.
- `ApplySnapshot`, `ApplyRefused` - `apply_yookassa_snapshot`: the regression check, both payment rows, `NextStatus`. A
  refusal raises ValueError, which the gateway acknowledges.
- `Stops` - a failed call or a stopped process; a webhook is then not acknowledged.
- `Cancel`, `MoveToManualReview`, `TakeUp` - the buyer, the administrator, the worker. `WindowCloses`, `ProviderMoves` - time and YooKassa.

Abstractions: amount, currency and metadata of a snapshot are taken to match (YooKassa is asked about the payment that the
program created). YooKassa keeps one payment per idempotency key: this is assumed, not shown. The repeated answer of
a creation may still say pending. The steps WAITING, DETECTED, CONFIRMING, PAID of one snapshot happen in one
transaction and are one step (`NextStatus`). PAYMENT_EXPIRED is not reached: only the TON monitor calls
`expire_if_needed`. Webhooks refused for their rate or size change nothing. What follows PURCHASE_PROCESSING, refunds
included, is `PurchaseDelivery`.

Safety: `PaidIsCaptured`, `ChargedIsNotClosed`, `AcknowledgedIsNoticed`; `PaidIsConfirmed` and `FailedIsCanceled`, which the runs check as parts of `Inv`.
Steps: `SucceededIsFinal`, and three that are proved only: `NothingIsRefused` (no status is refused by the table, however old the snapshot), `WebhookSuffices` and `NoticedIsFinal`
(one stored delivery of the final notification is enough, and nothing takes it back). Refinement: `KeepsPayment`. Liveness: `OutcomeIsNoticed`.

### `TonPayment`

From the order to PAID with TON, over a small clock.

| variable | code |
|---|---|
| `now`, `expires` | the clock and `orders.expires_at` |
| `status`, `reason` | `orders.status` and why it is in review (`orders.error_code`) |
| `payment` | the `payments` row, with `ton_tx_hash` of the order: status, hash, whether the received amount is the invoice |
| `ledger` | the transfers on the blockchain: order of the comment, hash, exact amount or not, time (external) |
| `queue` | all orders by `status_changed_at`, as `list_by_status` sorts them; a change of status takes an order out of its `Place` and appends it (`Move`) |
| `task`, `batch` | the `PaymentMonitor` and the checks of the buyer: order under scan, transfer seen; the orders the monitor has listed |

- `ListOrders`, `BeginScan` - `tick`: the batch (`Page`: the orders with fewer than `BatchSize` others before them, which is the limit; `Listed`: those of the page within the late-scan window, in their order), and one order of it after the other. `BeginCheck` - `check_order_now`.
- `FindSees`, `FindSeesNone`, `Stops` - `_process_ton_order` and the answer of Toncenter, which
  may show any matching transfer, or none although there is one: it lags, and lists one page.
- `RecordNothing`, `RecordConflict`, `RecordReview`, `RecordProgress` - `record_ton_observation`, one transaction, split by its outcome: the
  order moved on; another hash, or a hash of another order; wrong amount or too late; one step towards PAID.
- `Expire`, `ExpireNothing` - `expire_if_needed`.
- `Initiate`, `Cancel`, `Send`, `Tick`, `MoveToManualReview`, `TakeUp` - the buyer, the clock, the administrator, the worker.

Abstractions: less than the invoice and more than it are both "not exact", since the code treats them alike. The route check cannot fail for an observation that
`find_incoming_payment` makes (it fills in the wallet of the settings), so it is left out. Hashes may be shared by transfers: the blockchain does
not do that, but `record_payment_detection` defends against it, and the model shows that it does.

Safety: `PaidIsPaidFor`, `PaidIsConfirmed`, `ClosedHasNoTransfer`. Steps, proved only: `AttachedIsKept` (no scan, expiry or new invoice exchanges the transaction of an order),
`NothingIsRefused`. Refinement: `KeepsPayment`. Liveness: `WaitEnds`, `TransferIsNoticed`; `PaidWaitEnds`, which the code does not
keep when closed orders fill the batch.

### `NotificationOutbox`

How a change of status reaches the buyer and the administrators.

| variable | code |
|---|---|
| `status`, `outbox` | `orders.status`; `order_notifications` by id: order, status, audience, attempts, claim and whether it is older than five minutes, whether `next_attempt_at` has come, delivered, abandoned |
| `stored`, `message` | whether `customer_message_id` is known; what that message shows at Telegram (external) |
| `lock`, `poller` | the holder of the advisory lock; the `OrderWorker` of each bot process: the claimed batch with what `ClaimedNotification` remembers, the answer of Telegram |
| `told`, `troubled`, `repeated` | history: rows Telegram took; rows with a failed attempt or a stale claim; rows taken again without such trouble |

- `Transition` writes the rows of `enqueue_status_notifications` in the transaction of the status; `Resend` is the administrators' command;
  `StoreMessage` is the end of `confirm_order`, which may come after a status has changed.
- `Claim`, `Send`, `Finish`, `FinishFails` - `claim_notifications`, the call to Telegram, `finish_notification`, one row after the other. Telegram
  may take a message whose call then fails (`Answers`).
- `ClaimLapses`, `BackoffEnds` - time. `Start`, `Stops`, `LockIsLost` - bot processes; the code looks at the lock once, so a process
  whose connection broke goes on beside its successor.

Abstractions: texts are told apart only where `format_status_message` tells them apart; one administrator stands for all (a message counts as
delivered when one of them got it). Safety: `RepeatedOnlyAfterFault`, `OutcomeIsEarned`, `MessageIsCurrent`. Steps: `OutcomeIsFinal`. Liveness:
`StatusIsTold`. `MessageIsCurrent` is stated for rows without trouble: the comment in `_deliver_notification` calls the stored message "the
single source of truth", but after a failed edit the retry of an older row may overwrite a newer status.

### `OrderConversation`

One buyer, up to the order row. Every Telegram update is a coroutine; aiogram keeps nothing apart.

| variable | code |
|---|---|
| `asking`, `data` | the FSM state (whether it waits for a username) and its data: token, kind, recipient, Stars |
| `shown` | the previews, by `quote_token`, as the buyer saw them |
| `orders` | his orders with the quote they were made from: `open` (the limit of open orders counts it), `counted` (so does that of the last 24 hours), `late` (a late payment reopened it) |
| `rowLock`, `task` | the lock `upsert_user` takes on his row; the coroutines |

- `Clear`, `AskUsername`, `AskAmount`, `BeginResolve`, `Resolved`, `BeginOptions`, `OptionsShown` - the menus. `BeginQuote`, `Quoted` - `_build_preview` before and
  after the price. `Confirm`, `QuoteAgain`, `LookForOrder`, `Refuse`, `LockAndCount`, `Insert`, `PaymentStarts`, `PaymentFails` - `confirm_order` with `create_order`.
  `CallFails`, `Stops` - failures; the conversation lives in the memory of the process.
- `OrderMoves` - the rest of the system: an order is delivered, closed, or reopened by a late payment.

Abstractions: what only refuses (rate limits, blocks, maintenance, an expired quote) is a choice. Safety: `OneOrderPerPreview`, `OrderIsAsShown`,
`LimitsHold`; `PreviewIsOrdered`, which the code does not keep. `LimitsHold` leaves out orders that a late payment reopened: no limit can stop those.
`OrderMoves` lets the 24 hours of an order pass at any time, whether it is open or not.

### `AdminPanel`

The web panel and the switches it shares with the bot's commands.

| variable | code |
|---|---|
| `attempts` | `AdminAuth._attempts`, in memory |
| `sessions`, `blocked`, `purchases` | `admin_sessions`, `blocked_ips`, the `purchases_enabled` row |
| `audited`, `noted` | `audit_events`: the web events with the address of the request, and the events of the services with the actor |
| `request` | a request: what it asks for, the session of its cookie and of the page, the name or principal, the setting it loaded |
| `guesses`, `ended`, `carried` | history: attempts let through, sessions signed out, commands that began to take effect |

- `Arrive`, `PassBlocklist`, `FindPrincipal` - `security_middleware`, each await a step; `Permitted` is the role a handler asks for.
- `Attempt`, `CheckPassword`, `Logout` - `AdminAuth`. `_allow_attempt` has no await, so it is one step.
- `ActOnOrder`, `ServiceReturns`, `WebAudit` - `order_action`: the service refuses the action or begins to carry it out, goes on (a delivery, a call to Fragment or
  YooKassa) and returns; then the web audit is stored. Retry, reconcile, cancel, review and resend (`order`) store who asked in the transaction they begin with; a refund
  and a sync (`payment`) first call YooKassa, and a refund names its actor with the answer.
- `ChangeBlocklist`, `ReadSwitch`, `WriteSwitch`, `BotCommand` - the other commands, with the audit in a transaction of its own where the code has it so.
- `Fails` - a transaction, a service or `web_audit` raises, at any of these places, and the answer is a 409 or a 500; what was stored or sent before stays.
- `Tick`, `Restart` - the clock and the panel's container.

What an order action does to the order is `PurchaseDelivery` and `YooKassaPayment`; here it takes effect or does not. A commit that succeeds although the process is told that it failed is left out.
Safety: `GuessesAreBounded`, `EndedSessionsDoNotAct`, `AuditIsTrue`, `EffectsAreNamed`, `SwitchIsSerial`. `AuditIsTrue` is about what an administrator was told: a command answered as done
has its web event, and no event names what did not happen. `EffectsAreNamed` is about the rest: what took effect before a failure or a restart is named by the service's own event, except a
refund or a sync that did not get from YooKassa to its answer. A request that is past the middleware when its session ends is completed; `EndedSessionsDoNotAct` is about those that arrive later.

### `Deployment`

What the services believe about money. `env` is the environment an operator writes, `running` the settings each service read when it started (`Accepted` is
`validate_runtime`, `Wired`, `BuysReally`, `HasYooKassa`, `HasMonitor` are `build_container`), `purchases` the runtime control, `order` the orders with the money that paid
and the Stars that came. Test payments, captures, transfers and purchases are single steps: their protocols are the other modules. `TestMoneyBuysNoStars` and
`MoneyBuysRealStars` hold while the environment stays as it is (proved) and not across a change.

## 3. The runs

| run | instance | shows |
|---|---|---|
| `delivery` | one YooKassa order, two requests, worker with the seed and two administrator tasks without, one crash; 1.4 million states | five safety and two action properties, and that `PurchaseDelivery` implements `OrderPromise` |
| `two_orders` | two orders, one transaction id, two requests, the worker, one crash; 141 thousand states | `CompletedIsBacked`, `Inv`, the invariant the proofs use, and the two liveness properties |
| `blind_post` | three requests | a violation, see below |
| `payment` | three coroutines: two tasks of the bot and a webhook delivery; 110 thousand states | three safety properties, `Inv` (with `PaidIsConfirmed` and `FailedIsCanceled`), `SucceededIsFinal`, that `YooKassaPayment` implements `PaymentPromise`, `OutcomeIsNoticed` |
| `ton_payment` | two TON orders, the monitor and a check of the buyer; 1.9 million states | type correctness and three safety properties |
| `ton_liveness` | one order, two transfers, monitor and one check; 54 thousand states | that `TonPayment` implements `PaymentPromise`, `WaitEnds`, `TransferIsNoticed` |
| `starved_scan` | two orders and a batch of one | a violation, see below |
| `outbox` | one order, two rows in batches of two, two bot processes, one fault; 307 thousand states | three safety properties, `OutcomeIsFinal`, `StatusIsTold` |
| `conversation` | one friend, two updates at a time, two previews, two orders, limits of one; 3.3 million states | type correctness, `OneOrderPerPreview`, `OrderIsAsShown`, `LimitsHold` |
| `wrong_recipient` | one friend, one preview | a violation, see below |
| `admin` | three requests, an owner, an administrator and a support, one attempt per window, a clock to 2, a failure at every step; 1.8 million states | five safety properties |
| `test_money` | one order, four services, the settings of the trial and of live payments | a violation, see below |

Bounds. Two requests of one order are enough for the second POST that `AtMostOnePost` excludes, three for one that
was refused and two that were not. One crash loses every task of a process; a second
adds nothing a restarted worker does not already do. Two administrator tasks are enough for two stale
decisions about one order. Two orders with one transaction id force the duplicate. Where `Requests` is used up
`SendPost` is disabled, which only removes behaviours: safety is not affected, and in the liveness run an
order needs more than two POSTs only after repeated administrator retries.
For payments: two tasks of one kind are enough for one to hold a stale answer while the other
stores a newer one, and a delivery of a webhook overlaps its own repetition. In `ton_payment` a window of 2 and a confirmation age of 1
leave room for a transfer before, at and after both limits; in `ton_liveness` the window is 1, so that a late transfer can still grow old enough to be confirmed. An order is started only while both fit the clock (`Initiate`), so that the bound on the clock never
stops a confirmation. `LateScan` is 1 in the safety run, so that closed orders leave the scan; in the liveness runs it is 9, past
the clock, so that a closed order stays within it and `TransferIsNoticed` is not satisfied by waiting.
For the outbox: two rows are a batch whose order matters, and the status and the resent row of one order, or its buyer's and its
administrators' row; two attempts are a failure and a last one; one fault is a stop, a lost lock or a failed
transaction, and claims may go stale any number of times. In `conversation` limits of one make the second order the one too many, while
two tasks race for it; one closed order is enough to reopen. In `admin` one attempt per window makes the second the one too many, and three requests are a sign-in, a
sign-out and a command that races it, or two commands on one switch and the sign-in they need (commands of the bot need none).
Symmetry (requests, administrator tasks, transfers, hashes, checks, coroutines) is used in the safety runs only. Deadlock is not checked in any
of them: the system may stop when every order has ended.

Fairness (`FairSpec`). In `PurchaseDelivery` it is about the worker and the services only. The worker's loop catches every exception and sleeps
between ticks, so each of its steps is weakly fair; it lists the recoverable orders again and again, so
taking up an order that is recoverable infinitely often is strongly fair - this supposes that the batch of
`list_by_status` reaches the order (section 6). Its calls end because they have timeouts.
Fragment decides about every request it received, and a status call that is repeated forever is
answered in the end (`CheckSettles`, strong). Administrators owe nothing.

`OutcomeIsNoticed` assumes only the webhook: YooKassa repeats a notification until it is acknowledged, and for every order one of its deliveries
is strongly fair in being received, in reading the payment back and in storing it. The deliveries may fail any number of times; bot, buyers
and panel may stop forever. `WaitEnds` assumes the monitor only: its loop catches every exception and sleeps, so it lists and scans again and again
(strong fairness, since other orders are under scan in between), and its calls and transactions succeed again and again. It does not assume that Toncenter
shows a transfer; `TransferIsNoticed` does, as a hypothesis in the formula. In `ton_liveness` the batch holds every order; `starved_scan` shows what happens when it does not, under the same
fairness. `StatusIsTold` assumes that the container is restarted (`Start`), that the worker's loop goes on and its calls end (weak fairness of each process), that time passes, and, in
the formula, that in the end only one process polls; a Telegram that always refuses ends in an abandoned row.

### Four disagreements between what the repository says and what the code does

- `blind_post`: SECURITY.md and README.md promise that a POST with an unknown answer is never repeated and that `/retry` is
  never a blind second POST. `safe_retry_order` marks the attempt `MERCHANT_BALANCE_RETRY_APPROVED`, and no code clears
  the mark before the next result is stored. If the worker POSTs and stops, the restarted worker finds the mark
  and POSTs again; two processes can do the same without a crash.
- `starved_scan`: the invoice promises that Stars follow by themselves once the transfer is confirmed. `list_by_status` takes the oldest 200 orders that wait, have expired or were cancelled, and closed
  orders never leave these statuses; the late-scan window is applied afterwards. With that many closed orders the monitor no longer scans anything else; only the buyer's own check still does.
- `wrong_recipient`: the preview asks the buyer to check its data and says that only the payment is left. A username that is resolved after the preview replaces the recipient in the conversation and leaves the
  token, so the button of the old preview orders for the new recipient. An order for oneself is refused in that case (`Misdirected`), a gift is not.
- `test_money`: `docs/YOOKASSA_SETUP.md` and a message of `validate_runtime` promise that simulated payments never spend the wallet. Each process checks its own settings; the order does not
  remember in which shop it was paid, and is bought for real when the trial is over.

Other behaviour that the models have and that an operator should know of, although no document denies it: a balance failure of a queued request cannot be retried by any command
(`RefuseRetry`); an order whose YooKassa payment was never made can be neither cancelled nor synced after its window; a transfer that Toncenter shows late is refused as late although it was sent in time; an order whose
payment failed to start stays CREATED, counts as open and is announced as not created (`PaymentFails`); a refund whose answer from YooKassa is lost, or does not match, may be on its way
although neither the service nor the panel has an audit event for it (SECURITY.md says that dangerous actions are written to the audit log; `EffectsAreNamed` allows for this one).

Outside the models: with YooKassa the invoice is not shown. `_markup` (`handlers/orders.py`) reads the `callback_data` of every button, and the one of `payment_keyboard` that leads to YooKassa has only a
`url`; the KeyError comes after the order and its payment are stored and the conversation is cleared, and before `set_customer_message`. `PaymentStarts` ends before that point, and in the outbox it is an
order whose `StoreMessage` never comes.

## 4. What is proved

Every safety property and every action property that a passing run checks is also a theorem, and so are the three refinements (`KeepsPromise`, and `KeepsPayment` of both payment
modules). All theorems hold for every value of the constants - any number of orders, requests, processes, tasks, clients and transfers, any limit, window and clock - under the named
assumptions of the modules, which say only that sentinels are not elements, that tasks have processes, that limits are numbers and that the orders of `TonPayment` are finitely many. None of the safety properties is inductive: each
speaks of rows, and what breaks it is a task, a batch or a request that still carries an old answer. The inductive invariants say what those may carry.
TLC checked each of them on the instance of its run before it was proved; the configurations keep those that say something of their own (`two_orders`, `payment`).

**`PurchaseDeliveryProofs`** proves `[]TypeOK`, `[]Inv` and from it `AtMostOnePost`, `RefundOnlyAfterFailure`, `NeverStarsAndRefund`, `RefundedIsReturned`, `CompletedIsBacked`, and the
action properties `CompletedIsFinal` and `RequestIdIsKept`. A state in which two tasks stand before their POST satisfies
`AtMostOnePost` and violates it two steps later, so `PurchaseDeliveryInvariant` adds:

- `FragmentInv`, `ReferenceInv`: requests belong to orders, and an id that a row or a task holds is one of its order;
- `StartInv`: before the attempt row exists nothing happened (`Untouched`);
- `PostInv`: a task about to POST is alone, and nothing was posted for its order;
- `OverInv`: whoever is about to give up or to return money - the status, the money, and every task that carries a failure or a
  refund - knows that the purchase is `Over`: nobody will POST and every request is dead;
- `MoneyInv`: what rows and tasks say about a refund happened;
- `TxInv`: a stored transaction id comes from a completed request of that order and is unique.

One lemma per group of actions says what the group changes (`...Moves`), one that it preserves `Inv` (`...Safe`, one step per conjunct).

`OnePosterPerProcess` has an invariant of its own, `LockInv`: who is about to POST or waits for the answer holds the lock, and in one process no two tasks hold the lock of one order. It needs
nothing of `Inv`, which is why an approved retry cannot break it.

**`PurchaseDeliveryPromiseProofs`** builds on it. `AcceptedIsTracked` needs one more invariant, `TrackInv`: an attempt without a stored request id is still being started (a task
holds the answer, or the row says that the answer is unknown) or was refused by Fragment. `PromiseKept` is the refinement, `Spec => KeepsPromise`: the initial states map to the initial state of
`OrderPromise`, and every step of `PurchaseDelivery` maps to a step of the promise of one order or to a stutter. `PostInv` gives it `AskForStars`, `OverInv` gives `ReturnMoney`, `MoneyInv` and
`CompletedIsBacked` give `Close`.

**`YooKassaPaymentProofs`** proves `[]Inv`, the five safety properties, `SucceededIsFinal`, `NothingIsRefused`, `WebhookSuffices`, `NoticedIsFinal` and `KeepsPayment`:

- `TaskInv`: a snapshot of an outcome is the outcome (an older snapshot may be held, never a wrong final one), and a task that read a
  payment reads one that exists;
- `RowInv`: a payment exists at YooKassa only where a row was stored before, and a row excludes CREATED and the closed statuses;
- `CaptureInv`: the rows agree about a capture, and the order has moved with them.

Every step moves an order along one of a few ways (`StepProceeds`). `NothingIsRefused` is that each of them is listed in the table, also when one transaction goes through `payment_detected` and
`payment_confirming`; so `transition` never raises ValueError, which the gateway would acknowledge. `KeepsPayment` is that each is a step of `PaymentPromise`: `TaskInv` gives the
money of a `Pay` or a `Fail`, since a final snapshot that is stored is the provider's. `WebhookSuffices` and `NoticedIsFinal` are the safety half of `OutcomeIsNoticed`: what
stays with TLC is only that some delivery is stored under the fairness of the webhook.

**`TonPaymentProofs`** proves `[]TypeOK`, `[]Inv`, `PaidIsPaidFor`, `PaidIsConfirmed`, `ClosedHasNoTransfer`, `AttachedIsKept`, `NothingIsRefused` and `KeepsPayment`:

- `SeenInv`: a scan holds a transfer to its own order, and a transfer that was sent has a hash;
- `RowInv`: the payment row follows the status - a transfer is attached exactly from the first detection on, and only an exact one goes further;
- `HashInv`: no transaction is attached to two orders; `PaidInv`: a paid order has a transfer that paid it in time.

`TypeOK` says of the queue that it holds every order once, and of the batch that it is no longer than the limit. That an injective queue of the finitely many orders reaches all of
them (so that `Place` exists) is that an injection of a finite set into itself is onto; that `Move` keeps it so is a lemma about `RemoveAt` and `Append` (`QueueMoves`); and that the page is no
longer than the limit, whatever the statuses, follows because its last order has fewer than `BatchSize` others before it (`FirstFew`, `PageSize`; the last one is found by descent on the
places, `HighestExists`).

`KeepsPayment` needs one more invariant, `FreshInv`: no transfer names an order before its invoice, so an invoice never opens a window over money that is there already. Then `PaidInv` gives
`Pay`, and a transfer that is sent in time is `MoneyDecided`.

**`NotificationOutboxProofs`** proves `[](TypeOK /\ Inv)`, `RepeatedOnlyAfterFault`, `OutcomeIsEarned`, `OutcomeIsFinal` and `MessageIsCurrent`. `Inv` relates the rows to the batches that processes
remember: a row without trouble that is in a batch is claimed by that very process and not yet told, except the one it is about to finish; a row that was told and is unclaimed is
delivered. `MessageIsCurrent` needs a second invariant, `CurrentInv`, that holds while nothing has failed: only the first process polls (`OnlyFirst`), a batch edits all rows of an order or none
(`EditsFit`), and the rows of an order are told in the order of their ids, so that its message shows the last one told (`ToldInOrder`).

**`AdminPanelProofs`** proves `[](TypeOK /\ Inv)`, `GuessesAreBounded`, `EndedSessionsDoNotAct`, `AuditIsTrue`, `EffectsAreNamed`, `SwitchIsSerial`:

- `LimiterInv`: of all attempts let through, the limiter has forgotten only the first ones, and only when they were older than its window. `GuessesAreBounded` is inductive
  beside it: the attempts of a window are counted by the limiter's own list;
- `SessionInv`: a session is named after a request that was answered, so one that was signed out or had expired when a request named it never comes back;
- `PlaceFits`: where a request can be and what has taken effect there;
- `LogFits`: what the audit log knows of a request - nothing that did not take effect, its web event once it was answered, and the service's event from the first transaction on, a refund and a sync apart;
- `SwitchInv`: the command that left the switch as it stands was seen by no later one, and a pending command that knows of it has read its setting.

**`OrderConversationProofs`** proves `[]TypeOK`, `[]Inv`, `OneOrderPerPreview`, `OrderIsAsShown`, `LimitsHold`:

- `DataInv`: data of a conversation that have a token have the kind and the Stars of the preview of that token, whatever ran in between;
- `TaskFits`: so has what a coroutine took with it, and the one that is about to insert holds the row of the buyer and has counted (`Room`);
- `OrdersInv`: so have the orders.

`LimitsHold` bounds a sum over the orders of a day, and `MapThenSumSet` defines sums by recursion over finite sets, for which the induction theorems of the library cannot be used. The proof goes by descent
instead: a family of subsets of a finite set that contains a strictly smaller one for each of its members is empty (`NoDescent`, from the well-foundedness of the strict subset
ordering, without an operator as a parameter). With it follow that the recursion has a solution (`SumsExist`) and only one (`SumsAgree`), that any element can be taken out first (`TotalRemove`), that a part has
no larger sum (`TotalPart`), that only the values of the elements count (`TotalAgree`), and what a new order adds (`TotalAdded`).

**`DeploymentProofs`** proves, for every set of orders and services and every set of environments, that while the environment is not edited
no simulated payment buys real Stars (`SteadyTestMoney`) and no real payment is completed with simulated ones (`SteadyRealStars`). The invariant says that every running service has the
one environment, that it was accepted and wired, and that the money, the shop and the type of every payment are what such a service can have made of it. The theorems are about `SteadySpec`; the run
`test_money` shows that the assumption is needed.

Only model-checked: the liveness properties `StartedPurchaseSettles`, `PaidOrderIsTakenUp`, `OutcomeIsNoticed`, `WaitEnds`, `TransferIsNoticed`, `StatusIsTold`. Liveness under fairness is out of the
prover's reach, as is ENABLED. The four violations of section 3 are counterexamples of TLC.

## 5. Plan

Done: all modules of section 2, their runs, and the theorems of section 4.

Left: the safety half of the other liveness properties in the form of `WebhookSuffices` and `NoticedIsFinal` - for `TransferIsNoticed` that one scan that sees a transfer to an order on the page
suffices, for `StartedPurchaseSettles` that a status that is not final is in `Recoverable` or in the view of an operator. `PurchaseDelivery` asks the table itself in the guards of its actions
(`CanTransition`), so that nothing is stored there that the table refuses holds by construction and is not stated.

## 6. Not modelled, and why

- Pages, keyboards, texts, lists, prices, backups, migrations: no protocol state. The rest of `validate_runtime` is conditions on single settings.
- `AbuseGuard` and `ProviderHealthMonitor`: a window and a counter of one process. Where the guard matters it only refuses, and `OrderConversation` lets it refuse at any time.
- The batch limit of the worker's recovery loop: it has the same form as the monitor's, which is modelled, but its orders leave the list when their purchase ends or is reviewed.
- Row lock order inside a transaction: a transaction is one action; PostgreSQL aborts one of two transactions that wait for
  each other, which is a rolled back transaction followed by a retry.
- One composition of all modules: the payment modules end where `PurchaseDelivery` begins (`ConfirmPayment` stands for their last step, `TakeUp` for its first), and
  the statuses they pass on are the same `orders.status`.
