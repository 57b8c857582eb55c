-------------------------- MODULE OrderConversation --------------------------
(***************************************************************************)
(* How a buyer orders in the bot: the handlers of app/bot/handlers/orders  *)
(* and create_order of app/services/orders.py, up to the order row.        *)
(*                                                                         *)
(* Every update is a coroutine of its own, and nothing keeps two updates   *)
(* of one buyer apart: a handler that waits for Telegram, for a price or   *)
(* for the database finds the conversation changed when it goes on.        *)
(* The module follows one buyer.  The rate limiter, the access middleware, *)
(* maintenance mode and the expiry of a quote only refuse: they may do so  *)
(* at any time.  Of the states of OrderFlow only the one that waits for a  *)
(* username matters: the others decide who reads the next amount.          *)
(***************************************************************************)
EXTENDS Naturals, Sequences, FiniteSets, FiniteSetsExt

CONSTANTS
  Buyer, Friends,   \* whom the Stars are for
  NoOne,
  Amounts,          \* the amounts of Stars he asks for
  Tasks,            \* the updates in progress at one time
  NoTask,
  MaxOpen,          \* max_open_orders_per_user
  DailyLimit,       \* daily_stars_limit_per_user
  MaxQuotes, MaxOrders  \* bound the previews and the orders

ASSUME PeopleAssumption == Buyer \notin Friends /\ NoOne \notin Friends \union {Buyer}
ASSUME TaskAssumption == NoTask \notin Tasks
ASSUME LimitAssumption ==
  /\ Amounts \subseteq Nat \ {0}
  /\ MaxOpen \in Nat \ {0} /\ DailyLimit \in Nat /\ MaxQuotes \in Nat /\ MaxOrders \in Nat

VARIABLES
  asking,     \* the conversation waits for a username (OrderFlow)
  data,       \* ... and its data
  shown,      \* the previews that were shown, by quote_token
  orders,     \* the orders of the buyer
  rowLock,    \* who holds the row of the buyer (upsert_user)
  task        \* the local state of each coroutine

vars == <<asking, data, shown, orders, rowLock, task>>

-----------------------------------------------------------------------------
(* Types *)

Kinds == {"self", "gift"}
People == Friends \union {Buyer}
Tokens == 1..MaxQuotes
NoToken == 0

\* A quote, as the preview shows it and the data of the conversation keep it.
Quote == [kind: Kinds, recipient: People, stars: Amounts]
Data == [token: Tokens \union {NoToken}, kind: Kinds, recipient: People \union {NoOne},
         stars: Amounts \union {0}]
NoData == [token |-> NoToken, kind |-> "self", recipient |-> NoOne, stars |-> 0]

\* open: count_open_orders counts it; counted: daily_stars does, it is of the last 24 hours
\* and not cancelled, expired or failed; late: it was paid after its closure.
Order ==
  [token: Tokens, kind: Kinds, recipient: People, stars: Amounts,
   open: BOOLEAN, counted: BOOLEAN, late: BOOLEAN]
\* repo.create of what a coroutine took with it.
NewOrder(d) ==
  [token |-> d.token, kind |-> d.kind, recipient |-> d.recipient, stars |-> d.stars,
   open |-> TRUE, counted |-> TRUE, late |-> FALSE]

Task ==
  [pc: {"idle", "resolve", "options", "again", "quote", "existing", "lock", "insert", "payment"},
   data: Data]
Idle == [pc |-> "idle", data |-> NoData]

TypeOK ==
  /\ asking \in BOOLEAN
  /\ data \in Data
  /\ shown \in Seq(Quote) /\ Len(shown) <= MaxQuotes
  /\ orders \in Seq(Order)
  /\ rowLock \in Tasks \union {NoTask}
  /\ task \in [Tasks -> Task]

-----------------------------------------------------------------------------
(* Helpers *)

Set(t, pc, d) == task' = [task EXCEPT ![t] = [pc |-> pc, data |-> d]]
Done(t) == task' = [task EXCEPT ![t] = Idle]

\* What _build_preview is asked for; a gift is for the recipient of the conversation.
Asked(k, s, d) ==
  [token |-> NoToken, kind |-> k, stars |-> s,
   recipient |-> IF k = "self" THEN Buyer ELSE d.recipient]

QuoteOf(d) == [kind |-> d.kind, recipient |-> d.recipient, stars |-> d.stars]

-----------------------------------------------------------------------------
(* The menus *)

\* start, cancel_input, back_to_menu; BlockedUserMiddleware clears it too.
Clear ==
  /\ asking' = FALSE /\ data' = NoData
  /\ UNCHANGED <<shown, orders, rowLock, task>>

\* gift_start, and the gift buttons of a conversation without a recipient.
AskUsername ==
  /\ asking' = TRUE
  /\ UNCHANGED <<data, shown, orders, rowLock, task>>

\* self_custom, gift_custom
AskAmount(k) ==
  /\ k = "gift" => data.recipient # NoOne
  /\ asking' = FALSE
  /\ UNCHANGED <<data, shown, orders, rowLock, task>>

\* gift_username, up to resolve_username.
BeginResolve(t) ==
  /\ task[t] = Idle /\ asking
  /\ \E r \in People : Set(t, "resolve", [NoData EXCEPT !.recipient = r])
  /\ UNCHANGED <<asking, data, shown, orders, rowLock>>

\* The recipient joins the data as they are now; the prices are asked for.
Resolved(t) ==
  /\ task[t].pc = "resolve"
  /\ data' = [data EXCEPT !.recipient = task[t].data.recipient]
  /\ Set(t, "options", NoData)
  /\ UNCHANGED <<asking, shown, orders, rowLock>>

\* self_start, gift_refresh, up to the prices.
BeginOptions(t, k) ==
  /\ task[t] = Idle
  /\ k = "gift" => data.recipient # NoOne
  /\ Set(t, "options", NoData)
  /\ UNCHANGED <<asking, data, shown, orders, rowLock>>

\* _show_options, _show_options_message
OptionsShown(t) ==
  /\ task[t].pc = "options"
  /\ asking' = FALSE
  /\ Done(t)
  /\ UNCHANGED <<data, shown, orders, rowLock>>

\* Telegram or the price service fails; the handler says so.
CallFails(t) ==
  /\ task[t].pc \in {"resolve", "options", "again", "quote"}
  /\ Done(t)
  /\ UNCHANGED <<asking, data, shown, orders, rowLock>>

-----------------------------------------------------------------------------
(* The preview *)

\* Not the code: the amount of a gift is taken although the conversation lost its recipient.
MutantBeginQuote(t, k, s) ==
  /\ task[t] = Idle
  /\ Set(t, "quote", Asked(k, s, data))
  /\ UNCHANGED <<asking, data, shown, orders, rowLock>>
\* self_option and gift_option, or an amount as text, which the state must await.
BeginQuote(t, k, s) ==
  /\ task[t] = Idle
  /\ k = "gift" => data.recipient # NoOne
  /\ Set(t, "quote", Asked(k, s, data))
  /\ UNCHANGED <<asking, data, shown, orders, rowLock>>

\* Not the code: the token is stored before the rest of the preview is.
MutantQuoted(t) ==
  /\ task[t].pc = "quote" /\ Len(shown) < MaxQuotes
  /\ shown' = Append(shown, QuoteOf(task[t].data))
  /\ asking' = FALSE
  /\ data' = IF data.token = NoToken
               THEN [task[t].data EXCEPT !.token = Len(shown) + 1]
               ELSE [data EXCEPT !.token = Len(shown) + 1]
  /\ Done(t)
  /\ UNCHANGED <<orders, rowLock>>
\* _build_preview after the price came: a token of its own for what it shows.
Quoted(t) ==
  /\ task[t].pc = "quote" /\ Len(shown) < MaxQuotes
  /\ shown' = Append(shown, QuoteOf(task[t].data))
  /\ asking' = FALSE
  /\ data' = [task[t].data EXCEPT !.token = Len(shown) + 1]
  /\ Done(t)
  /\ UNCHANGED <<orders, rowLock>>

-----------------------------------------------------------------------------
(* confirm_order *)

\* The button is the one of the last preview.
Current(n) == data.token = n

\* The click; when the time of the quote is over it is asked for again.
Confirm(t, n) ==
  /\ task[t] = Idle /\ n \in 1..Len(shown)
  /\ Current(n)
  /\ \/ Set(t, "existing", [data EXCEPT !.token = n])
     \/ Set(t, "again", data)
  /\ UNCHANGED <<asking, data, shown, orders, rowLock>>

\* ... of the recipient the conversation has by now.
QuoteAgain(t) ==
  LET d == task[t].data IN
  /\ task[t].pc = "again"
  /\ d.kind = "gift" => data.recipient # NoOne
  /\ Set(t, "quote", Asked(d.kind, d.stars, data))
  /\ UNCHANGED <<asking, data, shown, orders, rowLock>>

\* The idempotency key of create_order: buyer, kind, recipient, stars, token.
Key(r) == [token |-> r.token, kind |-> r.kind, recipient |-> r.recipient, stars |-> r.stars]
Exists(d) == \E i \in 1..Len(orders) : Key(orders[i]) = Key(d)

\* Stars for oneself that go to somebody else.
Misdirected(d) == d.kind = "self" /\ d.recipient # Buyer

\* create_order before its lock: the quote is still good, and the order is there already,
\* or a new one is wanted and neither maintenance mode nor a block stops it.
LookForOrder(t) ==
  LET d == task[t].data IN
  /\ task[t].pc = "existing" /\ ~Misdirected(d)
  /\ Set(t, IF Exists(d) THEN "payment" ELSE "lock", d)
  /\ UNCHANGED <<asking, data, shown, orders, rowLock>>

\* Whatever stops the order, the handler says that none could be created; an expired quote
\* or a price out of range does so although the order may be there already.
Refuse(t) ==
  /\ task[t].pc = "existing"
  /\ Done(t)
  /\ UNCHANGED <<asking, data, shown, orders, rowLock>>

\* Not the code: the user row is read without FOR UPDATE.
MutantRowFree == TRUE
RowFree == rowLock = NoTask

\* count_open_orders, daily_stars
OpenOrders == {i \in 1..Len(orders) : orders[i].open}
Stars == [i \in 1..Len(orders) |-> orders[i].stars]
Total(f, S) == MapThenSumSet(LAMBDA i : f[i], S)
DailyStars == Total(Stars, {i \in 1..Len(orders) : orders[i].counted})

WithinLimits(d) == Cardinality(OpenOrders) < MaxOpen /\ DailyStars + d.stars <= DailyLimit

\* upsert_user waits for the row of the buyer; the limits are counted under it.
LockAndCount(t) ==
  /\ task[t].pc = "lock" /\ RowFree
  /\ IF WithinLimits(task[t].data)
       THEN /\ rowLock' = t
            /\ Set(t, "insert", task[t].data)
       ELSE Done(t) /\ UNCHANGED rowLock
  /\ UNCHANGED <<asking, data, shown, orders>>

\* Not the code: the key is not looked up again and not unique.
MutantInsert(t) ==
  LET d == task[t].data IN
  /\ task[t].pc = "insert" /\ Len(orders) < MaxOrders
  /\ orders' = Append(orders, NewOrder(d))
  /\ rowLock' = NoTask
  /\ Set(t, "payment", d)
  /\ UNCHANGED <<asking, data, shown>>
\* repo.create looks the key up again; the transaction ends.
Insert(t) ==
  LET d == task[t].data IN
  /\ task[t].pc = "insert" /\ Len(orders) < MaxOrders
  /\ orders' = IF Exists(d) THEN orders ELSE Append(orders, NewOrder(d))
  /\ rowLock' = NoTask
  /\ Set(t, "payment", d)
  /\ UNCHANGED <<asking, data, shown>>

\* initiate_yookassa_payment or initiate_ton_payment; the data are cleared before the
\* invoice is put into the message, whether that works or not.
PaymentStarts(t) ==
  /\ task[t].pc = "payment"
  /\ asking' = FALSE /\ data' = NoData
  /\ Done(t)
  /\ UNCHANGED <<shown, orders, rowLock>>

\* ... although there is one.
PaymentFails(t) ==
  /\ task[t].pc = "payment"
  /\ Done(t)
  /\ UNCHANGED <<asking, data, shown, orders, rowLock>>

\* The process stops: the conversation is in its memory, the transaction rolls back.
Stops ==
  /\ asking' = FALSE /\ data' = NoData
  /\ task' = [t \in Tasks |-> Idle]
  /\ rowLock' = NoTask
  /\ UNCHANGED <<shown, orders>>

-----------------------------------------------------------------------------
(* The rest of the system *)

\* The order is delivered or refunded; it is closed, or a day passes over one that is done;
\* a day passes over one that is open; a late payment opens a closed one again, which may
\* be older than a day by then.
OrderMoves(i) ==
  LET order == orders[i] IN
  /\ i \in 1..Len(orders)
  /\ \/ /\ order.open /\ order.counted
        /\ \/ orders' = [orders EXCEPT ![i].open = FALSE]
           \/ orders' = [orders EXCEPT ![i].counted = FALSE]
     \/ /\ order.open \/ order.counted
        /\ orders' = [orders EXCEPT ![i].open = FALSE, ![i].counted = FALSE, ![i].late = FALSE]
     \/ /\ ~order.open /\ ~order.counted
        /\ \E recent \in BOOLEAN :
             orders' = [orders EXCEPT ![i].open = TRUE, ![i].counted = recent, ![i].late = TRUE]
  /\ UNCHANGED <<asking, data, shown, rowLock, task>>

-----------------------------------------------------------------------------
Init ==
  /\ asking = FALSE /\ data = NoData
  /\ shown = << >>
  /\ orders = << >>
  /\ rowLock = NoTask
  /\ task = [t \in Tasks |-> Idle]

Next ==
  \/ Clear \/ AskUsername \/ Stops
  \/ \E k \in Kinds : AskAmount(k)
  \/ \E t \in Tasks :
       \/ BeginResolve(t) \/ Resolved(t) \/ OptionsShown(t) \/ CallFails(t) \/ Quoted(t)
       \/ QuoteAgain(t) \/ LookForOrder(t) \/ Refuse(t) \/ LockAndCount(t) \/ Insert(t)
       \/ PaymentStarts(t) \/ PaymentFails(t)
       \/ \E k \in Kinds : BeginOptions(t, k) \/ \E s \in Amounts : BeginQuote(t, k, s)
       \/ \E n \in Tokens : Confirm(t, n)
  \/ \E i \in 1..Len(orders) : OrderMoves(i)

Spec == Init /\ [][Next]_vars

-----------------------------------------------------------------------------
(* Safety *)

\* However often and whenever the buyer clicks, one key makes one order, and the
\* orders of one preview differ in their recipient only (create_order).
OneOrderPerPreview ==
  \A i, j \in 1..Len(orders) : i # j /\ orders[i].token = orders[j].token =>
    orders[i].recipient # orders[j].recipient

\* An order has the kind and the Stars of the preview that was confirmed, and an
\* order for oneself goes to oneself, although the data may have changed since
\* (confirm_order, _build_preview).
OrderIsAsShown ==
  \A i \in 1..Len(orders) :
    LET seen == shown[orders[i].token] IN
    /\ orders[i].kind = seen.kind /\ orders[i].stars = seen.stars
    /\ seen.kind = "self" => orders[i].recipient = Buyer

OpenIds == {i \in OpenOrders : ~orders[i].late}
DayIds == {i \in 1..Len(orders) : orders[i].counted /\ ~orders[i].late}

\* Two clicks at once get neither past the limit of open orders nor past that of the
\* Stars of a day; only a payment after the closure of an order does (upsert_user,
\* count_open_orders, daily_stars).
LimitsHold ==
  Cardinality(OpenIds) <= MaxOpen /\ Total(Stars, DayIds) <= DailyLimit

-----------------------------------------------------------------------------
(* The inductive invariant *)

\* d has the kind and the Stars of the preview of its token.
AsShown(d) ==
  /\ d.token \in 1..Len(shown)
  /\ d.kind = shown[d.token].kind /\ d.stars = shown[d.token].stars

\* The data of the conversation keep the kind and the Stars of the last preview, and a
\* recipient; only the recipient may be another by now.
DataInv == data.token # NoToken => AsShown(data) /\ data.recipient \in People

\* s more Stars are within the limits, payments after a closure aside.
Room(s) ==
  Cardinality(OpenIds) < MaxOpen /\ Total(Stars, DayIds) + s <= DailyLimit

\* What a coroutine took with it, and the one with the row of the buyer has counted.
TaskFits(t) ==
  LET d == task[t].data IN
  /\ task[t].pc \in {"resolve", "quote"} => d.recipient \in People
  /\ task[t].pc = "quote" => d.stars \in Amounts
  /\ task[t].pc \in {"again", "existing", "lock", "insert", "payment"} =>
       AsShown(d) /\ d.recipient \in People
  /\ task[t].pc \in {"lock", "insert", "payment"} => ~Misdirected(d)
  /\ task[t].pc = "insert" => rowLock = t /\ Room(d.stars)

OrdersInv == \A i \in 1..Len(orders) : AsShown(orders[i]) /\ ~Misdirected(orders[i])

Inv == DataInv /\ OrdersInv /\ OneOrderPerPreview /\ \A t \in Tasks : TaskFits(t)

-----------------------------------------------------------------------------
(* What the code says and does not do *)

\* The preview asks the buyer to check the recipient, and says that only the payment
\* is left: an order is for the recipient its preview showed.
PreviewIsOrdered ==
  \A i \in 1..Len(orders) : orders[i].recipient = shown[orders[i].token].recipient
=============================================================================
