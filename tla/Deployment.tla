----------------------------- MODULE Deployment -----------------------------
(***************************************************************************)
(* The program is one image, started as a bot, a payment gateway, a        *)
(* purchase worker and an admin panel, which share a database.  Each reads *)
(* its settings once, when it starts: validate_runtime of app/config.py    *)
(* accepts them and build_container of app/services/container.py decides   *)
(* which payments and which purchases are simulated.                       *)
(*                                                                         *)
(* An operator edits the environment and restarts the services one by one, *)
(* as docs/YOOKASSA_SETUP.md tells him for the step from a test shop to    *)
(* live payments, and switches purchases on and off while they run.        *)
(***************************************************************************)
EXTENDS OrderDomain

CONSTANTS
  Orders,
  Services,     \* the processes, each named after its PROCESS_ROLE
  Environments, \* the settings an operator writes
  Down          \* no settings, no service

VARIABLES
  env,        \* the environment file and the mounted secrets
  running,    \* the settings each service has started with
  purchases,  \* the runtime control purchases_enabled
  order       \* the orders and their payments

vars == <<env, running, purchases, order>>

-----------------------------------------------------------------------------
(* Settings *)

\* simulated: TEST_PAYMENT_MODE; real: REAL_STARS_PURCHASE_ENABLED; fragment:
\* STARS_PURCHASE_PROVIDER; pays: CUSTOMER_PAYMENT_PROVIDER; testShop:
\* YOOKASSA_TEST_MODE, with the credentials of that shop; buys: PURCHASES_ENABLED;
\* seed: the services that are given the wallet seed.
Settings ==
  [simulated: BOOLEAN, real: BOOLEAN, fragment: BOOLEAN,
   pays: {"test", "ton", "yookassa"}, testShop: BOOLEAN, buys: BOOLEAN,
   seed: SUBSET Services]

\* yookassa_safe_test
SafeTest(e) == e.pays = "yookassa" /\ e.testShop

\* validate_runtime, as far as it tells simulated from real money.
Accepted(s, e) ==
  /\ ~(e.simulated /\ e.real)
  /\ e.fragment /\ ~e.simulated /\ s \in {"bot", "admin"} => s \notin e.seed
  /\ e.fragment /\ e.real /\ s \in {"all", "worker"} => s \in e.seed
  /\ ~e.simulated =>
       /\ s # "all"
       /\ e.pays # "test"
       /\ SafeTest(e) \/ (e.fragment /\ e.real)
       /\ ~(SafeTest(e) /\ e.real)

\* build_container refuses what it cannot wire.
Wired(e) == e.fragment \/ e.simulated

\* stars_provider_factory
BuysReally(e) == e.fragment /\ e.real
\* The YooKassa client and the TON monitor of build_container.
HasYooKassa(s, e) ==
  e.fragment /\ e.pays = "yookassa" /\ ~e.simulated /\ s \in {"bot", "admin", "gateway"}
HasMonitor(s, e) == e.fragment /\ e.pays = "ton" /\ ~e.simulated /\ s = "bot"
RunsBot(s) == s \in {"all", "bot"}
RunsWorker(s) == s \in {"all", "worker"}

-----------------------------------------------------------------------------
(* Orders *)

\* shop: where the YooKassa payment was created; money: what the payment was made
\* with, stars: what was delivered; buyer: the service inside the purchase call.
Money == {"none", "simulated", "real"}
Order ==
  [status: OrderStatus, type: {"none", "test", "ton", "yookassa"},
   shop: {"none", "test", "live"}, money: Money, stars: Money,
   buyer: Services \union {Down}]
NewOrder ==
  [status |-> "created", type |-> "none", shop |-> "none", money |-> "none",
   stars |-> "none", buyer |-> Down]

TypeOK ==
  /\ env \in Settings
  /\ running \in [Services -> Settings \union {Down}]
  /\ purchases \in {"unset", "on", "off"}
  /\ order \in [Orders -> Order]

Set(o, new) == order' = [order EXCEPT ![o] = new]
Up(s) == running[s] # Down

-----------------------------------------------------------------------------
(* The operator *)

EditEnvironment ==
  /\ env' \in Environments
  /\ UNCHANGED <<running, purchases, order>>

Start(s) ==
  /\ ~Up(s) /\ Accepted(s, env) /\ Wired(env)
  /\ running' = [running EXCEPT ![s] = env]
  /\ UNCHANGED <<env, purchases, order>>

\* A purchase call that was under way is lost with its process.
Stop(s) ==
  /\ Up(s)
  /\ running' = [running EXCEPT ![s] = Down]
  /\ order' = [o \in Orders |->
                 IF order[o].buyer = s THEN [order[o] EXCEPT !.buyer = Down] ELSE order[o]]
  /\ UNCHANGED <<env, purchases>>

\* set_runtime_control
SwitchPurchases(v) ==
  /\ purchases' = v
  /\ UNCHANGED <<env, running, order>>

\* get_runtime_bool: the runtime control, if there is one, and the settings else.
Enabled(e) == IF purchases = "unset" THEN e.buys ELSE purchases = "on"

-----------------------------------------------------------------------------
(* Payments *)

\* confirm_order: setup_test_payment, setup_ton_payment or setup_yookassa_payment.
Initiate(s, o) ==
  LET e == running[s]
      type == IF e.simulated THEN "test" ELSE e.pays
  IN
  /\ Up(s) /\ RunsBot(s) /\ order[o].status = "created"
  /\ e.simulated \/ HasYooKassa(s, e) \/ HasMonitor(s, e)
  /\ Set(o, [order[o] EXCEPT !.status = "waiting_for_payment", !.type = type,
               !.shop = IF type # "yookassa" THEN "none"
                        ELSE IF e.testShop THEN "test" ELSE "live"])
  /\ UNCHANGED <<env, running, purchases>>

\* confirm_test_payment: any order that waits for a payment.
BeginTestPayment(s, o) ==
  /\ Up(s) /\ RunsBot(s) /\ running[s].simulated
  /\ order[o].status = "waiting_for_payment"
  /\ Set(o, [order[o] EXCEPT !.status = "payment_confirming"])
  /\ UNCHANGED <<env, running, purchases>>

\* Only the TestPaymentProvider confirms a payment.
ConfirmTestPayment(s, o) ==
  /\ Up(s) /\ RunsBot(s) /\ running[s].simulated
  /\ order[o].status = "payment_confirming"
  /\ Set(o, [order[o] EXCEPT !.status = "paid", !.money = "simulated"])
  /\ UNCHANGED <<env, running, purchases>>

\* sync_yookassa_payment with the credentials of the shop that has the payment;
\* in a test shop nobody pays.
CapturePayment(s, o) ==
  LET e == running[s] IN
  /\ Up(s) /\ HasYooKassa(s, e)
  /\ order[o].status \in {"waiting_for_payment", "payment_confirming"}
  /\ order[o].shop = IF e.testShop THEN "test" ELSE "live"
  /\ Set(o, [order[o] EXCEPT !.status = "paid",
               !.money = IF e.testShop THEN "simulated" ELSE "real"])
  /\ UNCHANGED <<env, running, purchases>>

\* record_ton_observation
RecordTransfer(s, o) ==
  /\ Up(s) /\ HasMonitor(s, running[s])
  /\ order[o].type = "ton"
  /\ order[o].status \in {"waiting_for_payment", "payment_confirming"}
  /\ Set(o, [order[o] EXCEPT !.status = "paid", !.money = "real"])
  /\ UNCHANGED <<env, running, purchases>>

-----------------------------------------------------------------------------
(* Purchases *)

\* The payment part of _purchase_validation_error: the type of the payment and the
\* shop are not looked at, but a TON order needs its transfer.
Confirmed(o) == order[o].type = "ton" => order[o].money = "real"

\* deliver_paid_order up to the purchase call.
TakeUp(s, o) ==
  /\ Up(s) /\ RunsWorker(s) /\ Enabled(running[s])
  /\ order[o].status = "paid"
  /\ Set(o, IF Confirmed(o)
            THEN [order[o] EXCEPT !.status = "purchase_processing", !.buyer = s]
            ELSE [order[o] EXCEPT !.status = "manual_review"])
  /\ UNCHANGED <<env, running, purchases>>

\* The provider of this process buys the Stars, or simulates that.
Buy(s, o) ==
  /\ Up(s) /\ order[o].buyer = s
  /\ Set(o, [order[o] EXCEPT !.status = "completed", !.buyer = Down,
               !.stars = IF BuysReally(running[s]) THEN "real" ELSE "simulated"])
  /\ UNCHANGED <<env, running, purchases>>

\* The purchase fails, or its answer was lost with another process.
GiveUp(s, o) ==
  /\ Up(s) /\ RunsWorker(s) /\ order[o].status = "purchase_processing"
  /\ order[o].buyer \in {s, Down}
  /\ Set(o, [order[o] EXCEPT !.status = "manual_review", !.buyer = Down])
  /\ UNCHANGED <<env, running, purchases>>

-----------------------------------------------------------------------------
Init ==
  /\ env \in Environments
  /\ running = [s \in Services |-> Down]
  /\ purchases = "unset"
  /\ order = [o \in Orders |-> NewOrder]

Serve(s) ==
  \/ Start(s) \/ Stop(s)
  \/ \E o \in Orders :
       \/ Initiate(s, o) \/ BeginTestPayment(s, o) \/ ConfirmTestPayment(s, o)
       \/ CapturePayment(s, o) \/ RecordTransfer(s, o)
       \/ TakeUp(s, o) \/ Buy(s, o) \/ GiveUp(s, o)

Operate == \E v \in {"on", "off"} : SwitchPurchases(v)

Next == EditEnvironment \/ Operate \/ \E s \in Services : Serve(s)
Spec == Init /\ [][Next]_vars

\* The environment is written once, before the services start.
SteadyNext == Operate \/ \E s \in Services : Serve(s)
SteadySpec == Init /\ [][SteadyNext]_vars

-----------------------------------------------------------------------------
(* Safety *)

\* docs/YOOKASSA_SETUP.md: a test payment never spends the real Fragment wallet.
\* It holds for one environment, which validate_runtime takes care of, and not
\* across the step from a test shop to live payments: _purchase_validation_error
\* looks at neither the kind of the payment nor its shop.
TestMoneyBuysNoStars ==
  \A o \in Orders : order[o].stars = "real" => order[o].money = "real"

\* Nor does a buyer who paid get simulated Stars, unless an order survives a change
\* of the environment (build_container, stars_provider_factory).
MoneyBuysRealStars ==
  \A o \in Orders : order[o].money = "real" /\ order[o].status = "completed" =>
    order[o].stars = "real"
=============================================================================
