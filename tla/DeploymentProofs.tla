-------------------------- MODULE DeploymentProofs --------------------------
(***************************************************************************)
(* One environment never mixes simulated and real money, whatever services *)
(* run and however they are stopped and started: validate_runtime accepts  *)
(* no settings under which a process that simulates payments could meet    *)
(* one that buys.                                                          *)
(***************************************************************************)
EXTENDS Deployment, TLAPS

Started ==
  /\ running \in [Services -> Environments \union {Down}]
  /\ \A s \in Services : Up(s) => running[s] = env /\ Accepted(s, env)

\* What the kind of the payment says about the settings of the worker.
KindOf(r) ==
  /\ r.money = "simulated" => ~BuysReally(env)
  /\ r.money = "real" => BuysReally(env)
  /\ r.status = "paid" \/ r.buyer # Down => r.money # "none"
  /\ r.stars = "real" => BuysReally(env) /\ r.money # "none"
  /\ r.stars = "simulated" => ~BuysReally(env)
  /\ r.status = "completed" => r.stars # "none"
Kind(o) == KindOf(order[o])

SteadyInv ==
  /\ env \in Environments
  /\ order \in [Orders -> Order]
  /\ Started
  /\ \A o \in Orders : Kind(o)

\* An accepted process that takes simulated payments excludes a real purchase, and
\* one that takes real money excludes a simulated one (validate_runtime).
LEMMA AcceptedKinds ==
  ASSUME NEW s, NEW e \in Settings, Accepted(s, e)
  PROVE  /\ e.simulated => ~BuysReally(e)
         /\ HasYooKassa(s, e) => (e.testShop <=> ~BuysReally(e))
         /\ HasMonitor(s, e) => BuysReally(e)
BY DEF Accepted, SafeTest, BuysReally, HasYooKassa, HasMonitor, Settings

LEMMA InitSteady == Init => SteadyInv
BY DEF Init, SteadyInv, Started, Kind, KindOf, NewOrder, Order, Money, OrderStatus, Up

\* What a started service and an order have to do with each other.
Known(s, o) ==
  /\ running[s] = env /\ env \in Settings
  /\ order[o] \in Order /\ KindOf(order[o])
  /\ env.simulated => ~BuysReally(env)
  /\ HasYooKassa(s, env) => (env.testShop <=> ~BuysReally(env))
  /\ HasMonitor(s, env) => BuysReally(env)

\* A step that changes one order, of a service that has started.
LEMMA OneOrder ==
  ASSUME SteadyInv, UNCHANGED <<env, running>>,
         NEW o \in Orders, NEW new \in Order, Set(o, new),
         KindOf(new)
  PROVE  SteadyInv'
<1>1. order' \in [Orders -> Order] /\ order'[o] = new
  BY DEF Set, SteadyInv
<1>2. ASSUME NEW p \in Orders, p # o  PROVE order'[p] = order[p]
  BY <1>2 DEF Set, SteadyInv
<1>3. ASSUME NEW p \in Orders  PROVE Kind(p)'
  <2>1. CASE p = o
    BY <2>1, <1>1 DEF Kind, KindOf, BuysReally
  <2>2. CASE p # o
    BY <2>2, <1>2 DEF Kind, KindOf, BuysReally, SteadyInv
  <2> QED BY <2>1, <2>2
<1>4. Started'
  BY DEF Started, Up, Accepted, SafeTest, SteadyInv
<1> QED BY <1>1, <1>3, <1>4 DEF SteadyInv

LEMMA StepSteady ==
  ASSUME Environments \subseteq Settings, Down \notin Services, SteadyInv, [SteadyNext]_vars
  PROVE  SteadyInv'
<1> USE DEF SteadyInv
<1>1. CASE UNCHANGED vars
  BY <1>1 DEF vars, Started, Kind, KindOf, Up, Accepted, SafeTest, BuysReally
<1>2. CASE Operate
  BY <1>2 DEF Operate, SwitchPurchases, Started, Kind, KindOf, Up, Accepted, SafeTest, BuysReally
<1>3. ASSUME NEW s \in Services, Start(s)  PROVE SteadyInv'
  BY <1>3 DEF Start, Started, Kind, KindOf, Up, Accepted, SafeTest, BuysReally
<1>4. ASSUME NEW s \in Services, Stop(s)  PROVE SteadyInv'
  <2>1. order' \in [Orders -> Order]
    BY <1>4 DEF Stop, Order
  <2>2. \A o \in Orders : Kind(o)'
    BY <1>4 DEF Stop, Kind, KindOf, BuysReally, Order
  <2> QED BY <1>4, <2>1, <2>2 DEF Stop, Started, Up, Accepted, SafeTest
<1>5. ASSUME NEW s \in Services, NEW o \in Orders, Up(s)  PROVE Known(s, o)
  BY <1>5, AcceptedKinds DEF Started, Kind, Known
<1>6. ASSUME NEW s \in Services, NEW o \in Orders, Initiate(s, o)  PROVE SteadyInv'
  <2> DEFINE type == IF env.simulated THEN "test" ELSE env.pays
             shop == IF type # "yookassa" THEN "none"
                     ELSE IF env.testShop THEN "test" ELSE "live"
             new == [order[o] EXCEPT !.status = "waiting_for_payment", !.type = type,
                       !.shop = shop]
  <2>0. Up(s)
    BY <1>6 DEF Initiate
  <2>2. Known(s, o)
    BY <2>0, <1>5
  <2>1. Set(o, new) /\ UNCHANGED <<env, running>>
    BY <1>6, <2>2 DEF Initiate, Known
  <2>3. new \in Order
    <3>1. type \in {"test", "ton", "yookassa"}
      BY <2>2 DEF Known, Settings
    <3>2. shop \in {"none", "test", "live"}
      OBVIOUS
    <3> HIDE DEF type, shop
    <3> QED BY <2>2, <3>1, <3>2 DEF Known, Order, OrderStatus
  <2>4. KindOf(new)
    BY <1>6, <2>2 DEF Initiate, Known, KindOf, Order, Settings
  <2> HIDE DEF new
  <2> QED BY <2>1, <2>3, <2>4, OneOrder
<1>7. ASSUME NEW s \in Services, NEW o \in Orders, BeginTestPayment(s, o)  PROVE SteadyInv'
  <2> DEFINE new == [order[o] EXCEPT !.status = "payment_confirming"]
  <2>1. Set(o, new) /\ UNCHANGED <<env, running>>
    BY <1>7, <1>5 DEF BeginTestPayment
  <2>2. Known(s, o)
    BY <1>7, <1>5 DEF BeginTestPayment
  <2>3. new \in Order
    BY <2>2 DEF Known, Order, OrderStatus, Money
  <2>4. KindOf(new)
    BY <1>7, <2>2 DEF BeginTestPayment, Known, KindOf, Order
  <2> HIDE DEF new
  <2> QED BY <2>1, <2>3, <2>4, OneOrder
<1>8. ASSUME NEW s \in Services, NEW o \in Orders, ConfirmTestPayment(s, o)  PROVE SteadyInv'
  <2> DEFINE new == [order[o] EXCEPT !.status = "paid", !.money = "simulated"]
  <2>1. Set(o, new) /\ UNCHANGED <<env, running>>
    BY <1>8, <1>5 DEF ConfirmTestPayment
  <2>2. Known(s, o)
    BY <1>8, <1>5 DEF ConfirmTestPayment
  <2>3. new \in Order
    BY <2>2 DEF Known, Order, OrderStatus, Money
  <2>4. KindOf(new)
    BY <1>8, <2>2 DEF ConfirmTestPayment, Known, KindOf, Order
  <2> HIDE DEF new
  <2> QED BY <2>1, <2>3, <2>4, OneOrder
<1>9. ASSUME NEW s \in Services, NEW o \in Orders, CapturePayment(s, o)  PROVE SteadyInv'
  <2> DEFINE new == [order[o] EXCEPT !.status = "paid",
                 !.money = IF env.testShop THEN "simulated" ELSE "real"]
  <2>0. Up(s)
    BY <1>9 DEF CapturePayment
  <2>2. Known(s, o)
    BY <2>0, <1>5
  <2>1. Set(o, new) /\ UNCHANGED <<env, running>>
    BY <1>9, <2>2 DEF CapturePayment, Known
  <2>3. new \in Order
    BY <2>2 DEF Known, Order, OrderStatus, Money, Settings
  <2>4. KindOf(new)
    BY <1>9, <2>2 DEF CapturePayment, Known, KindOf, Order, Settings
  <2> HIDE DEF new
  <2> QED BY <2>1, <2>3, <2>4, OneOrder
<1>10. ASSUME NEW s \in Services, NEW o \in Orders, RecordTransfer(s, o)  PROVE SteadyInv'
  <2> DEFINE new == [order[o] EXCEPT !.status = "paid", !.money = "real"]
  <2>1. Set(o, new) /\ UNCHANGED <<env, running>>
    BY <1>10, <1>5 DEF RecordTransfer
  <2>2. Known(s, o)
    BY <1>10, <1>5 DEF RecordTransfer
  <2>3. new \in Order
    BY <2>2 DEF Known, Order, OrderStatus, Money
  <2>4. KindOf(new)
    BY <1>10, <2>2 DEF RecordTransfer, Known, KindOf, Order
  <2> HIDE DEF new
  <2> QED BY <2>1, <2>3, <2>4, OneOrder
<1>11. ASSUME NEW s \in Services, NEW o \in Orders, TakeUp(s, o)  PROVE SteadyInv'
  <2> DEFINE new == IF Confirmed(o)
               THEN [order[o] EXCEPT !.status = "purchase_processing", !.buyer = s]
               ELSE [order[o] EXCEPT !.status = "manual_review"]
  <2>1. Set(o, new) /\ UNCHANGED <<env, running>>
    BY <1>11, <1>5 DEF TakeUp
  <2>2. Known(s, o)
    BY <1>11, <1>5 DEF TakeUp
  <2>3. new \in Order
    BY <2>2 DEF Known, Order, OrderStatus, Money
  <2>4. KindOf(new)
    BY <1>11, <2>2 DEF TakeUp, Known, KindOf, Order
  <2> HIDE DEF new
  <2> QED BY <2>1, <2>3, <2>4, OneOrder
<1>12. ASSUME NEW s \in Services, NEW o \in Orders, Buy(s, o)  PROVE SteadyInv'
  <2> DEFINE new == [order[o] EXCEPT !.status = "completed", !.buyer = Down,
                 !.stars = IF BuysReally(env) THEN "real" ELSE "simulated"]
  <2>0. Up(s)
    BY <1>12 DEF Buy
  <2>2. Known(s, o)
    BY <2>0, <1>5
  <2>1. Set(o, new) /\ UNCHANGED <<env, running>>
    BY <1>12, <2>2 DEF Buy, Known
  <2>3. new \in Order
    BY <2>2 DEF Known, Order, OrderStatus, Money
  <2>4. KindOf(new)
    BY <1>12, <2>2 DEF Buy, Known, KindOf, Order
  <2> HIDE DEF new
  <2> QED BY <2>1, <2>3, <2>4, OneOrder
<1>13. ASSUME NEW s \in Services, NEW o \in Orders, GiveUp(s, o)  PROVE SteadyInv'
  <2> DEFINE new == [order[o] EXCEPT !.status = "manual_review", !.buyer = Down]
  <2>1. Set(o, new) /\ UNCHANGED <<env, running>>
    BY <1>13, <1>5 DEF GiveUp
  <2>2. Known(s, o)
    BY <1>13, <1>5 DEF GiveUp
  <2>3. new \in Order
    BY <2>2 DEF Known, Order, OrderStatus, Money
  <2>4. KindOf(new)
    BY <1>13, <2>2 DEF GiveUp, Known, KindOf, Order
  <2> HIDE DEF new
  <2> QED BY <2>1, <2>3, <2>4, OneOrder
<1> QED
  BY <1>1, <1>2, <1>3, <1>4, <1>6, <1>7, <1>8, <1>9, <1>10, <1>11, <1>12, <1>13
  DEF SteadyNext, Serve

\* Under one environment a simulated payment, of TEST_PAYMENT_MODE or of a test
\* shop, never spends the wallet, for any services and orders.
THEOREM SteadyTestMoney ==
  ASSUME Environments \subseteq Settings, Down \notin Services
  PROVE  SteadySpec => []TestMoneyBuysNoStars
<1>1. SteadyInv => TestMoneyBuysNoStars
  BY DEF SteadyInv, Kind, KindOf, TestMoneyBuysNoStars, Order, Money
<1> QED BY <1>1, InitSteady, StepSteady, PTL DEF SteadySpec

\* Nor is a buyer who paid given simulated Stars (stars_provider_factory).
THEOREM SteadyRealStars ==
  ASSUME Environments \subseteq Settings, Down \notin Services
  PROVE  SteadySpec => []MoneyBuysRealStars
<1>1. SteadyInv => MoneyBuysRealStars
  BY DEF SteadyInv, Kind, KindOf, MoneyBuysRealStars, Order, Money
<1> QED BY <1>1, InitSteady, StepSteady, PTL DEF SteadySpec
=============================================================================
