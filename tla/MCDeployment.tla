---------------------------- MODULE MCDeployment ----------------------------
(* Instances of Deployment: the services that touch an order.                  *)
EXTENDS Deployment, TLC

MCServices == {"all", "bot", "worker", "gateway"}
\* docs/YOOKASSA_SETUP.md: the trial run in the test shop, and then the live shop.
MCTrial ==
  [simulated |-> FALSE, real |-> FALSE, fragment |-> TRUE, pays |-> "yookassa",
   testShop |-> TRUE, buys |-> FALSE, seed |-> {"worker"}]
MCLive == [MCTrial EXCEPT !.real = TRUE, !.testShop = FALSE]
MCEnvironments == {MCTrial, MCLive}
MCSymmetry == Permutations(Orders)
=============================================================================
