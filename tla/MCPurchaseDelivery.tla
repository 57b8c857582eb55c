------------------------ MODULE MCPurchaseDelivery ------------------------
(* Instances of PurchaseDelivery: a worker that holds the seed and one process *)
(* for administrators that does not.                                           *)
EXTENDS PurchaseDeliveryInvariant, PurchaseDeliveryPromise, TLC

CONSTANTS w, a1, a2, worker, admin

MCTaskProcess == [t \in Tasks |-> IF t = w THEN worker ELSE admin]
MCSymmetry == Permutations(Requests) \union Permutations(Tasks \ {w})
=============================================================================
