------------------------- MODULE MCYooKassaPayment -------------------------
(* Instances of YooKassaPayment.                                               *)
EXTENDS YooKassaPayment, TLC

MCSymmetry == Permutations(Tasks \ Gateways) \union Permutations(Gateways)
=============================================================================
