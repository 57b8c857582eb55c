---------------------------- MODULE MCTonPayment ----------------------------
(* Instances of TonPayment.                                                    *)
EXTENDS TonPayment

MCSymmetry ==
  Permutations(Orders) \union Permutations(Transfers) \union Permutations(Hashes)
    \union Permutations(Tasks \ {Monitor})
=============================================================================
