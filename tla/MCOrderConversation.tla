------------------------ MODULE MCOrderConversation ------------------------
(* Instances of OrderConversation.                                            *)
EXTENDS OrderConversation, TLC

MCSymmetry == Permutations(Friends) \union Permutations(Tasks)
=============================================================================
