--------------------------- MODULE MCAdminPanel ---------------------------
(* Instances of AdminPanel.                                                *)
EXTENDS AdminPanel, TLC

MCRole == [a \in Admins |-> 
  CASE a = "boss" -> "owner" [] a = "clerk" -> "admin" [] OTHER -> "support"]
MCSymmetry == Permutations(Requests)
=============================================================================
