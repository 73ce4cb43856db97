-------------------------- MODULE MCOfflineDelivery --------------------------
(* OfflineDelivery for TLC: messages and drops are interchangeable.         *)
EXTENDS OfflineDelivery, TLC

Symmetry == Permutations(Msgs) \cup Permutations(Drops)
=============================================================================
