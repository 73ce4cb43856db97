--------------------------- MODULE MCOfflineSender ---------------------------
(* OfflineSender for TLC: messages and drops are interchangeable.           *)
EXTENDS OfflineSender, TLC

Symmetry == Permutations(Msgs) \cup Permutations(Drops)
=============================================================================
