---------------------------- MODULE MCLiveSession ----------------------------
(* LiveSession with two calls that may collide, and with one call in which   *)
(* the peers lock their profiles to each other.                              *)
EXTENDS LiveSession

MCBudgets ==
  { [calls |-> 2, says |-> 0, breaks |-> 0, exits |-> 0, locks |-> 0, unlocks |-> 0],
    [calls |-> 1, says |-> 2, breaks |-> 1, exits |-> 1, locks |-> 0, unlocks |-> 0],
    [calls |-> 1, says |-> 0, breaks |-> 0, exits |-> 0, locks |-> 3, unlocks |-> 1] }
=============================================================================
