---------------------------- MODULE OfflineChannel ----------------------------
(***************************************************************************)
(* What the offline channel promises its two users, with indexes, keys,    *)
(* drops and sweeps left out: what is shown was sent, in any order, and     *)
(* never twice while the receiver's program runs.                          *)
(***************************************************************************)
CONSTANT Msgs  \* the messages

VARIABLES
  sent,    \* the messages the user has sent
  showing, \* the messages the last step put into the peer's chat
  onScreen \* those that the chat has shown since the peer's program started

Init ==
  /\ sent = {}
  /\ showing = {}
  /\ onScreen = {}

Send(m) ==
  /\ m \notin sent
  /\ sent' = sent \cup {m}
  /\ UNCHANGED <<showing, onScreen>>

Show(new) ==
  /\ new \subseteq sent \ onScreen
  /\ showing' = new
  /\ onScreen' = onScreen \cup new
  /\ UNCHANGED sent

(* The peer's program starts again, and its chat is empty. *)
Restart ==
  /\ showing' = {}
  /\ onScreen' = {}
  /\ UNCHANGED sent

Next ==
  \/ \E m \in Msgs : Send(m)
  \/ \E new \in SUBSET Msgs : Show(new)
  \/ Restart

Spec == Init /\ [][Next]_<<sent, showing, onScreen>>
=============================================================================
