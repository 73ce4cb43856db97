--------------------------- MODULE OfflineDelivery ---------------------------
(***************************************************************************)
(* One direction of the offline channel: the sender of OfflineSender, its   *)
(* drops, and the receiver of OfflineReceiver, whose GETs the drops answer *)
(* from what they hold at that moment.  The two programs also meet in live *)
(* sessions, where each tells the other its indexes.                       *)
(*                                                                         *)
(* A live session needs both users to leave offline mode; the sender's     *)
(* mode is left out, so that a session may happen between any two steps.    *)
(***************************************************************************)
EXTENDS Integers, FiniteSets

CONSTANTS
  Msgs, Drops, MaxIndex,
  Concurrent, Faults,                                  \* of the sender
  Window, MissRounds, StallRounds, SkipLimit,
  Retention, ProbeInterval, MaxPause, Restarts,        \* of the receiver
  BusySync  \* whether a base may reach the sender while it waits for a PUT

(* A drop's answer is a message or one of these words. *)
ASSUME DeliveryAssumption ==
  /\ MaxIndex \in Nat
  /\ Window \in Nat \ {0}
  /\ MissRounds \in Nat \ {0}
  /\ {StallRounds, SkipLimit, Retention, ProbeInterval, MaxPause} \subseteq Nat
  /\ {Concurrent, Restarts, BusySync} \subseteq BOOLEAN
  /\ Faults \subseteq {"put", "get", "expire", "restart"}
  /\ Msgs \cap {"none", "MISS", "FAIL"} = {}

VARIABLES
  sendIndex, diskSend, status, idx, flying, reply, store, everStored,
  rx, forwardProbe, stalled, sinceProbe, seen, offlineMode, sweeping, todo,
  misses, auths, disk, shown, everShown, everSkipped,
  answer,   \* what each drop has answered to the GET that is under way
  since     \* history: the messages shown since the receiver was started

S == INSTANCE OfflineSender
R == INSTANCE OfflineReceiver WITH Copies <- Msgs, Answers <- {}

senderVars   == <<sendIndex, diskSend, status, idx, flying, reply, store, everStored>>
receiverVars == <<rx, forwardProbe, stalled, sinceProbe, seen, offlineMode,
                  sweeping, todo, misses, auths, disk, shown, everShown,
                  everSkipped>>
vars == <<senderVars, receiverVars, answer, since>>

NoAnswer == [d \in Drops |-> "none"]

Init ==
  /\ S!SenderInit
  /\ R!Init
  /\ answer = NoAnswer
  /\ since = {}

(* A drop answers the GET of the current target (get_with_stats asks all    *)
(* drops at once), or the GET fails there.                                  *)
AnswerGet(d) ==
  /\ answer[d] = "none"
  /\ \E kind \in R!Kinds, i \in R!Index :
       /\ R!NextTarget(kind, i)
       /\ \/ \E m \in Msgs : /\ idx[m] = i
                             /\ <<m, d>> \in store
                             /\ answer' = [answer EXCEPT ![d] = m]
          \/ /\ ~S!Occupied(d, i)
             /\ answer' = [answer EXCEPT ![d] = "MISS"]
          \/ /\ "get" \in Faults
             /\ answer' = [answer EXCEPT ![d] = "FAIL"]
  /\ UNCHANGED <<senderVars, receiverVars, since>>

(* All drops have answered: the poller goes on with what it was given.      *)
Poll ==
  /\ \A d \in Drops : answer[d] # "none"
  /\ \E kind \in R!Kinds, i \in R!Index :
       LET found == {i} \X {m \in Msgs : \E d \in Drops : answer[d] = m}
       IN  \/ R!PollHit(kind, i, found)
           \/ /\ found = {}
              /\ \E d \in Drops : answer[d] = "MISS"
              /\ R!PollMiss(kind, i)
           \/ /\ found \subseteq seen
              /\ found = {} => \A d \in Drops : answer[d] = "FAIL"
              /\ R!PollNothing(kind, i)
  /\ answer' = NoAnswer
  /\ since' = since \cup shown'
  /\ UNCHANGED senderVars

StartSweep(n) == R!StartSweep(n) /\ UNCHANGED <<senderVars, answer, since>>
GoOffline     == R!GoOffline /\ UNCHANGED <<senderVars, answer, since>>
GoOnline      == R!GoOnline /\ UNCHANGED <<senderVars, answer, since>>
SaveState     == R!SaveState /\ UNCHANGED <<senderVars, answer, since>>

Restart ==
  /\ R!Restart
  /\ answer' = NoAnswer
  /\ since' = {}
  /\ UNCHANGED senderVars

Receiver ==
  \/ \E n \in 0..MaxPause : StartSweep(n)
  \/ \E d \in Drops : AnswerGet(d)
  \/ Poll
  \/ GoOffline
  \/ GoOnline
  \/ SaveState
  \/ Restart

Sender == S!Local /\ UNCHANGED <<receiverVars, answer, since>>

ServePut(m, d) == S!ServePut(m, d) /\ UNCHANGED <<receiverVars, answer, since>>
Finish(m)      == S!Finish(m) /\ UNCHANGED <<receiverVars, answer, since>>

(* send_offline_index_sync and the handler of its frame, to the receiver:   *)
(* a frame may have been on its way while the index moved on.               *)
SyncReceiver(next) ==
  /\ next <= MaxIndex
  /\ R!IndexSync(next)
  /\ UNCHANGED <<senderVars, answer, since>>

(* The same to the sender. *)
SyncSender ==
  /\ ~offlineMode
  /\ BusySync \/ S!Putting = {}
  /\ S!BaseSync(rx.base)
  /\ UNCHANGED <<receiverVars, answer, since>>

Next ==
  \/ Sender
  \/ Receiver
  \/ \E next \in 0..sendIndex : SyncReceiver(next)
  \/ SyncSender

Spec == Init /\ [][Next]_vars

-----------------------------------------------------------------------------
TypeOK ==
  /\ S!SenderTypeOK
  /\ R!TypeOK
  /\ answer \in [Drops -> {"none", "MISS", "FAIL"} \cup Msgs]
  /\ since \subseteq everShown

(* What the receiver holds of the sender is never ahead of it by more than  *)
(* a message that was stored while its sender still waits, or never learned *)
(* that it was: an index sync cannot be contradicted by a later send.       *)
KnownIsHonest ==
  rx.known <= sendIndex \/ \E m \in everStored : rx.known = idx[m] + 1

(* The receiver gives up no index that the sender may still use for a new   *)
(* message: one ahead of the sender has been read.                          *)
FutureIsOpen ==
  \A i \in everSkipped \cup {j \in R!Index : j < rx.base} :
    i < sendIndex \/ \E m \in everStored : idx[m] = i

(* The offline channel implements OfflineChannel: what is shown was sent,   *)
(* and nothing is shown twice by a program that goes on running, although   *)
(* forward probes, recovery probes and several drops deliver the same blobs *)
(* again, and restarts of either side come in between.                      *)
Channel == INSTANCE OfflineChannel
             WITH sent     <- {m \in Msgs : status[m] # "unsent"},
                  showing  <- {b[2] : b \in shown},
                  onScreen <- {b[2] : b \in since}

ImplementsChannel == Channel!Spec

-----------------------------------------------------------------------------
(***************************************************************************)
(* Fairness: the PUTs on the way arrive, the sender goes on when they have *)
(* come back, a user who leaves offline mode returns to it, and the poller *)
(* keeps sweeping while time passes.                                       *)
(***************************************************************************)
Fairness ==
  /\ \A m \in Msgs :
       /\ WF_vars(Finish(m))
       /\ \A d \in Drops : WF_vars(ServePut(m, d))
  /\ WF_vars(GoOffline)
  /\ []<><<\E n \in 1..MaxPause : StartSweep(n)>>_vars

FairSpec == Spec /\ Fairness

(* termchat-i2p.py:7086 tells the user of every gap: "late recovery remains *)
(* active".  So a message that a drop holds under a skipped index is shown  *)
(* in the end.  The code probes the lowest skipped index that is due, and   *)
(* by the time the next probe is allowed that one is due again: behind a    *)
(* true gap the other skipped indexes are never probed.                     *)
SkippedIsRecovered ==
  \A m \in Msgs :
    (m \in everStored /\ idx[m] \in rx.skipped) ~> (<<idx[m], m>> \in everShown)
=============================================================================
