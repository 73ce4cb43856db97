------------------------ MODULE OfflineDeliveryProofs ------------------------
(***************************************************************************)
(* OfflineDelivery implements OfflineChannel, for any messages, drops,      *)
(* faults and parameters of the receiver: what is shown was sent, and shown *)
(* once while the receiver's program runs.                                  *)
(***************************************************************************)
EXTENDS OfflineDelivery, TLAPS

(* What OfflineChannel sees of the programs. *)
Sent == {m \in Msgs : status[m] # "unsent"}
Messages(blobs) == {b[2] : b \in blobs}

(* The sender's tables have an entry for each message. *)
Tables == DOMAIN status = Msgs /\ DOMAIN idx = Msgs /\ DOMAIN answer = Drops

(* Only what was sent is on its way or at a drop. *)
SentFirst ==
  \A m \in Msgs, d \in Drops :
    <<m, d>> \in flying \cup store => status[m] # "unsent"

(* A blob that a drop has answered with is one of the index that is polled,   *)
(* however long the sweep waits for the other drops.                          *)
Answered ==
  \A d \in Drops : answer[d] \in Msgs =>
    /\ status[answer[d]] # "unsent"
    /\ idx[answer[d]] \in R!Index
    /\ \E kind \in R!Kinds : R!NextTarget(kind, idx[answer[d]])

(* What was shown was sent, under the index it was found at; and the receiver *)
(* remembers all of it since its start.                                       *)
Remembered ==
  /\ everShown \subseteq R!Index \X Msgs
  /\ \A b \in everShown : status[b[2]] # "unsent" /\ idx[b[2]] = b[1]
  /\ seen \subseteq everShown
  /\ shown \subseteq everShown
  /\ since = seen

IInv == Tables /\ SentFirst /\ Answered /\ Remembered

-----------------------------------------------------------------------------
(* What a step of the sender leaves alone. *)
SenderRest == UNCHANGED <<receiverVars, answer, since>>

(* In a step that sends nothing, what was sent stays sent, under its index. *)
SendsNothing ==
  /\ DOMAIN status' = Msgs /\ UNCHANGED idx
  /\ \A m \in Msgs : status'[m] = "unsent" <=> status[m] = "unsent"

(* The initial state. *)
LEMMA InitInv == Init => IInv
<1> SUFFICES ASSUME Init PROVE IInv
  OBVIOUS
<1>1. Tables /\ SentFirst
  BY DEF Init, S!SenderInit, NoAnswer, Tables, SentFirst
<1>2. Answered
  BY DeliveryAssumption DEF Init, NoAnswer, Answered
<1>3. Remembered
  BY DEF Init, R!Init, Remembered
<1> QED
  BY <1>1, <1>2, <1>3 DEF IInv

(* A message is sent. *)
LEMMA SendInv ==
  ASSUME IInv, NEW m \in Msgs, S!Send(m), SenderRest
  PROVE  IInv' /\ Sent' = Sent \cup {m} /\ m \notin Sent
<1>1. /\ status[m] = "unsent" /\ status' = [status EXCEPT ![m] = "putting"]
      /\ idx' = [idx EXCEPT ![m] = sendIndex]
      /\ flying' = flying \cup {<<m, d>> : d \in Drops}
      /\ UNCHANGED store
  BY DEF S!Send
<1>2. /\ DOMAIN status' = Msgs /\ DOMAIN idx' = Msgs /\ status'[m] = "putting"
      /\ \A k \in Msgs : k # m => status'[k] = status[k] /\ idx'[k] = idx[k]
  BY <1>1 DEF IInv, Tables
<1>3. Tables'
  BY <1>2 DEF IInv, Tables, SenderRest
<1>4. SentFirst'
  <2> SUFFICES ASSUME NEW k \in Msgs, NEW d \in Drops, <<k, d>> \in flying' \cup store'
               PROVE  status'[k] # "unsent"
    BY DEF SentFirst
  <2>1. k = m \/ <<k, d>> \in flying \cup store
    BY <1>1
  <2> QED
    BY <1>2, <2>1 DEF IInv, SentFirst
<1>5. Answered'
  <2>1. UNCHANGED <<answer, sweeping, todo>>
    BY DEF SenderRest, receiverVars
  <2>2. ASSUME NEW d \in Drops, answer[d] \in Msgs
        PROVE  /\ status'[answer[d]] # "unsent"
               /\ idx'[answer[d]] \in R!Index
               /\ \E kind \in R!Kinds : R!NextTarget(kind, idx'[answer[d]])
    <3>1. /\ status[answer[d]] # "unsent" /\ idx[answer[d]] \in R!Index
          /\ \E kind \in R!Kinds : R!NextTarget(kind, idx[answer[d]])
      BY <2>2 DEF IInv, Answered
    <3>2. answer[d] # m
      BY <1>1, <3>1
    <3>3. status'[answer[d]] = status[answer[d]] /\ idx'[answer[d]] = idx[answer[d]]
      BY <1>2, <2>2, <3>2
    <3> QED
      BY <3>1, <3>3
  <2> QED
    BY <2>1, <2>2 DEF Answered, R!NextTarget
<1>6. Remembered'
  <2>1. \A b \in everShown : b[2] \in Msgs /\ b[2] # m
    BY <1>1 DEF IInv, Remembered
  <2> QED
    BY <1>2, <2>1 DEF IInv, Remembered, SenderRest, receiverVars
<1>7. Sent' = Sent \cup {m} /\ m \notin Sent
  BY <1>1, <1>2 DEF Sent
<1> QED
  BY <1>3, <1>4, <1>5, <1>6, <1>7 DEF IInv

(* Any other step of the sender or of its drops. *)
LEMMA SenderRestInv ==
  ASSUME IInv, SendsNothing, SenderRest,
         \A m \in Msgs, d \in Drops :
           <<m, d>> \in flying' \cup store' => <<m, d>> \in flying \cup store
  PROVE  IInv' /\ Sent' = Sent
<1>1. Tables'
  BY DEF IInv, Tables, SendsNothing, SenderRest
<1>2. SentFirst'
  BY DEF IInv, SentFirst, SendsNothing
<1>3. Answered'
  BY DEF IInv, Answered, SendsNothing, SenderRest, receiverVars, R!NextTarget
<1>4. Remembered'
  BY DEF IInv, Remembered, SendsNothing, SenderRest, receiverVars
<1>5. Sent' = Sent
  BY DEF Sent, SendsNothing
<1> QED
  BY <1>1, <1>2, <1>3, <1>4, <1>5 DEF IInv

(* A step of the sender and its drops. *)
LEMMA SenderInv ==
  ASSUME IInv, Sender
  PROVE  /\ IInv' /\ SenderRest
         /\ Sent' = Sent \/ \E m \in Msgs : m \notin Sent /\ Sent' = Sent \cup {m}
<1>0. SenderRest /\ S!Local
  BY DEF Sender, SenderRest
<1>1. ASSUME NEW m \in Msgs, S!Send(m)
      PROVE  IInv' /\ m \notin Sent /\ Sent' = Sent \cup {m}
  BY <1>0, <1>1, SendInv
<1>2. ASSUME NEW m \in Msgs, S!Finish(m) PROVE IInv' /\ Sent' = Sent
  <2>1. /\ status[m] = "putting" /\ UNCHANGED <<idx, flying, store>>
        /\ \E w \in {"delivered", "failed"} : status' = [status EXCEPT ![m] = w]
    BY <1>2 DEF S!Finish
  <2>2. SendsNothing
    BY <2>1 DEF SendsNothing, IInv, Tables
  <2> QED
    BY <1>0, <2>1, <2>2, SenderRestInv
<1>3. ASSUME NEW m \in Msgs, NEW d \in Drops, S!ServePut(m, d) PROVE IInv' /\ Sent' = Sent
  <2>1. /\ <<m, d>> \in flying /\ flying' \subseteq flying
        /\ store' \subseteq store \cup {<<m, d>>}
        /\ UNCHANGED <<status, idx>>
    BY <1>3 DEF S!ServePut
  <2>2. SendsNothing
    BY <2>1 DEF SendsNothing, IInv, Tables
  <2> QED
    BY <1>0, <2>1, <2>2, SenderRestInv
<1>4. ASSUME NEW m \in Msgs, NEW d \in Drops, NEW lost \in BOOLEAN, S!PutFails(m, d, lost)
      PROVE  IInv' /\ Sent' = Sent
  <2>1. flying' \subseteq flying /\ UNCHANGED <<status, idx, store>>
    BY <1>4 DEF S!PutFails
  <2>2. SendsNothing
    BY <2>1 DEF SendsNothing, IInv, Tables
  <2> QED
    BY <1>0, <2>1, <2>2, SenderRestInv
<1>5. ASSUME NEW m \in Msgs, NEW d \in Drops, S!Expire(m, d) PROVE IInv' /\ Sent' = Sent
  <2>1. store' \subseteq store /\ UNCHANGED <<status, idx, flying>>
    BY <1>5 DEF S!Expire
  <2>2. SendsNothing
    BY <2>1 DEF SendsNothing, IInv, Tables
  <2> QED
    BY <1>0, <2>1, <2>2, SenderRestInv
<1>6. ASSUME S!SenderRestart PROVE IInv' /\ Sent' = Sent
  <2>1. /\ status' = [m \in Msgs |-> IF status[m] = "putting" THEN "stopped" ELSE status[m]]
        /\ UNCHANGED <<idx, flying, store>>
    BY <1>6 DEF S!SenderRestart
  <2>2. SendsNothing
    BY <2>1 DEF SendsNothing
  <2> QED
    BY <1>0, <2>1, <2>2, SenderRestInv
<1> QED
  BY <1>0, <1>1, <1>2, <1>3, <1>4, <1>5, <1>6 DEF S!Local

-----------------------------------------------------------------------------
(* What OfflineChannel calls Show(new). *)
Shows(new) ==
  /\ new \subseteq Sent \ Messages(since)
  /\ Messages(shown') = new
  /\ Messages(since') = Messages(since) \cup new
  /\ Sent' = Sent

(* What it calls Restart. *)
Restarted == Messages(shown') = {} /\ Messages(since') = {} /\ Sent' = Sent

(* A step of the receiver that shows nothing and keeps its sweep. *)
LEMMA QuietInv ==
  ASSUME IInv, UNCHANGED <<senderVars, answer, since, sweeping, todo, seen, everShown>>,
         shown' = {}
  PROVE  IInv' /\ Shows({})
<1>1. Tables' /\ SentFirst'
  BY DEF IInv, Tables, SentFirst, senderVars
<1>2. Answered'
  BY DEF IInv, Answered, senderVars, R!NextTarget
<1>3. Remembered'
  BY DEF IInv, Remembered, senderVars
<1>4. Shows({})
  BY DEF Shows, Sent, Messages, senderVars
<1> QED
  BY <1>1, <1>2, <1>3, <1>4 DEF IInv

(* One that has no answer of a drop left. *)
LEMMA ForgetInv ==
  ASSUME IInv, UNCHANGED senderVars, answer' = NoAnswer, UNCHANGED everShown, shown' = {},
         UNCHANGED <<seen, since>> \/ (seen' = {} /\ since' = {})
  PROVE  /\ IInv'
         /\ UNCHANGED since => Shows({})
         /\ since' = {} => Restarted
<1>1. Tables' /\ SentFirst'
  BY DEF IInv, Tables, SentFirst, senderVars, NoAnswer
<1>2. Answered'
  BY DeliveryAssumption DEF NoAnswer, Answered
<1>3. Remembered'
  BY DEF IInv, Remembered, senderVars
<1>4. (UNCHANGED since => Shows({})) /\ (since' = {} => Restarted)
  BY DEF Shows, Restarted, Sent, Messages, senderVars
<1> QED
  BY <1>1, <1>2, <1>3, <1>4 DEF IInv

(* A drop answers. *)
LEMMA AnswerInv ==
  ASSUME IInv, NEW d \in Drops, AnswerGet(d)
  PROVE  IInv'
<1>1. PICK kind \in R!Kinds, i \in R!Index :
        /\ R!NextTarget(kind, i)
        /\ \/ \E m \in Msgs : /\ idx[m] = i /\ <<m, d>> \in store
                              /\ answer' = [answer EXCEPT ![d] = m]
           \/ answer' = [answer EXCEPT ![d] = "MISS"]
           \/ answer' = [answer EXCEPT ![d] = "FAIL"]
  BY DEF AnswerGet
<1>2. UNCHANGED <<senderVars, receiverVars, since>>
  BY DEF AnswerGet
<1>3. Tables' /\ SentFirst' /\ Remembered'
  BY <1>1, <1>2 DEF IInv, Tables, SentFirst, Remembered, senderVars, receiverVars
<1>4. \A e \in Drops : e # d => answer'[e] = answer[e]
  BY <1>1 DEF IInv, Tables
<1>5. answer'[d] \in Msgs =>
        /\ status[answer'[d]] # "unsent" /\ idx[answer'[d]] = i
  BY <1>1, DeliveryAssumption DEF IInv, Tables, SentFirst
<1>6. ASSUME NEW e \in Drops, answer'[e] \in Msgs
      PROVE  /\ status[answer'[e]] # "unsent"
             /\ idx[answer'[e]] \in R!Index
             /\ \E k \in R!Kinds : R!NextTarget(k, idx[answer'[e]])
  <2>1. CASE e = d
    BY <1>1, <1>5, <1>6, <2>1
  <2>2. CASE e # d
    BY <1>4, <1>6, <2>2 DEF IInv, Answered
  <2> QED
    BY <2>1, <2>2
<1>7. Answered'
  BY <1>2, <1>6 DEF Answered, senderVars, receiverVars, R!NextTarget
<1> QED
  BY <1>3, <1>7 DEF IInv

(* There is one target at a time. *)
LEMMA OneTarget ==
  ASSUME NEW i \in R!Index, NEW j \in R!Index, NEW k \in R!Kinds, NEW l \in R!Kinds,
         R!NextTarget(k, i), R!NextTarget(l, j), MaxIndex \in Nat
  PROVE  i = j
<1>1. k = l
  BY DEF R!NextTarget, R!Kinds
<1>2. i <= j /\ j <= i
  BY <1>1 DEF R!NextTarget
<1> QED
  BY <1>2 DEF R!Index

(* The poller goes on with what the drops have answered. *)
LEMMA PollInv ==
  ASSUME IInv, Poll
  PROVE  IInv' /\ \E new : Shows(new) /\ new \subseteq Msgs
<1>0. answer' = NoAnswer /\ since' = since \cup shown' /\ UNCHANGED senderVars
  BY DEF Poll
<1> DEFINE Found(i) == {i} \X {m \in Msgs : \E d \in Drops : answer[d] = m}
<1>1. PICK kind \in R!Kinds, i \in R!Index :
        \/ R!PollHit(kind, i, Found(i))
        \/ R!PollMiss(kind, i)
        \/ R!PollNothing(kind, i)
  BY DEF Poll
<1>2. CASE R!PollMiss(kind, i) \/ R!PollNothing(kind, i)
  <2>1. UNCHANGED <<seen, everShown, since>> /\ shown' = {}
    BY <1>0, <1>2 DEF R!PollMiss, R!PollNothing
  <2> QED
    BY <1>0, <2>1, ForgetInv
<1>3. CASE R!PollHit(kind, i, Found(i))
  <2> DEFINE F == Found(i)
             new == Messages(F \ seen)
  <2>1. /\ R!NextTarget(kind, i)
        /\ seen' = seen \cup F /\ shown' = F \ seen /\ everShown' = everShown \cup F
    BY <1>3 DEF R!PollHit
  <2>2. F \subseteq R!Index \X Msgs
    OBVIOUS
  <2>3. ASSUME NEW b \in F PROVE b[1] = i /\ status[b[2]] # "unsent" /\ idx[b[2]] = i
    <3>1. PICK d \in Drops : b = <<i, answer[d]>> /\ answer[d] \in Msgs
      BY <2>3
    <3>2. /\ status[answer[d]] # "unsent" /\ idx[answer[d]] \in R!Index
          /\ \E k \in R!Kinds : R!NextTarget(k, idx[answer[d]])
      BY <3>1 DEF IInv, Answered
    <3>3. idx[answer[d]] = i
      BY <2>1, <3>2, OneTarget, DeliveryAssumption
    <3> QED
      BY <3>1, <3>2, <3>3
  <2> HIDE DEF F
  <2>4. Tables' /\ SentFirst'
    BY <1>0 DEF IInv, Tables, SentFirst, senderVars, NoAnswer
  <2>5. Answered'
    BY <1>0, DeliveryAssumption DEF NoAnswer, Answered
  <2>6. Remembered'
    BY <1>0, <2>1, <2>2, <2>3 DEF IInv, Remembered, senderVars
  <2>7. new \subseteq Sent
    BY <2>2, <2>3 DEF Messages, Sent
  <2>8. ASSUME NEW b \in F \ seen, NEW c \in since, b[2] = c[2] PROVE FALSE
    <3>1. c \in seen /\ c \in R!Index \X Msgs /\ idx[c[2]] = c[1]
      BY <2>8 DEF IInv, Remembered
    <3>2. b \in R!Index \X Msgs /\ b[1] = c[1]
      BY <2>2, <2>3, <2>8, <3>1
    <3>3. b = c
      BY <2>8, <3>1, <3>2
    <3> QED
      BY <2>8, <3>1, <3>3
  <2>9. new \cap Messages(since) = {}
    BY <2>8 DEF Messages
  <2>10. Messages(since') = Messages(since) \cup new
    BY <1>0, <2>1 DEF Messages
  <2>11. Shows(new)
    BY <1>0, <2>1, <2>7, <2>9, <2>10 DEF Shows, Sent, senderVars
  <2>12. IInv' /\ new \subseteq Msgs
    BY <2>4, <2>5, <2>6, <2>7 DEF IInv, Sent
  <2> HIDE DEF new
  <2> QED
    BY <2>11, <2>12
<1> QED
  BY <1>1, <1>2, <1>3

-----------------------------------------------------------------------------
(* OfflineChannel's view of a step. *)
ChannelVars == <<Sent, Messages(shown), Messages(since)>>
Maps ==
  \/ UNCHANGED ChannelVars
  \/ /\ \E m \in Msgs : m \notin Sent /\ Sent' = Sent \cup {m}
     /\ UNCHANGED <<Messages(shown), Messages(since)>>
  \/ \E new : Shows(new) /\ new \subseteq Msgs
  \/ Restarted

(* Every step keeps the invariant and is one of OfflineChannel's, or none. *)
LEMMA StepInv ==
  ASSUME IInv, [Next]_vars
  PROVE  IInv' /\ Maps
<1>1. CASE Sender
  <2>1. UNCHANGED <<Messages(shown), Messages(since)>>
    BY <1>1, SenderInv DEF SenderRest, receiverVars, Messages
  <2> QED
    BY <1>1, <2>1, SenderInv DEF Maps, ChannelVars
<1>2. ASSUME NEW n \in 0..MaxPause, StartSweep(n) PROVE IInv' /\ Maps
  <2>1. /\ ~sweeping /\ shown' = {}
        /\ UNCHANGED <<senderVars, answer, since, seen, everShown>>
    BY <1>2 DEF StartSweep, R!StartSweep, R!histVars
  <2>2. \A d \in Drops : answer[d] \notin Msgs
    BY <2>1 DEF IInv, Answered, R!NextTarget
  <2>3. Tables' /\ SentFirst' /\ Answered' /\ Remembered'
    BY <2>1, <2>2 DEF IInv, Tables, SentFirst, Answered, Remembered, senderVars
  <2>4. Shows({})
    BY <2>1 DEF Shows, Sent, Messages, senderVars
  <2> QED
    BY <2>3, <2>4 DEF IInv, Maps
<1>3. ASSUME NEW d \in Drops, AnswerGet(d) PROVE IInv' /\ Maps
  <2>1. UNCHANGED ChannelVars
    BY <1>3 DEF AnswerGet, ChannelVars, Sent, Messages, senderVars, receiverVars
  <2> QED
    BY <1>3, <2>1, AnswerInv DEF Maps
<1>4. CASE Poll
  BY <1>4, PollInv DEF Maps
<1>5. CASE GoOffline \/ GoOnline \/ SaveState \/ \E next \in 0..sendIndex : SyncReceiver(next)
  <2>1. /\ UNCHANGED <<senderVars, answer, since, sweeping, todo, seen, everShown>>
        /\ shown' = {}
    BY <1>5 DEF GoOffline, GoOnline, SaveState, SyncReceiver, R!GoOffline, R!GoOnline,
       R!SaveState, R!IndexSync, R!sweepVars, R!histVars
  <2> QED
    BY <2>1, QuietInv DEF Maps
<1>6. CASE Restart
  <2>1. /\ seen' = {} /\ since' = {} /\ UNCHANGED <<senderVars, everShown>>
        /\ shown' = {} /\ answer' = NoAnswer
    BY <1>6 DEF Restart, R!Restart, R!histVars
  <2> QED
    BY <2>1, ForgetInv DEF Maps
<1>7. CASE SyncSender
  <2>1. SenderRest /\ UNCHANGED <<status, idx, flying, store>>
    BY <1>7 DEF SyncSender, S!BaseSync, SenderRest
  <2>2. SendsNothing
    BY <2>1 DEF SendsNothing, IInv, Tables
  <2>3. IInv' /\ Sent' = Sent
    BY <2>1, <2>2, SenderRestInv
  <2>4. UNCHANGED ChannelVars
    BY <2>1, <2>3 DEF ChannelVars, SenderRest, receiverVars, Messages
  <2> QED
    BY <2>3, <2>4 DEF Maps
<1>8. CASE UNCHANGED vars
  <2>1. SenderRest /\ UNCHANGED <<status, idx, flying, store>>
    BY <1>8 DEF vars, senderVars, SenderRest
  <2>2. SendsNothing
    BY <2>1 DEF SendsNothing, IInv, Tables
  <2>3. IInv' /\ Sent' = Sent
    BY <2>1, <2>2, SenderRestInv
  <2>4. UNCHANGED ChannelVars
    BY <2>1, <2>3 DEF ChannelVars, SenderRest, receiverVars, Messages
  <2> QED
    BY <2>3, <2>4 DEF Maps
<1> QED
  BY <1>1, <1>2, <1>3, <1>4, <1>5, <1>6, <1>7, <1>8 DEF Next, Receiver

(* The inductive invariant: what is on its way, at a drop, in an answer or    *)
(* was shown has been sent, an answer belongs to the index that is polled,    *)
(* and what was shown since the start is remembered.                          *)
THEOREM Invariance == Spec => []IInv
<1>1. IInv /\ [Next]_vars => IInv'
  BY StepInv
<1> QED
  BY <1>1, InitInv, PTL DEF Spec

(* The initial state is one of OfflineChannel. *)
LEMMA InitMaps == Init => Channel!Init
BY DEF Init, S!SenderInit, R!Init, Channel!Init

(* A step is one of OfflineChannel. *)
LEMMA StepMaps ==
  ASSUME IInv, [Next]_vars
  PROVE  Channel!Next \/ UNCHANGED ChannelVars
<1>1. Maps
  BY StepInv
<1>2. ASSUME NEW m \in Msgs, m \notin Sent, Sent' = Sent \cup {m},
             UNCHANGED <<Messages(shown), Messages(since)>>
      PROVE  Channel!Send(m)
  BY <1>2 DEF Channel!Send, Sent, Messages
<1>3. ASSUME NEW new, Shows(new) PROVE Channel!Show(new)
  BY <1>3 DEF Channel!Show, Shows, Sent, Messages
<1>4. ASSUME Restarted PROVE Channel!Restart
  BY <1>4 DEF Channel!Restart, Restarted, Sent, Messages
<1> QED
  BY <1>1, <1>2, <1>3, <1>4 DEF Maps, Channel!Next

(* Sender, drops and receiver together do nothing that OfflineChannel does    *)
(* not: what is shown was sent, and nothing is shown twice by a program that  *)
(* goes on running, whichever drops answer what, late or again, and whenever   *)
(* the programs restart                                                       *)
(* (send_offline_message, poll_deaddrops, get_with_stats).                    *)
THEOREM Refinement == Spec => ImplementsChannel
<1>1. IInv /\ [Next]_vars => [Channel!Next]_<<{m \in Msgs : status[m] # "unsent"},
                                             {b[2] : b \in shown}, {b[2] : b \in since}>>
  BY StepMaps DEF ChannelVars, Sent, Messages
<1> QED
  BY <1>1, Invariance, InitMaps, PTL DEF Spec, ImplementsChannel, Channel!Spec
=============================================================================
