---------------------- MODULE OfflineDeliveryInvariants ----------------------
(***************************************************************************)
(* What OfflineDelivery keeps of its two halves: the receiver goes on as    *)
(* OfflineReceiver says when real drops answer its GETs, and the sender as  *)
(* OfflineSender says when the base it is told is the receiver's.  From     *)
(* this follow the type invariant, and that what the receiver knows of the  *)
(* sender, and gives up, is never ahead of it.                             *)
(***************************************************************************)
EXTENDS OfflineDeliveryProofs

(* The receiver with an environment that may answer a GET in every way.     *)
RP == INSTANCE OfflineReceiverProofs
        WITH Copies <- Msgs, Answers <- {"hit", "miss", "indeterminate", "rejected"}

(* The sender with an environment that may report any base a correct        *)
(* receiver can have.                                                      *)
SP == INSTANCE OfflineSenderProofs

(* Their assumptions on the constants. *)
LEMMA Assumptions == RP!ReceiverAssumption /\ SP!SenderAssumption
BY DeliveryAssumption DEF RP!ReceiverAssumption, SP!SenderAssumption

-----------------------------------------------------------------------------
(***************************************************************************)
(* The receiver of OfflineDelivery is the one the proofs are about: its     *)
(* operators and actions are the same, whatever the servers may answer.     *)
(***************************************************************************)
LEMMA SameBounds == \A a, b : R!Least(a, b) = RP!Least(a, b) /\ R!Greatest(a, b) = RP!Greatest(a, b)
BY DEF R!Least, RP!Least, R!Greatest, RP!Greatest

LEMMA SameMin == \A T : R!Min(T) = RP!Min(T)
BY DEF R!Min, RP!Min

LEMMA SameSets == R!NoTargets = RP!NoTargets /\ R!Kinds = RP!Kinds /\ R!Index = RP!Index
BY DEF R!NoTargets, RP!NoTargets, R!Kinds, RP!Kinds, R!Index, RP!Index

LEMMA SameWithSkipped == \A r, T : R!WithSkipped(r, T) = RP!WithSkipped(r, T)
BY DEF R!WithSkipped, RP!WithSkipped, R!Index, RP!Index

LEMMA SameAdvanced == \A r : R!Advanced(r) = RP!Advanced(r)
BY SameMin, SameWithSkipped DEF R!Advanced, RP!Advanced

LEMMA SameRecorded == \A r, i : R!Recorded(r, i) = RP!Recorded(r, i)
BY SameBounds, SameWithSkipped, SameAdvanced DEF R!Recorded, RP!Recorded

LEMMA SameLowestFew == \A T : R!LowestFew(T) = RP!LowestFew(T)
BY DEF R!LowestFew, RP!LowestFew, R!Cardinality, RP!Cardinality

LEMMA SameGaps == \A r, m : R!Counted(r, m) = RP!Counted(r, m) /\ R!Gaps(r, m) = RP!Gaps(r, m)
BY SameBounds DEF R!Counted, RP!Counted, R!Index, RP!Index, R!Gaps, RP!Gaps

LEMMA SameFinalized == \A r, m : R!Finalized(r, m) = RP!Finalized(r, m)
BY SameWithSkipped, SameAdvanced, SameLowestFew, SameGaps, ZenonT(40)
   DEF R!Finalized, RP!Finalized, R!Index, RP!Index

LEMMA SameSaved == \A r, p : R!Saved(r, p) = RP!Saved(r, p)
BY DEF R!Saved, RP!Saved

LEMMA SameLoaded == \A d : R!Loaded(d) = RP!Loaded(d)
BY SameBounds, SameWithSkipped, SameLowestFew DEF R!Loaded, RP!Loaded, R!Index, RP!Index

LEMMA SameAged == \A r, n : R!Aged(r, n) = RP!Aged(r, n)
BY SameBounds DEF R!Aged, RP!Aged, R!Index, RP!Index

LEMMA SameTargets ==
  \A r, i : R!RecvWindow(r) = RP!RecvWindow(r) /\ R!RecoveryTarget(r, i) = RP!RecoveryTarget(r, i)
BY SameMin DEF R!RecvWindow, RP!RecvWindow, R!RecoveryTarget, RP!RecoveryTarget

LEMMA SameNextTarget == ASSUME NEW k, NEW i, R!NextTarget(k, i) PROVE RP!NextTarget(k, i)
BY DEF R!NextTarget, RP!NextTarget

LEMMA SameAfterGet ==
  ASSUME NEW k, NEW i, NEW r, NEW f, NEW m, R!AfterGet(k, i, r, f, m)
  PROVE  RP!AfterGet(k, i, r, f, m)
BY SameBounds, SameSets, SameGaps, SameFinalized, SameSaved DEF R!AfterGet, RP!AfterGet

LEMMA SameStartSweep == ASSUME NEW n, R!StartSweep(n) PROVE RP!StartSweep(n)
BY SameBounds, SameSets, SameSaved, SameAged, SameTargets
   DEF R!StartSweep, RP!StartSweep, R!histVars, RP!histVars

(* The polls. *)
LEMMA SamePollHit ==
  ASSUME NEW k, NEW i, NEW f, R!PollHit(k, i, f)
  PROVE  RP!PollHit(k, i, f)
BY SameRecorded, SameNextTarget, SameAfterGet DEF R!PollHit, RP!PollHit

LEMMA SamePollMiss ==
  ASSUME NEW k, NEW i, R!PollMiss(k, i)
  PROVE  RP!PollMiss(k, i)
BY SameNextTarget, SameAfterGet DEF R!PollMiss, RP!PollMiss

LEMMA SamePollNothing ==
  ASSUME NEW k, NEW i, R!PollNothing(k, i)
  PROVE  RP!PollNothing(k, i)
BY SameNextTarget, SameAfterGet DEF R!PollNothing, RP!PollNothing

(* The user, the live session and the program itself. *)
LEMMA SameRest ==
  /\ R!GoOffline => RP!GoOffline
  /\ R!GoOnline => RP!GoOnline
  /\ R!SaveState => RP!SaveState
  /\ R!Restart => RP!Restart
  /\ \A next : R!IndexSync(next) => RP!IndexSync(next)
<1> USE SameBounds, SameSets, SameSaved, SameLoaded
    DEF R!sweepVars, RP!sweepVars, R!histVars, RP!histVars
<1>1. R!GoOffline => RP!GoOffline
  BY DEF R!GoOffline, RP!GoOffline
<1>2. R!GoOnline => RP!GoOnline
  BY DEF R!GoOnline, RP!GoOnline
<1>3. R!SaveState => RP!SaveState
  BY DEF R!SaveState, RP!SaveState
<1>4. R!Restart => RP!Restart
  BY DEF R!Restart, RP!Restart
<1>5. ASSUME NEW next, R!IndexSync(next) PROVE RP!IndexSync(next)
  BY <1>5 DEF R!IndexSync, RP!IndexSync
<1> QED
  BY <1>1, <1>2, <1>3, <1>4, <1>5

LEMMA SameInit == R!Init => RP!Init
BY SameSets, SameSaved DEF R!Init, RP!Init, R!FreshRx, RP!FreshRx, R!Index, RP!Index

(* The poller goes on with what the drops have answered. *)
LEMMA PollIsPoll == Poll => RP!Poll
<1> SUFFICES ASSUME Poll PROVE RP!Poll
  OBVIOUS
<1> DEFINE Found(i) == {i} \X {m \in Msgs : \E d \in Drops : answer[d] = m}
<1>1. PICK kind \in RP!Kinds, i \in RP!Index :
        R!PollHit(kind, i, Found(i)) \/ R!PollMiss(kind, i) \/ R!PollNothing(kind, i)
  BY SameSets DEF Poll
<1>2. ASSUME R!PollHit(kind, i, Found(i)) PROVE RP!Poll
  <2>1. Found(i) \in SUBSET ({i} \X Msgs)
    OBVIOUS
  <2> HIDE DEF Found
  <2>2. RP!PollHit(kind, i, Found(i))
    BY <1>2, SamePollHit
  <2> QED
    BY <2>1, <2>2 DEF RP!Poll
<1>3. ASSUME R!PollMiss(kind, i) PROVE RP!Poll
  <2>1. RP!PollMiss(kind, i)
    BY <1>3, SamePollMiss
  <2> QED
    BY <2>1 DEF RP!Poll
<1>4. ASSUME R!PollNothing(kind, i) PROVE RP!Poll
  <2>1. RP!PollNothing(kind, i)
    BY <1>4, SamePollNothing
  <2> QED
    BY <2>1 DEF RP!Poll
<1> QED
  BY <1>1, <1>2, <1>3, <1>4

(* A step of the composition is one of the receiver, or none. *)
LEMMA ReceiverStep == [Next]_vars => [RP!Next]_receiverVars
<1> SUFFICES ASSUME [Next]_vars PROVE RP!Next \/ UNCHANGED receiverVars
  OBVIOUS
<1>1. CASE Sender \/ SyncSender \/ UNCHANGED vars
  BY <1>1 DEF Sender, SyncSender, vars
<1>2. ASSUME NEW n \in 0..MaxPause, StartSweep(n) PROVE RP!Next
  <2>1. RP!StartSweep(n)
    BY <1>2, SameStartSweep DEF StartSweep
  <2> QED
    BY <2>1 DEF RP!Next
<1>3. ASSUME NEW d \in Drops, AnswerGet(d) PROVE UNCHANGED receiverVars
  BY <1>3 DEF AnswerGet
<1>4. CASE Poll
  BY <1>4, PollIsPoll DEF RP!Next
<1>5. CASE GoOffline \/ GoOnline \/ SaveState \/ Restart
  BY <1>5, SameRest DEF GoOffline, GoOnline, SaveState, Restart, RP!Next
<1>6. ASSUME NEW next \in 0..sendIndex, SyncReceiver(next) PROVE RP!Next
  <2>1. next \in RP!Index /\ RP!IndexSync(next)
    BY <1>6, SameRest DEF SyncReceiver, RP!Index
  <2> QED
    BY <2>1 DEF RP!Next
<1> QED
  BY <1>1, <1>2, <1>3, <1>4, <1>5, <1>6 DEF Next, Receiver

(* With real drops that answer late, lose blobs or fail, and with the index   *)
(* syncs of a real sender, the receiver does nothing that OfflineReceiver     *)
(* does not do: what is proved of that module holds here                      *)
(* (poll_deaddrops, handle_incoming_frame).                                   *)
THEOREM ReceiverRefinement == Spec => RP!Spec
<1>1. Init => RP!Init
  BY SameInit DEF Init
<1>2. [Next]_vars => [RP!Next]_receiverVars
  BY ReceiverStep
<1> QED
  BY <1>1, <1>2, PTL DEF Spec, RP!Spec, receiverVars, RP!vars

(* What is proved of the receiver, in one piece. *)
LEMMA ReceiverInvariants == Spec => [](RP!IInv /\ RP!PassedIsSettled /\ RP!SkippedIsPast)
<1>1. RP!Spec => []RP!IInv /\ []RP!PassedIsSettled /\ []RP!SkippedIsPast
  BY Assumptions, RP!Invariance, RP!NothingPassedUnsettled, RP!NoIndexGivenUpAhead
<1> QED
  BY <1>1, ReceiverRefinement, PTL

-----------------------------------------------------------------------------
(***************************************************************************)
(* The sender of OfflineDelivery                                           *)
(***************************************************************************)
LEMMA SameSender ==
  /\ S!SenderInit => SP!SenderInit
  /\ S!Local => SP!Local
  /\ \A base : S!BaseSync(base) => SP!BaseSync(base)
<1>1. S!SenderInit => SP!SenderInit
  BY DEF S!SenderInit, SP!SenderInit
<1>2. \A base : S!BaseSync(base) => SP!BaseSync(base)
  BY DEF S!BaseSync, SP!BaseSync
<1>3. S!Local => SP!Local
  <2>1. \A m : S!Send(m) => SP!Send(m)
    BY DEF S!Send, SP!Send, S!Putting, SP!Putting
  <2>2. \A m : S!Finish(m) => SP!Finish(m)
    BY DEF S!Finish, SP!Finish
  <2>3. \A m, d : S!ServePut(m, d) => SP!ServePut(m, d)
    BY DEF S!ServePut, SP!ServePut, S!Occupied, SP!Occupied
  <2>4. \A m, d, lost : S!PutFails(m, d, lost) => SP!PutFails(m, d, lost)
    BY DEF S!PutFails, SP!PutFails
  <2>5. \A m, d : S!Expire(m, d) => SP!Expire(m, d)
    BY DEF S!Expire, SP!Expire
  <2>6. S!SenderRestart => SP!SenderRestart
    BY DEF S!SenderRestart, SP!SenderRestart
  <2> QED
    BY <2>1, <2>2, <2>3, <2>4, <2>5, <2>6 DEF S!Local, SP!Local
<1> QED
  BY <1>1, <1>2, <1>3

(* A step of the composition, as the sender and its drops see it. *)
LEMMA SenderStep ==
  ASSUME [Next]_vars
  PROVE  SP!Local \/ SP!BaseSync(rx.base) \/ UNCHANGED senderVars
BY SameSender DEF Next, vars, Sender, SyncSender, Receiver, StartSweep, AnswerGet, Poll,
   GoOffline, GoOnline, SaveState, Restart, SyncReceiver

(* The sender's invariant needs no more of a base than that it is an index. *)
LEMMA SenderInvariant == Spec => []SP!IInv
<1>1. Init => SP!IInv
  BY Assumptions, SameSender, SP!InitInv DEF Init
<1>2. RP!IInv /\ SP!IInv /\ [Next]_vars => SP!IInv'
  <2> SUFFICES ASSUME RP!IInv, SP!IInv, [Next]_vars PROVE SP!IInv'
    OBVIOUS
  <2>1. rx.base \in Nat
    BY Assumptions DEF RP!IInv, RP!TypeOK, RP!RxState, RP!Index
  <2>2. CASE UNCHANGED senderVars
    <3>1. [SP!SenderNext]_SP!senderVars
      BY <2>2 DEF senderVars, SP!senderVars
    <3> QED
      BY <3>1, SP!StepInv, Assumptions
  <2> QED
    BY <2>1, <2>2, SenderStep, SP!LocalInv, SP!SyncInv, Assumptions
<1> QED
  BY <1>1, <1>2, ReceiverInvariants, PTL DEF Spec

(* Both programs, the drops and the answers under way keep their types, for   *)
(* any messages, drops, faults and parameters.                                *)
THEOREM TypeCorrectness == Spec => []TypeOK
<1> DEFINE Answers == answer \in [Drops -> {"none", "MISS", "FAIL"} \cup Msgs]
<1>1. Init => Answers
  BY DEF Init, NoAnswer
<1>2. Answers /\ [Next]_vars => Answers'
  BY DEF Next, vars, Sender, SyncSender, Receiver, StartSweep, AnswerGet, Poll,
     GoOffline, GoOnline, SaveState, Restart, SyncReceiver, NoAnswer
<1>3. SP!IInv => S!SenderTypeOK
  BY DEF SP!IInv, SP!SenderTypeOK, S!SenderTypeOK, S!Statuses, SP!Statuses, S!Replies, SP!Replies
<1>4. RP!IInv => R!TypeOK
  <2>1. R!RxState = RP!RxState /\ R!Blob = RP!Blob
    BY DEF R!RxState, RP!RxState, R!Index, RP!Index, R!Blob, RP!Blob
  <2> QED
    BY <2>1, SameSets DEF RP!IInv, RP!TypeOK, R!TypeOK
<1>5. IInv => since \subseteq everShown
  BY DEF IInv, Remembered
<1>6. SP!IInv /\ RP!IInv /\ IInv /\ Answers => TypeOK
  BY <1>3, <1>4, <1>5 DEF TypeOK
<1> QED
  BY <1>1, <1>2, <1>6, SenderInvariant, ReceiverInvariants, Invariance, PTL DEF Spec

-----------------------------------------------------------------------------
(***************************************************************************)
(* The receiver is never ahead of the sender, as long as the saved index is *)
(* one that the sender's program reads back.                                *)
(***************************************************************************)

(* An index the sender is at, or follows that of a message at some drop.      *)
Honest(k) == k <= sendIndex \/ \E m \in everStored : k = idx[m] + 1

(* What a drop answers with, and what was shown, was stored.                  *)
ReadWasStored ==
  /\ \A d \in Drops : answer[d] \in Msgs => answer[d] \in everStored
  /\ \A b \in everShown : b[2] \in everStored

HInv ==
  /\ SP!Past
  /\ ReadWasStored
  /\ Honest(rx.known) /\ Honest(disk.rx.known)

(* What the proof may take for granted in each state.                         *)
Known ==
  /\ IInv /\ RP!IInv /\ RP!PassedIsSettled /\ RP!SkippedIsPast
  /\ SP!IInv /\ SP!InRange

LEMMA IndexTypes ==
  ASSUME Known
  PROVE  /\ MaxIndex \in Nat /\ sendIndex \in Nat /\ diskSend \in Nat
         /\ everStored \subseteq Msgs
         /\ \A m \in Msgs : idx[m] \in Nat
         /\ rx \in RP!RxState /\ rx.known \in 0..MaxIndex /\ rx.base \in 0..MaxIndex
         /\ disk.rx \in RP!RxState /\ disk.rx.known \in 0..MaxIndex
         /\ disk.rx.base \in 0..MaxIndex
<1>1. /\ MaxIndex \in Nat /\ sendIndex \in Nat /\ diskSend \in Nat
      /\ everStored \subseteq Msgs
      /\ \A m \in Msgs : idx[m] \in Nat
  BY DeliveryAssumption DEF Known, SP!IInv, SP!SenderTypeOK
<1>2. rx \in RP!RxState /\ disk.rx \in RP!RxState
  BY DEF Known, RP!IInv, RP!TypeOK
<1> QED
  BY <1>1, <1>2 DEF RP!RxState, RP!Index

(* The send index does not move back, and what was stored keeps its index.    *)
LEMMA SenderMovesOn ==
  ASSUME Known, HInv, [Next]_vars
  PROVE  /\ SP!Past' /\ sendIndex <= sendIndex'
         /\ everStored \subseteq everStored'
         /\ \A m \in everStored : idx'[m] = idx[m]
<1> USE IndexTypes
<1>1. SP!SenderTypeOK
  BY DEF Known, SP!IInv
<1>2. SP!Past' /\ sendIndex <= sendIndex'
  <2>1. CASE UNCHANGED senderVars
    BY <2>1 DEF senderVars, HInv, SP!Past, SP!DeliveredIsPast
  <2>2. CASE SP!Local
    BY <1>1, <2>2, Assumptions, SP!LocalPast DEF Known, HInv
  <2>3. CASE SP!BaseSync(rx.base)
    BY <1>1, <2>3, Assumptions, SP!SyncPast DEF HInv
  <2> QED
    BY <2>1, <2>2, <2>3, SenderStep
<1>3. everStored \subseteq everStored' /\ \A m \in everStored : idx'[m] = idx[m]
  <2>1. CASE UNCHANGED senderVars \/ SP!BaseSync(rx.base) \/ SP!SenderRestart
    BY <2>1 DEF senderVars, SP!BaseSync, SP!SenderRestart
  <2>2. ASSUME NEW m \in Msgs, SP!Send(m)
        PROVE  UNCHANGED everStored /\ \A k \in everStored : idx'[k] = idx[k]
    <3>1. m \notin everStored
      BY <2>2 DEF SP!Send, Known, SP!IInv, SP!SentOnes
    <3> QED
      BY <1>1, <2>2, <3>1 DEF SP!Send, SP!SenderTypeOK
  <2>3. ASSUME NEW m \in Msgs, SP!Finish(m) PROVE UNCHANGED <<idx, everStored>>
    BY <2>3 DEF SP!Finish
  <2>4. ASSUME NEW m \in Msgs, NEW d \in Drops,
               \/ SP!ServePut(m, d) \/ SP!Expire(m, d)
               \/ \E lost \in BOOLEAN : SP!PutFails(m, d, lost)
        PROVE  UNCHANGED idx /\ everStored \subseteq everStored'
    BY <2>4 DEF SP!ServePut, SP!Expire, SP!PutFails
  <2> QED
    BY <2>1, <2>2, <2>3, <2>4, SenderStep DEF SP!Local
<1> QED
  BY <1>2, <1>3

(* So an index that was honest stays so. *)
LEMMA HonestStays ==
  ASSUME Known, Known', HInv, [Next]_vars, NEW k \in 0..MaxIndex, Honest(k)
  PROVE  k <= sendIndex' \/ \E m \in everStored' : k = idx'[m] + 1
<1>1. sendIndex \in Nat /\ sendIndex' \in Nat
  BY DEF Known, SP!IInv, SP!SenderTypeOK
<1> QED
  BY <1>1, IndexTypes, SenderMovesOn DEF Honest

(* A saved state that records a blob that was stored, or none, knows of no    *)
(* more than the sender has used.                                             *)
LEMMA RecordedHonest ==
  ASSUME Known, HInv, NEW i \in 0..MaxIndex, NEW m \in everStored, idx[m] = i
  PROVE  Honest(RP!Recorded(rx, i).known)
<1>1. RP!Recorded(rx, i).known = RP!Greatest(rx.known, RP!Least(MaxIndex, i + 1))
  <2>1. RP!Good(rx, RP!EverRead, everSkipped) /\ i \in RP!Index
    BY DEF Known, RP!IInv, RP!Index
  <2> QED
    BY <2>1, Assumptions, RP!RecordedIsGood
<1>2. i <= sendIndex
  BY IndexTypes DEF HInv, SP!Past
<1>3. Honest(RP!Least(MaxIndex, i + 1))
  BY <1>2, IndexTypes DEF Honest, RP!Least
<1> QED
  BY <1>1, <1>3 DEF RP!Greatest, HInv

(* What the base has passed was read or given up, so it is honest too. *)
LEMMA BaseHonest ==
  ASSUME Known, HInv
  PROVE  \A i \in everSkipped \cup {j \in 0..MaxIndex : j < rx.base \/ j < disk.rx.base} :
           i < sendIndex \/ \E m \in everStored : idx[m] = i
<1> SUFFICES ASSUME NEW i \in everSkipped \cup {j \in 0..MaxIndex : j < rx.base \/ j < disk.rx.base},
                    ~(i < sendIndex)
             PROVE  \E m \in everStored : idx[m] = i
  OBVIOUS
<1>1. i \in 0..MaxIndex
  BY DEF Known, RP!IInv, RP!TypeOK, RP!Index
<1>2. i \in RP!EverRead \cup everSkipped
  BY <1>1 DEF Known, RP!PassedIsSettled, RP!Index
<1>3. CASE i \in RP!EverRead
  <2>1. PICK b \in everShown : b[1] = i
    BY <1>3 DEF RP!EverRead
  <2> QED
    BY <2>1 DEF HInv, ReadWasStored, Known, IInv, Remembered
<1>4. CASE i \in everSkipped
  <2>1. i < disk.rx.known
    BY <1>4 DEF Known, RP!SkippedIsPast
  <2>2. PICK m \in everStored : disk.rx.known = idx[m] + 1
    BY <1>1, <2>1, IndexTypes DEF HInv, Honest
  <2>3. idx[m] <= sendIndex
    BY IndexTypes DEF HInv, SP!Past
  <2> QED
    BY <1>1, <2>1, <2>2, <2>3, IndexTypes
<1> QED
  BY <1>2, <1>3, <1>4

LEMMA LoadedHonest ==
  ASSUME Known, HInv
  PROVE  Honest(RP!Loaded(disk).known)
<1>1. RP!Loaded(disk).known = RP!Greatest(disk.rx.known, disk.rx.base)
  BY IndexTypes DEF RP!Loaded, RP!WithSkipped, RP!RxState
<1>2. Honest(disk.rx.base)
  <2>1. CASE disk.rx.base = 0
    BY <2>1, IndexTypes DEF Honest
  <2>2. CASE disk.rx.base # 0
    <3> DEFINE i == disk.rx.base - 1
    <3>1. i \in {j \in 0..MaxIndex : j < rx.base \/ j < disk.rx.base}
      BY <2>2, IndexTypes
    <3>2. i < sendIndex \/ \E m \in everStored : idx[m] = i
      BY <3>1, BaseHonest
    <3> QED
      BY <3>2, IndexTypes DEF Honest
  <2> QED
    BY <2>1, <2>2
<1> QED
  BY <1>1, <1>2 DEF RP!Greatest, HInv

(* The end of a poll changes what is known as the answer did. *)
LEMMA AfterGetKnown ==
  ASSUME Known, NEW kind, NEW i, NEW r, NEW found, NEW missed \in SUBSET RP!Index,
         NEW read, RP!Good(r, read, everSkipped), RP!AfterGet(kind, i, r, found, missed)
  PROVE  rx'.known = r.known /\ disk'.rx.known \in {disk.rx.known, r.known}
<1> DEFINE left == [todo EXCEPT ![kind] = @ \ {i}]
           lost == missed \ (IF found THEN auths \cup {i} ELSE auths)
<1>1. RP!Finalized(r, lost).known = r.known
  BY Assumptions, RP!FinalizedIsGood
<1>2. CASE left = RP!NoTargets
  BY <1>1, <1>2 DEF RP!AfterGet, RP!Saved
<1>3. CASE left # RP!NoTargets
  BY <1>3 DEF RP!AfterGet
<1> QED
  BY <1>2, <1>3

(* The messages in the answers to a poll were stored under the polled index.  *)
LEMMA AnswersStored ==
  ASSUME Known, HInv, NEW kind \in R!Kinds, NEW i \in R!Index, R!NextTarget(kind, i)
  PROVE  \A m \in Msgs : (\E d \in Drops : answer[d] = m) => m \in everStored /\ idx[m] = i
<1> SUFFICES ASSUME NEW d \in Drops, answer[d] \in Msgs
             PROVE  answer[d] \in everStored /\ idx[answer[d]] = i
  OBVIOUS
<1>1. answer[d] \in everStored
  BY DEF HInv, ReadWasStored
<1>2. PICK k \in R!Kinds : R!NextTarget(k, idx[answer[d]]) /\ idx[answer[d]] \in R!Index
  BY DEF Known, IInv, Answered
<1> QED
  BY <1>1, <1>2, OneTarget, DeliveryAssumption

(* A poll leaves only honest indexes, and shows what was stored. *)
LEMMA PollHonest ==
  ASSUME Known, HInv, Poll
  PROVE  /\ Honest(rx'.known)
         /\ disk'.rx.known \in {disk.rx.known, rx'.known}
         /\ \A b \in everShown' : b[2] \in everStored
<1> DEFINE Found(i) == {i} \X {m \in Msgs : \E d \in Drops : answer[d] = m}
<1>1. PICK kind \in R!Kinds, i \in R!Index :
        R!PollHit(kind, i, Found(i)) \/ R!PollMiss(kind, i) \/ R!PollNothing(kind, i)
  BY DEF Poll
<1>2. /\ RP!Good(rx, RP!EverRead, everSkipped)
      /\ misses \in SUBSET RP!Index /\ i \in RP!Index
  BY SameSets DEF Known, RP!IInv, RP!TypeOK
<1>3. CASE R!PollMiss(kind, i) \/ R!PollNothing(kind, i)
  <2>1. /\ UNCHANGED everShown
        /\ \E missed \in {misses, misses \cup {i}} : RP!AfterGet(kind, i, rx, FALSE, missed)
    BY <1>3, SamePollMiss, SamePollNothing DEF RP!PollMiss, RP!PollNothing
  <2>2. rx'.known = rx.known /\ disk'.rx.known \in {disk.rx.known, rx.known}
    BY <1>2, <2>1, AfterGetKnown
  <2> QED
    BY <2>1, <2>2 DEF HInv, ReadWasStored
<1>4. CASE R!PollHit(kind, i, Found(i))
  <2> DEFINE F == Found(i)
  <2>1. \A b \in F : b[2] \in everStored /\ idx[b[2]] = i
    BY <1>4, AnswersStored DEF R!PollHit
  <2> HIDE DEF F
  <2>2. RP!PollHit(kind, i, F)
    BY <1>4, SamePollHit DEF F
  <2>3. F # {} /\ everShown' = everShown \cup F
    BY <2>2 DEF RP!PollHit
  <2> DEFINE r == RP!Recorded(rx, i)
  <2>4. Honest(r.known)
    <3>1. PICK b \in F : TRUE
      BY <2>3
    <3> QED
      BY <1>2, <2>1, <3>1, RecordedHonest DEF RP!Index
  <2>5. RP!Good(r, RP!EverRead \cup {i}, everSkipped)
    BY <1>2, Assumptions, RP!RecordedIsGood
  <2>6. RP!AfterGet(kind, i, r, TRUE, misses)
    BY <2>2 DEF RP!PollHit
  <2> HIDE DEF r
  <2>7. rx'.known = r.known /\ disk'.rx.known \in {disk.rx.known, r.known}
    BY <1>2, <2>5, <2>6, AfterGetKnown
  <2> QED
    BY <2>1, <2>3, <2>4, <2>7 DEF HInv, ReadWasStored
<1> QED
  BY <1>1, <1>3, <1>4

(* So does every other step. *)
LEMMA KnownHonest ==
  ASSUME Known, HInv, [Next]_vars
  PROVE  Honest(rx'.known) /\ Honest(disk'.rx.known)
<1>0. /\ rx \in RP!RxState /\ disk.rx \in RP!RxState
      /\ disk \in [rx : RP!RxState, forwardProbe : RP!Index]
      /\ Honest(rx.known) /\ Honest(disk.rx.known)
  BY IndexTypes DEF HInv, Known, RP!IInv, RP!TypeOK
<1>1. CASE Sender \/ SyncSender \/ GoOffline \/ GoOnline \/ UNCHANGED vars
  <2>1. UNCHANGED <<rx, disk>>
    BY <1>1 DEF Sender, SyncSender, GoOffline, R!GoOffline, GoOnline, R!GoOnline, vars,
       receiverVars
  <2> QED
    BY <1>0, <2>1
<1>2. ASSUME NEW n \in 0..MaxPause, StartSweep(n) PROVE UNCHANGED rx.known /\ UNCHANGED disk.rx.known
  <2>1. RP!StartSweep(n) /\ n \in Nat
    BY <1>2, SameStartSweep, DeliveryAssumption DEF StartSweep
  <2>2. /\ RP!Aged(rx, n) \in RP!RxState /\ RP!Aged(rx, n).known = rx.known
        /\ RP!Aged(disk.rx, n).known = disk.rx.known
    BY <1>0, <2>1, Assumptions, RP!AgedFields
  <2>3. \E p : rx' = [RP!Aged(rx, n) EXCEPT !.probed = p]
    BY <2>1, <2>2 DEF RP!StartSweep, RP!RxState
  <2>4. disk'.rx = RP!Aged(disk.rx, n)
    BY <1>0, <2>1 DEF RP!StartSweep
  <2> QED
    BY <2>2, <2>3, <2>4 DEF RP!RxState
<1>3. ASSUME NEW d \in Drops, AnswerGet(d) PROVE UNCHANGED <<rx, disk>>
  BY <1>3 DEF AnswerGet, receiverVars
<1>4. CASE SaveState
  BY <1>0, <1>4 DEF SaveState, R!SaveState, R!Saved
<1>5. CASE Restart
  BY <1>0, <1>5, LoadedHonest, SameLoaded DEF Restart, R!Restart
<1>6. ASSUME NEW next \in 0..sendIndex, SyncReceiver(next)
      PROVE  Honest(rx'.known) /\ Honest(disk'.rx.known)
  <2>1. rx' = [rx EXCEPT !.known = R!Greatest(@, next)] /\ disk'.rx = rx'
    BY <1>6 DEF SyncReceiver, R!IndexSync, R!Saved
  <2>2. rx'.known \in {rx.known, next}
    BY <1>0, <2>1 DEF RP!RxState, R!Greatest
  <2>3. Honest(next)
    BY <1>6, IndexTypes DEF Honest
  <2> QED
    BY <1>0, <2>1, <2>2, <2>3
<1> QED
  BY <1>0, <1>1, <1>2, <1>3, <1>4, <1>5, <1>6, PollHonest DEF Next, Receiver

(* What is read was stored, in every step. *)
LEMMA ReadStep ==
  ASSUME Known, HInv, [Next]_vars
  PROVE  ReadWasStored'
<1>1. everStored \subseteq everStored'
  BY SenderMovesOn
<1>2. \A d \in Drops : answer'[d] \in Msgs => answer'[d] \in everStored
  <2>1. ASSUME NEW d \in Drops, AnswerGet(d), NEW e \in Drops, answer'[e] \in Msgs
        PROVE  answer'[e] \in everStored
    <3>1. CASE answer'[e] = answer[e]
      BY <2>1, <3>1 DEF HInv, ReadWasStored
    <3>2. CASE answer'[e] # answer[e]
      <4>1. e = d /\ (answer'[d] \in {"MISS", "FAIL"} \/ <<answer'[d], d>> \in store)
        BY <2>1, <3>2 DEF AnswerGet, Known, IInv, Tables
      <4> QED
        BY <2>1, <4>1, DeliveryAssumption DEF Known, SP!IInv, SP!StoredOnes
    <3> QED
      BY <3>1, <3>2
  <2>2. ASSUME answer' = NoAnswer, NEW d \in Drops PROVE answer'[d] \notin Msgs
    BY <2>2, DeliveryAssumption DEF NoAnswer
  <2> QED
    BY <2>1, <2>2 DEF HInv, ReadWasStored, Next, vars, Sender, SyncSender, Receiver, StartSweep,
       Poll, GoOffline, GoOnline, SaveState, Restart, SyncReceiver
<1>3. \A b \in everShown' : b[2] \in everStored
  <2>1. CASE Poll
    BY <2>1, PollHonest
  <2>2. CASE ~Poll
    <3>1. UNCHANGED everShown
      BY <2>2 DEF Next, vars, receiverVars, Sender, SyncSender, Receiver, StartSweep, AnswerGet,
         GoOffline, GoOnline, SaveState, Restart, SyncReceiver, R!StartSweep, R!GoOffline,
         R!GoOnline, R!SaveState, R!Restart, R!IndexSync, R!histVars
    <3> QED
      BY <3>1 DEF HInv, ReadWasStored
  <2> QED
    BY <2>1, <2>2
<1> QED
  BY <1>1, <1>2, <1>3 DEF ReadWasStored

(* The invariant holds as long as the indexes last. *)
LEMMA HonestInvariance == Spec /\ []SP!InRange => [](HInv /\ Known)
<1>1. Init => HInv
  <2> SUFFICES ASSUME Init PROVE HInv
    OBVIOUS
  <2>1. sendIndex = 0 /\ diskSend = 0 /\ rx.known = 0 /\ disk.rx.known = 0 /\ everShown = {}
    BY DEF Init, S!SenderInit, R!Init, R!FreshRx, R!Saved
  <2>2. SP!Past
    BY <2>1 DEF Init, S!SenderInit, SP!Past, SP!DeliveredIsPast
  <2>3. ReadWasStored
    BY <2>1, DeliveryAssumption DEF Init, NoAnswer, ReadWasStored
  <2> QED
    BY <2>1, <2>2, <2>3 DEF HInv, Honest
<1>2. Known /\ Known' /\ HInv /\ [Next]_vars => HInv'
  <2> SUFFICES ASSUME Known, Known', HInv, [Next]_vars PROVE HInv'
    OBVIOUS
  <2>1. rx'.known \in 0..MaxIndex /\ disk'.rx.known \in 0..MaxIndex
    BY DEF Known, RP!IInv, RP!TypeOK, RP!RxState, RP!Index
  <2>2. Honest(rx.known)' /\ Honest(disk.rx.known)'
    BY <2>1, KnownHonest, HonestStays DEF Honest
  <2> QED
    BY <2>2, SenderMovesOn, ReadStep DEF HInv
<1>3. Spec /\ []SP!InRange => []Known
  <2>1. IInv /\ RP!IInv /\ RP!PassedIsSettled /\ RP!SkippedIsPast /\ SP!IInv /\ SP!InRange => Known
    BY DEF Known
  <2> QED
    BY <2>1, Invariance, ReceiverInvariants, SenderInvariant, PTL
<1> QED
  BY <1>1, <1>2, <1>3, PTL DEF Spec

(* What the receiver holds of the sender is at most one message ahead of it,  *)
(* one that a drop holds: through syncs that arrive late, blobs that are read *)
(* before the sender has learned that they were stored, and restarts of both  *)
(* programs (handle_offline_index_sync, record_authenticated_offline_index).  *)
THEOREM Honesty == Spec /\ []SP!InRange => []KnownIsHonest
<1>1. HInv => KnownIsHonest
  BY DEF HInv, Honest, KnownIsHonest
<1> QED
  BY <1>1, HonestInvariance, PTL

(* No index that the sender may still use for a new message is passed or      *)
(* given up: the gap rule trusts what is known, and that is honest            *)
(* (finalize_offline_poll_sweep, advance_drop_recv_base).                     *)
THEOREM FutureStaysOpen == Spec /\ []SP!InRange => []FutureIsOpen
<1>1. HInv /\ Known => FutureIsOpen
  BY BaseHonest DEF FutureIsOpen, R!Index
<1> QED
  BY <1>1, HonestInvariance, PTL

(* The bases that the sender is told are those OfflineSender allows for, so   *)
(* the sender does nothing that OfflineSender does not do: what is proved of  *)
(* that module holds with a real receiver (handle_offline_index_sync).        *)
THEOREM SenderRefinement == Spec /\ []SP!InRange => SP!SenderSpec
<1>1. Init => SP!SenderInit
  BY SameSender DEF Init
<1>2. HInv /\ Known /\ [Next]_vars => [SP!SenderNext]_SP!senderVars
  <2> SUFFICES ASSUME HInv, Known, [Next]_vars
               PROVE  SP!SenderNext \/ UNCHANGED SP!senderVars
    OBVIOUS
  <2>1. CASE SP!Local \/ UNCHANGED senderVars
    BY <2>1 DEF SP!SenderNext, senderVars, SP!senderVars
  <2>2. CASE SP!BaseSync(rx.base)
    <3>1. CASE rx.base <= sendIndex
      <4>1. SP!BaseSync(sendIndex)
        BY <2>2, <3>1, IndexTypes DEF SP!BaseSync
      <4> QED
        BY <4>1 DEF SP!SenderNext
    <3>2. CASE ~(rx.base <= sendIndex)
      <4> DEFINE i == rx.base - 1
      <4>1. i \in {j \in 0..MaxIndex : j < rx.base \/ j < disk.rx.base} /\ ~(i < sendIndex)
        BY <3>2, IndexTypes
      <4>2. PICK m \in everStored : idx[m] = i
        BY <4>1, BaseHonest
      <4>3. rx.base = idx[m] + 1
        BY <4>2, IndexTypes
      <4> QED
        BY <2>2, <4>3 DEF SP!SenderNext
    <3> QED
      BY <3>1, <3>2
  <2> QED
    BY <2>1, <2>2, SenderStep
<1> QED
  BY <1>1, <1>2, HonestInvariance, PTL DEF Spec, SP!SenderSpec
=============================================================================
