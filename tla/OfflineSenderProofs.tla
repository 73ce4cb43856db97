------------------------- MODULE OfflineSenderProofs -------------------------
(***************************************************************************)
(* Proofs about OfflineSender, for any messages, drops and faults: its type *)
(* invariant, that a delivered message has something stored under its       *)
(* index, and that its index is not used again before the indexes run out.  *)
(***************************************************************************)
EXTENDS OfflineSender, TLAPS

(* Who has a request, a file or an answer was sent; a drop that said OK or    *)
(* EXISTS holds, or held, something under the index.                          *)
SentOnes ==
  /\ \A x \in flying \cup store : status[x[1]] # "unsent"
  /\ \A m \in everStored : status[m] # "unsent"
  /\ \A m \in Msgs, d \in Drops : reply[m][d] # "none" => status[m] # "unsent"

StoredOnes == \A x \in store : x[1] \in everStored

(* Something was stored under the index of m. *)
Covered(m) == \E k \in everStored : idx[k] = idx[m]

AnswersCovered ==
  \A m \in Msgs, d \in Drops : reply[m][d] \in {"OK", "EXISTS"} => Covered(m)

IInv == SenderTypeOK /\ SentOnes /\ StoredOnes /\ AnswersCovered /\ DeliveredIndexWasStored

-----------------------------------------------------------------------------
(* The initial state. *)
LEMMA InitInv == SenderInit => IInv
BY DEF SenderInit, IInv, SenderTypeOK, SentOnes, StoredOnes, AnswersCovered,
   DeliveredIndexWasStored, Statuses, Replies

(* What was stored under an index stays stored there in the history.          *)
LEMMA CoveredStays ==
  ASSUME IInv, NEW m \in Msgs, Covered(m), UNCHANGED idx, everStored \subseteq everStored'
  PROVE  Covered(m)'
BY DEF Covered

(* A new message is sent. *)
LEMMA SendInv ==
  ASSUME IInv, NEW m \in Msgs, Send(m)
  PROVE  IInv'
<1>1. /\ status[m] = "unsent" /\ status' = [status EXCEPT ![m] = "putting"]
      /\ idx' = [idx EXCEPT ![m] = sendIndex]
      /\ flying' = flying \cup {<<m, d>> : d \in Drops}
      /\ UNCHANGED <<sendIndex, diskSend, reply, store, everStored>>
  BY DEF Send
<1>2. SenderTypeOK'
  BY <1>1 DEF IInv, SenderTypeOK, Statuses
<1>3. \A k \in Msgs : k # m => status'[k] = status[k] /\ idx'[k] = idx[k]
  BY <1>1 DEF IInv, SenderTypeOK
<1>4. status'[m] = "putting"
  BY <1>1 DEF IInv, SenderTypeOK
<1>5. SentOnes'
  <2>1. ASSUME NEW x \in flying' \cup store' PROVE status'[x[1]] # "unsent"
    <3>1. x[1] = m \/ (x \in flying \cup store /\ x[1] \in Msgs)
      BY <1>1, <2>1 DEF IInv, SenderTypeOK
    <3> QED
      BY <1>3, <1>4, <3>1 DEF IInv, SentOnes
  <2>2. ASSUME NEW k \in everStored' PROVE status'[k] # "unsent"
    BY <1>1, <1>3, <1>4, <2>2 DEF IInv, SentOnes, SenderTypeOK
  <2>3. ASSUME NEW k \in Msgs, NEW d \in Drops, reply'[k][d] # "none"
        PROVE  status'[k] # "unsent"
    BY <1>1, <1>3, <1>4, <2>3 DEF IInv, SentOnes
  <2> QED
    BY <2>1, <2>2, <2>3 DEF SentOnes
<1>6. m \notin everStored
  BY <1>1 DEF IInv, SentOnes
<1>7. ASSUME NEW k \in Msgs, k # m, Covered(k) PROVE Covered(k)'
  <2>1. PICK j \in everStored : idx[j] = idx[k]
    BY <1>7 DEF Covered
  <2>2. j \in Msgs /\ j # m
    BY <1>6, <2>1 DEF IInv, SenderTypeOK
  <2> QED
    BY <1>1, <1>3, <1>7, <2>1, <2>2 DEF Covered
<1>8. AnswersCovered'
  <2>1. \A d \in Drops : reply[m][d] = "none"
    BY <1>1 DEF IInv, SentOnes
  <2> QED
    BY <1>1, <1>7, <2>1 DEF IInv, AnswersCovered
<1>9. DeliveredIndexWasStored'
  <2>1. ASSUME NEW k \in Msgs, status'[k] = "delivered" PROVE Covered(k)'
    BY <1>3, <1>4, <1>7, <2>1 DEF IInv, DeliveredIndexWasStored, Covered
  <2> QED
    BY <2>1 DEF DeliveredIndexWasStored, Covered
<1> QED
  BY <1>1, <1>2, <1>5, <1>8, <1>9 DEF IInv, StoredOnes

(* A drop carries a PUT out. *)
LEMMA ServeInv ==
  ASSUME IInv, NEW m \in Msgs, NEW d \in Drops, ServePut(m, d)
  PROVE  IInv'
<1>1. /\ <<m, d>> \in flying /\ flying' = flying \ {<<m, d>>}
      /\ store' \in {store, store \cup {<<m, d>>}}
      /\ Occupied(d, idx[m]) \/ <<m, d>> \in store'
      /\ everStored' = everStored \cup {x[1] : x \in store'}
      /\ \/ reply' = reply
         \/ \E r \in {"OK", "EXISTS"} : reply' = [reply EXCEPT ![m][d] = r]
      /\ UNCHANGED <<sendIndex, diskSend, status, idx>>
  BY DEF ServePut
<1>2. store \subseteq store' /\ store' \subseteq Msgs \X Drops
  BY <1>1 DEF IInv, SenderTypeOK
<1>3. reply' \in [Msgs -> [Drops -> Replies]]
  <2>1. reply \in [Msgs -> [Drops -> Replies]]
    BY DEF IInv, SenderTypeOK
  <2>2. ASSUME NEW r \in Replies
        PROVE  [reply EXCEPT ![m][d] = r] \in [Msgs -> [Drops -> Replies]]
    BY <2>1, <2>2
  <2> QED
    BY <1>1, <2>1, <2>2 DEF Replies
<1>4. everStored \subseteq everStored' /\ everStored' \subseteq Msgs
  BY <1>1, <1>2 DEF IInv, SenderTypeOK
<1>5. SenderTypeOK'
  BY <1>1, <1>2, <1>3, <1>4 DEF IInv, SenderTypeOK
<1>6. status[m] # "unsent"
  BY <1>1 DEF IInv, SentOnes
<1>7. \A x \in store' : x \in store \/ x = <<m, d>>
  BY <1>1
<1>8. \A x \in store' : status[x[1]] # "unsent"
  BY <1>6, <1>7 DEF IInv, SentOnes
<1>9. SentOnes'
  <2>1. \A x \in flying' \cup store' : status'[x[1]] # "unsent"
    BY <1>1, <1>8 DEF IInv, SentOnes
  <2>2. \A k \in everStored' : status'[k] # "unsent"
    BY <1>1, <1>8 DEF IInv, SentOnes
  <2>3. ASSUME NEW k \in Msgs, NEW e \in Drops, reply'[k][e] # "none", k # m
        PROVE  status'[k] # "unsent"
    BY <1>1, <2>3 DEF IInv, SentOnes, SenderTypeOK
  <2> QED
    BY <1>1, <1>6, <2>1, <2>2, <2>3 DEF SentOnes
<1>10. StoredOnes'
  BY <1>1 DEF StoredOnes
<1>11. Covered(m)'
  <2>1. CASE <<m, d>> \in store'
    <3>1. m \in everStored'
      BY <1>1, <2>1
    <3> QED
      BY <3>1 DEF Covered
  <2>2. CASE Occupied(d, idx[m])
    <3>1. PICK k \in Msgs : idx[k] = idx[m] /\ <<k, d>> \in store
      BY <2>2 DEF Occupied
    <3>2. k \in everStored'
      BY <1>1, <1>2, <3>1
    <3> QED
      BY <1>1, <3>1, <3>2 DEF Covered
  <2> QED
    BY <1>1, <2>1, <2>2
<1>12. \A k \in Msgs : Covered(k) => Covered(k)'
  BY <1>1, <1>4, CoveredStays
<1>13. AnswersCovered'
  <2>1. ASSUME NEW k \in Msgs, NEW e \in Drops, reply'[k][e] \in {"OK", "EXISTS"}, k # m
        PROVE  Covered(k)'
    <3>1. reply'[k][e] = reply[k][e]
      BY <1>1, <2>1 DEF IInv, SenderTypeOK
    <3> QED
      BY <1>12, <2>1, <3>1 DEF IInv, AnswersCovered
  <2> QED
    BY <1>11, <2>1 DEF AnswersCovered
<1>14. DeliveredIndexWasStored'
  BY <1>1, <1>12 DEF IInv, DeliveredIndexWasStored, Covered
<1> QED
  BY <1>5, <1>9, <1>10, <1>13, <1>14 DEF IInv

(* A step that only moves indexes on, or ends sends, and answers with FAIL at *)
(* most.                                                                      *)
LEMMA RestInv ==
  ASSUME IInv, SenderTypeOK', UNCHANGED <<idx, everStored>>,
         flying' \subseteq flying, store' \subseteq store,
         \A m \in Msgs : status'[m] # status[m] => status[m] = "putting",
         \A m \in Msgs : status'[m] # "unsent" \/ status'[m] = status[m],
         \A m \in Msgs, d \in Drops :
            reply'[m][d] # reply[m][d] => reply'[m][d] = "FAIL" /\ status[m] = "putting",
         \A m \in Msgs : status'[m] = "delivered" => status[m] = "delivered" \/ Covered(m)
  PROVE  IInv'
<1>1. \A m \in Msgs : status[m] # "unsent" => status'[m] # "unsent"
  OBVIOUS
<1>2. SentOnes'
  <2>1. ASSUME NEW x \in flying' \cup store' PROVE status'[x[1]] # "unsent"
    <3>1. x \in flying \cup store /\ x[1] \in Msgs
      BY <2>1 DEF IInv, SenderTypeOK
    <3> QED
      BY <1>1, <3>1 DEF IInv, SentOnes
  <2>2. \A k \in everStored' : status'[k] # "unsent"
    BY <1>1 DEF IInv, SentOnes, SenderTypeOK
  <2>3. ASSUME NEW k \in Msgs, NEW d \in Drops, reply'[k][d] # "none"
        PROVE  status'[k] # "unsent"
    BY <1>1, <2>3 DEF IInv, SentOnes
  <2> QED
    BY <2>1, <2>2, <2>3 DEF SentOnes
<1>3. StoredOnes'
  BY DEF IInv, StoredOnes
<1>4. \A m \in Msgs : Covered(m) => Covered(m)'
  BY CoveredStays
<1>5. AnswersCovered'
  BY <1>4 DEF IInv, AnswersCovered
<1>6. DeliveredIndexWasStored'
  <2>1. ASSUME NEW m \in Msgs, status'[m] = "delivered" PROVE Covered(m)'
    BY <1>4, <2>1 DEF IInv, DeliveredIndexWasStored, Covered
  <2> QED
    BY <2>1 DEF DeliveredIndexWasStored, Covered
<1> QED
  BY <1>2, <1>3, <1>5, <1>6 DEF IInv

(* A PUT fails for the client. *)
LEMMA FailInv ==
  ASSUME IInv, NEW m \in Msgs, NEW d \in Drops, NEW lost, PutFails(m, d, lost)
  PROVE  IInv'
<1>1. /\ status[m] = "putting" /\ reply' = [reply EXCEPT ![m][d] = "FAIL"]
      /\ flying' \in {flying, flying \ {<<m, d>>}}
      /\ UNCHANGED <<sendIndex, diskSend, status, idx, store, everStored>>
  BY DEF PutFails
<1>2. SenderTypeOK'
  BY <1>1 DEF IInv, SenderTypeOK, Replies
<1>3. \A k \in Msgs, e \in Drops :
        reply'[k][e] # reply[k][e] => k = m /\ reply'[k][e] = "FAIL"
  BY <1>1 DEF IInv, SenderTypeOK
<1> QED
  BY <1>1, <1>2, <1>3, RestInv

(* A send comes back. *)
LEMMA FinishInv ==
  ASSUME IInv, NEW m \in Msgs, Finish(m)
  PROVE  IInv'
<1>1. /\ status[m] = "putting"
      /\ \/ /\ \E d \in Drops : reply[m][d] \in {"OK", "EXISTS"}
            /\ sendIndex' = sendIndex + 1 /\ diskSend' = sendIndex + 1
            /\ status' = [status EXCEPT ![m] = "delivered"]
         \/ /\ status' = [status EXCEPT ![m] = "failed"]
            /\ UNCHANGED <<sendIndex, diskSend>>
      /\ UNCHANGED <<idx, flying, reply, store, everStored>>
  BY DEF Finish
<1>2. SenderTypeOK'
  BY <1>1 DEF IInv, SenderTypeOK, Statuses
<1>3. \A k \in Msgs : k # m => status'[k] = status[k]
  BY <1>1 DEF IInv, SenderTypeOK
<1>4. status'[m] # "unsent" /\ (status'[m] = "delivered" => Covered(m))
  BY <1>1 DEF IInv, SenderTypeOK, AnswersCovered
<1> QED
  BY <1>1, <1>2, <1>3, <1>4, RestInv

(* The program stops and starts again. *)
LEMMA RestartInv ==
  ASSUME IInv, SenderRestart
  PROVE  IInv'
<1>1. /\ sendIndex' \in {0, diskSend}
      /\ status' = [m \in Msgs |-> IF status[m] = "putting" THEN "stopped" ELSE status[m]]
      /\ UNCHANGED <<diskSend, idx, flying, reply, store, everStored>>
  BY DEF SenderRestart
<1>2. SenderTypeOK'
  BY <1>1 DEF IInv, SenderTypeOK, Statuses
<1> QED
  BY <1>1, <1>2, RestInv DEF IInv, SenderTypeOK

(* The peer tells its base. *)
LEMMA SyncInv ==
  ASSUME IInv, NEW base \in Nat, BaseSync(base)
  PROVE  IInv'
<1>1. SenderTypeOK'
  BY DEF BaseSync, IInv, SenderTypeOK
<1> QED
  BY <1>1, RestInv DEF BaseSync

(* A file expires. *)
LEMMA ExpireInv ==
  ASSUME IInv, NEW m \in Msgs, NEW d \in Drops, Expire(m, d)
  PROVE  IInv'
<1>1. SenderTypeOK'
  BY DEF Expire, IInv, SenderTypeOK
<1> QED
  BY <1>1, RestInv DEF Expire

(* A step of the sender or of its drops. *)
LEMMA LocalInv ==
  ASSUME IInv, Local
  PROVE  IInv'
BY SendInv, FinishInv, ServeInv, FailInv, ExpireInv, RestartInv DEF Local

(* Every step keeps the invariant. *)
LEMMA StepInv == IInv /\ [SenderNext]_senderVars => IInv'
<1> SUFFICES ASSUME IInv, [SenderNext]_senderVars PROVE IInv'
  OBVIOUS
<1>1. CASE Local
  BY <1>1, LocalInv
<1>2. ASSUME NEW base \in {sendIndex} \cup {idx[m] + 1 : m \in everStored}, BaseSync(base)
      PROVE  IInv'
  <2>1. base \in Nat
    BY DEF IInv, SenderTypeOK
  <2> QED
    BY <1>2, <2>1, SyncInv
<1>3. CASE UNCHANGED senderVars
  <2>1. SenderTypeOK'
    BY <1>3 DEF senderVars, IInv, SenderTypeOK
  <2> QED
    BY <1>3, <2>1, RestInv DEF senderVars
<1> QED
  BY <1>1, <1>2, <1>3 DEF SenderNext

(* The inductive invariant: requests, files and answers belong to messages   *)
(* that were sent, and every OK or EXISTS stands for a file that was there    *)
(* under the index (send_offline_message, the drops' PUT).                    *)
THEOREM Invariance == SenderSpec => []IInv
BY InitInv, StepInv, PTL DEF SenderSpec

(* Indexes, statuses, requests and answers of the sender keep their types,    *)
(* for any number of messages, drops and faults.                              *)
THEOREM TypeCorrectness == SenderSpec => []SenderTypeOK
<1>1. IInv => SenderTypeOK
  BY DEF IInv
<1> QED
  BY <1>1, Invariance, PTL

(* Under the index of every message that is shown as delivered something was  *)
(* stored, whatever overlaps, fails, expires or restarts                      *)
(* (send_offline_message).                                                    *)
THEOREM DeliveredStored == SenderSpec => []DeliveredIndexWasStored
<1>1. IInv => DeliveredIndexWasStored
  BY DEF IInv
<1> QED
  BY <1>1, Invariance, PTL

-----------------------------------------------------------------------------
(* The send index has not passed the last one that the state file can hold.   *)
InRange == diskSend <= MaxIndex

(* Memory and file have the same index, and no send is ahead of it.           *)
Past ==
  /\ sendIndex = diskSend
  /\ \A m \in Msgs : idx[m] <= sendIndex
  /\ DeliveredIsPast

(* A step of the sender or of its drops, as long as the indexes last; and an   *)
(* index sync.                                                                *)
LEMMA LocalPast ==
  ASSUME SenderTypeOK, InRange, Past, Local
  PROVE  Past' /\ sendIndex <= sendIndex'
<1> USE SenderAssumption DEF SenderTypeOK, InRange, Past, DeliveredIsPast
<1>1. ASSUME NEW m \in Msgs, Send(m) PROVE Past'
  BY <1>1 DEF Send
<1>2. ASSUME NEW m \in Msgs, Finish(m) PROVE Past'
  <2>1. UNCHANGED idx /\ \A k \in Msgs : k # m => status'[k] = status[k]
    BY <1>2 DEF Finish
  <2>2. CASE sendIndex' = sendIndex + 1 /\ diskSend' = sendIndex + 1
    BY <2>1, <2>2
  <2>3. CASE status'[m] = "failed" /\ UNCHANGED <<sendIndex, diskSend>>
    BY <2>1, <2>3
  <2> QED
    BY <1>2, <2>2, <2>3 DEF Finish
<1>3. ASSUME NEW m \in Msgs, NEW d \in Drops, ServePut(m, d) PROVE Past'
  BY <1>3 DEF ServePut
<1>4. ASSUME NEW m \in Msgs, NEW d \in Drops, NEW lost, PutFails(m, d, lost) PROVE Past'
  BY <1>4 DEF PutFails
<1>5. ASSUME NEW m \in Msgs, NEW d \in Drops, Expire(m, d) PROVE Past'
  BY <1>5 DEF Expire
<1>6. CASE SenderRestart
  <2>1. sendIndex' = sendIndex /\ UNCHANGED <<diskSend, idx>>
    BY <1>6 DEF SenderRestart
  <2>2. \A m \in Msgs : status'[m] = "delivered" => status[m] = "delivered"
    BY <1>6 DEF SenderRestart
  <2> QED
    BY <2>1, <2>2
<1>7. sendIndex <= sendIndex'
  <2>1. ASSUME NEW m \in Msgs, Send(m) \/ Finish(m) PROVE sendIndex <= sendIndex'
    BY <2>1 DEF Send, Finish
  <2>2. ASSUME NEW m \in Msgs, NEW d \in Drops,
               ServePut(m, d) \/ Expire(m, d) \/ \E lost \in BOOLEAN : PutFails(m, d, lost)
        PROVE  sendIndex <= sendIndex'
    BY <2>2 DEF ServePut, Expire, PutFails
  <2>3. CASE SenderRestart
    BY <2>3 DEF SenderRestart
  <2> QED
    BY <2>1, <2>2, <2>3 DEF Local
<1> QED
  BY <1>1, <1>2, <1>3, <1>4, <1>5, <1>6, <1>7 DEF Local

LEMMA SyncPast ==
  ASSUME SenderTypeOK, Past, NEW base \in Nat, BaseSync(base)
  PROVE  Past' /\ sendIndex <= sendIndex'
<1>1. /\ sendIndex' \in Nat /\ sendIndex' >= sendIndex /\ diskSend' = sendIndex'
      /\ UNCHANGED <<idx, status>>
  BY DEF BaseSync, SenderTypeOK
<1> QED
  BY <1>1 DEF Past, DeliveredIsPast, SenderTypeOK

(* One step, as long as the indexes last. *)
LEMMA PastStep ==
  ASSUME SenderTypeOK, InRange, Past, [SenderNext]_senderVars
  PROVE  Past'
<1>1. ASSUME NEW base \in {sendIndex} \cup {idx[m] + 1 : m \in everStored}, BaseSync(base)
      PROVE  Past'
  <2>1. base \in Nat
    BY DEF SenderTypeOK
  <2> QED
    BY <1>1, <2>1, SyncPast
<1>2. CASE UNCHANGED senderVars
  BY <1>2 DEF senderVars, Past, DeliveredIsPast
<1> QED
  BY <1>1, <1>2, LocalPast DEF SenderNext

(* The index of a delivered message is never used again, in memory, in the    *)
(* state file, by an overlapping send or after a restart, as long as the      *)
(* saved index is one that the program reads back: beyond the last u64        *)
(* parse_offline_u64 takes it for 0 and starts over.                          *)
THEOREM DeliveredStaysPast == SenderSpec /\ []InRange => []DeliveredIsPast
<1>1. SenderInit => Past
  BY DEF SenderInit, Past, DeliveredIsPast
<1>2. SenderTypeOK /\ InRange /\ Past /\ [SenderNext]_senderVars => Past'
  BY PastStep
<1>3. Past => DeliveredIsPast
  BY DEF Past
<1> QED
  BY <1>1, <1>2, <1>3, TypeCorrectness, PTL DEF SenderSpec
=============================================================================
