---------------------------- MODULE OfflineSender ----------------------------
(***************************************************************************)
(* The sending half of the offline channel (termchat-i2p.py:               *)
(* send_offline_message, with deaddrop.py: put and the PUT command of       *)
(* SERVER/deaddrop-server.py).                                             *)
(*                                                                         *)
(* A message is stored under the key of the current send index, at every   *)
(* active drop in parallel.  The composer starts a worker per message, so  *)
(* several sends may run at the same time; each of them reads the index    *)
(* when it starts and moves it on when its PUTs have come back.  A PUT that *)
(* the client has given up on may still reach the drop, and the answer to  *)
(* one that was carried out may be lost.                                   *)
(***************************************************************************)
EXTENDS Integers

CONSTANTS
  Msgs,        \* the messages the user writes, each sent once
  Drops,       \* the active dead drops
  MaxIndex,    \* OFFLINE_MAX_U64
  Concurrent,  \* whether the user may send while another send is under way
  Faults       \* what may go wrong: "put" and "get" requests may fail, blobs
               \* "expire", the sender's program may "restart"

ASSUME SenderAssumption ==
  /\ MaxIndex \in Nat
  /\ Concurrent \in BOOLEAN
  /\ Faults \subseteq {"put", "get", "expire", "restart"}

Statuses == {"unsent", "putting", "delivered", "failed", "stopped"}
Replies  == {"none", "OK", "EXISTS", "FAIL"}

VARIABLES
  sendIndex, \* drop_send_index
  diskSend,  \* drop_send_index in the state file
  status,    \* of each message
  idx,       \* send_index: the index a message was sent under
  flying,    \* the PUTs that no drop has handled, as <<message, drop>>
  reply,     \* what the PUT of a message at a drop has come back with
  store,     \* the blobs the drops hold, as <<message, drop>>
  everStored \* history: the messages that were stored somewhere

senderVars == <<sendIndex, diskSend, status, idx, flying, reply, store, everStored>>

SenderInit ==
  /\ sendIndex = 0
  /\ diskSend = 0
  /\ status = [m \in Msgs |-> "unsent"]
  /\ idx = [m \in Msgs |-> 0]
  /\ flying = {}
  /\ reply = [m \in Msgs |-> [d \in Drops |-> "none"]]
  /\ store = {}
  /\ everStored = {}

Putting == {m \in Msgs : status[m] = "putting"}

(* Drop d holds a file for the key of index i. *)
Occupied(d, i) == \E m \in Msgs : idx[m] = i /\ <<m, d>> \in store

(* send_offline_message up to its await: the index is read and a PUT goes   *)
(* to every drop.                                                           *)
Send(m) ==
  /\ status[m] = "unsent"
  /\ Concurrent \/ Putting = {}
  /\ status' = [status EXCEPT ![m] = "putting"]
  /\ idx' = [idx EXCEPT ![m] = sendIndex]
  /\ flying' = flying \cup {<<m, d>> : d \in Drops}
  /\ UNCHANGED <<sendIndex, diskSend, reply, store, everStored>>

(* A drop carries out a PUT: it never overwrites.  The answer arrives, or   *)
(* it does not and the client times out.                                    *)
ServePut(m, d) ==
  /\ <<m, d>> \in flying
  /\ flying' = flying \ {<<m, d>>}
  /\ store' = IF Occupied(d, idx[m]) THEN store ELSE store \cup {<<m, d>>}
  /\ everStored' = everStored \cup {x[1] : x \in store'}
  /\ \/ /\ reply[m][d] = "none"
        /\ reply' = [reply EXCEPT ![m][d] =
                       IF Occupied(d, idx[m]) THEN "EXISTS" ELSE "OK"]
     \/ /\ "put" \in Faults \/ reply[m][d] # "none"
        /\ UNCHANGED reply
  /\ UNCHANGED <<sendIndex, diskSend, status, idx>>

(* The PUT of m at d fails for the client: it timed out, the drop refused   *)
(* it or was not reached.  Unless it is lost, the drop may still get it.    *)
PutFails(m, d, lost) ==
  /\ "put" \in Faults
  /\ status[m] = "putting"
  /\ reply[m][d] = "none"
  /\ reply' = [reply EXCEPT ![m][d] = "FAIL"]
  /\ flying' = IF lost THEN flying \ {<<m, d>>} ELSE flying
  /\ UNCHANGED <<sendIndex, diskSend, status, idx, store, everStored>>

(* Faulty variants of Finish: the index is not saved, and any reply will do.*)
FinishUnsaved(m) ==
  /\ status[m] = "putting"
  /\ \E d \in Drops : reply[m][d] \in {"OK", "EXISTS"}
  /\ sendIndex' = sendIndex + 1
  /\ status' = [status EXCEPT ![m] = "delivered"]
  /\ UNCHANGED <<diskSend, idx, flying, reply, store, everStored>>

FinishAnyReply(m) ==
  /\ status[m] = "putting"
  /\ \A d \in Drops : reply[m][d] # "none"
  /\ sendIndex' = sendIndex + 1
  /\ diskSend' = sendIndex + 1
  /\ status' = [status EXCEPT ![m] = "delivered"]
  /\ UNCHANGED <<idx, flying, reply, store, everStored>>

(* send_offline_message after its await: OK or EXISTS from a single drop    *)
(* will do.  The index that is moved on is the current one.                 *)
Finish(m) ==
  /\ status[m] = "putting"
  /\ \A d \in Drops : reply[m][d] # "none"
  /\ IF \E d \in Drops : reply[m][d] \in {"OK", "EXISTS"}
     THEN /\ sendIndex' = sendIndex + 1
          /\ diskSend' = sendIndex + 1
          /\ status' = [status EXCEPT ![m] = "delivered"]
     ELSE /\ status' = [status EXCEPT ![m] = "failed"]
          /\ UNCHANGED <<sendIndex, diskSend>>
  /\ UNCHANGED <<idx, flying, reply, store, everStored>>

(* A faulty variant of BaseSync: the index may move back.                   *)
BaseSyncBack(base) ==
  /\ sendIndex' = base
  /\ diskSend' = base
  /\ UNCHANGED <<status, idx, flying, reply, store, everStored>>

(* The peer's index sync, an 'I' frame of a live session: the peer has      *)
(* settled every index below base.                                          *)
BaseSync(base) ==
  /\ sendIndex' = IF base > sendIndex THEN base ELSE sendIndex
  /\ diskSend' = sendIndex'
  /\ UNCHANGED <<status, idx, flying, reply, store, everStored>>

(* A faulty variant of SenderRestart: it resumes at the last index it used. *)
SenderRestartAtLast ==
  /\ "restart" \in Faults
  /\ sendIndex' = diskSend - 1
  /\ status' = [m \in Msgs |-> IF status[m] = "putting" THEN "stopped" ELSE status[m]]
  /\ UNCHANGED <<diskSend, idx, flying, reply, store, everStored>>

(* The program ends, by a crash or not, and starts again.  A saved index    *)
(* that is out of range is read as 0 (parse_offline_u64).                   *)
SenderRestart ==
  /\ "restart" \in Faults
  /\ sendIndex' = IF diskSend <= MaxIndex THEN diskSend ELSE 0
  /\ status' = [m \in Msgs |-> IF status[m] = "putting" THEN "stopped" ELSE status[m]]
  /\ UNCHANGED <<diskSend, idx, flying, reply, store, everStored>>

(* The time to live of a blob is over: the drop removes its file.           *)
Expire(m, d) ==
  /\ "expire" \in Faults
  /\ <<m, d>> \in store
  /\ store' = store \ {<<m, d>>}
  /\ UNCHANGED <<sendIndex, diskSend, status, idx, flying, reply, everStored>>

Local ==
  \/ \E m \in Msgs : Send(m) \/ Finish(m)
  \/ \E m \in Msgs, d \in Drops :
       \/ ServePut(m, d)
       \/ \E lost \in BOOLEAN : PutFails(m, d, lost)
       \/ Expire(m, d)
  \/ SenderRestart

(* The bases a correct peer may report: what it has read, or been told.     *)
SenderNext ==
  \/ Local
  \/ \E base \in {sendIndex} \cup {idx[m] + 1 : m \in everStored} : BaseSync(base)

SenderSpec == SenderInit /\ [][SenderNext]_senderVars

-----------------------------------------------------------------------------
SenderTypeOK ==
  /\ sendIndex \in Nat
  /\ diskSend \in Nat
  /\ status \in [Msgs -> Statuses]
  /\ idx \in [Msgs -> Nat]
  /\ flying \subseteq Msgs \X Drops
  /\ reply \in [Msgs -> [Drops -> Replies]]
  /\ store \subseteq Msgs \X Drops
  /\ everStored \subseteq Msgs

(* A message that the chat shows as delivered has its index behind it, in   *)
(* memory and in the state file: no later send and no restart uses it again.*)
DeliveredIsPast ==
  \A m \in Msgs : status[m] = "delivered" => idx[m] < sendIndex /\ idx[m] < diskSend

(* The receiver finds something under the index of every delivered message: *)
(* that message or one that had taken its key.                              *)
DeliveredIndexWasStored ==
  \A m \in Msgs : status[m] = "delivered" =>
    \E k \in everStored : idx[k] = idx[m]

(* README.md, Offline Keying: "one derived key per message", and Offline    *)
(* State: "This allows restart-safe offline sending".  So a message shown   *)
(* as delivered was stored.  The code reuses a key when the previous send   *)
(* is still under way, failed or was cut off, and takes EXISTS for success. *)
DeliveredWasStored ==
  \A m \in Msgs : status[m] = "delivered" => m \in everStored
=============================================================================
