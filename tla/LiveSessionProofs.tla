-------------------------- MODULE LiveSessionProofs --------------------------
(***************************************************************************)
(* Proofs about LiveSession, for any number of calls and any budget: a      *)
(* program is in one call at a time and leaves no stream open behind it;    *)
(* two programs whose handshake is done hold the same key; a message is read *)
(* unless one of the races of the start of a call came about; and two       *)
(* programs that are at rest have the same offline secret, or one has none. *)
(***************************************************************************)
EXTENDS LiveSession, TLAPS

Ends == Streams \cup {None}

(* The types of what a program knows of its calls. *)
CallTypes ==
  /\ conn \in [Nodes -> Ends] /\ pending \in [Nodes -> Ends]
  /\ dial \in [Nodes -> Ends] /\ offer \in [Nodes -> Ends] /\ hb \in [Nodes -> Ends]
  /\ listening \in [Nodes -> BOOLEAN]
  /\ up \in [Streams -> SUBSET Nodes]
  /\ budget \in [calls: 0..MaxCalls, says: Nat, breaks: Nat, exits: Nat, locks: Nat,
                unlocks: Nat]

(* The accept loop takes the next call when no other one rings. *)
OneOffer ==
  \A n \in Nodes :
    /\ listening[n] => offer[n] = None
    /\ listening[n] \/ offer[n] # None => pending[n] = None

IInv == CallTypes /\ OneOffer /\ OneCallAtATime

(* The other program. *)
LEMMA Others ==
  ASSUME NEW n \in Nodes
  PROVE  Other(n) \in Nodes /\ Other(n) # n /\ Nodes = {n, Other(n)}
<1>1. \E m \in Nodes : m # n
  BY SessionAssumption DEF Nodes
<1>2. Other(n) \in Nodes /\ Other(n) # n
  BY <1>1 DEF Other
<1> QED
  BY <1>2 DEF Nodes

(* No stream is called None. *)
LEMMA NoneIsNoStream == None \notin Streams
BY SessionAssumption DEF None, Streams

(* What a spent bound leaves. *)
LEMMA SpendTyped ==
  ASSUME CallTypes, NEW what \in {"calls", "says", "breaks", "exits", "locks", "unlocks"},
         Spend(what)
  PROVE  budget' \in [calls: 0..MaxCalls, says: Nat, breaks: Nat, exits: Nat, locks: Nat,
                     unlocks: Nat]
<1>1. CASE what = "calls"
  BY <1>1, SessionAssumption DEF CallTypes, Spend
<1>2. CASE what # "calls"
  BY <1>2, SessionAssumption DEF CallTypes, Spend
<1> QED
  BY <1>1, <1>2

(* A closed end. *)
LEMMA Closes ==
  ASSUME NEW n, NEW s, NEW frames, Close(s, n) \/ WriteAndClose(s, n, frames)
  PROVE  up' = [up EXCEPT ![s] = @ \ {n}]
BY DEF Close, WriteAndClose

(* A frame that is no QUIT of a pending call leaves the calls as they are, but  *)
(* may end the stream.                                                         *)
Otherwise(n, s) ==
  /\ UNCHANGED <<conn, pending, dial, listening, offer, budget>>
  /\ hb' \in {hb, [hb EXCEPT ![n] = conn[n]]}
  /\ up' \in {up, [up EXCEPT ![s] = @ \ {n}]}

LEMMA ReceiveCases ==
  ASSUME CallTypes, NEW n \in Nodes, NEW s \in Streams, Receive(n, s)
  PROVE  (s = pending[n] /\ EndPending(n)) \/ Otherwise(n, s)
<1>1. CASE s = pending[n] /\ EndPending(n)
  BY <1>1
<1>2. CASE \E f, q : \/ GetK(n, s, f, q) \/ GetQ(n, s, f, q) \/ GetY(n, s, f, q)
                     \/ GetUnwanted(n, s, f, q) \/ GetU(n, s, f, q) \/ GetX(n, s, f, q)
                     \/ GetRequest(n, s, f, q) \/ GetQuit(n, s, f, q)
  <2>1. ASSUME NEW f, NEW q, GetK(n, s, f, q) \/ GetQ(n, s, f, q) \/ GetY(n, s, f, q)
        PROVE  hb' \in {hb, [hb EXCEPT ![n] = conn[n]]} /\ up' = up
    BY <2>1 DEF GetK, GetQ, GetY, NewKeys, CallTypes
  <2>2. ASSUME NEW f, NEW q, GetUnwanted(n, s, f, q)
        PROVE  hb' = hb /\ up' = [up EXCEPT ![s] = @ \ {n}]
    BY <2>2 DEF GetUnwanted, Close, WriteAndClose
  <2>3. ASSUME NEW f, NEW q, \/ GetU(n, s, f, q) \/ GetX(n, s, f, q)
                            \/ GetRequest(n, s, f, q) \/ GetQuit(n, s, f, q)
        PROVE  hb' = hb /\ up' = up
    BY <2>3 DEF GetU, GetX, GetRequest, GetQuit
  <2>4. /\ hb' \in {hb, [hb EXCEPT ![n] = conn[n]]}
        /\ up' \in {up, [up EXCEPT ![s] = @ \ {n}]}
    BY <1>2, <2>1, <2>2, <2>3
  <2>5. \/ s = pending[n] /\ EndPending(n)
        \/ UNCHANGED <<conn, pending, dial, listening, offer, budget>>
    BY DEF Receive
  <2> QED
    BY <2>4, <2>5 DEF Otherwise
<1> QED
  BY <1>1, <1>2 DEF Receive

(* The accept loop turns a caller away, or lets it ring and gives up its own  *)
(* call.                                                                     *)
Rings(n) ==
  /\ conn[n] = None
  /\ offer' = [offer EXCEPT ![n] = None] /\ dial' = [dial EXCEPT ![n] = None]
  /\ pending' = [pending EXCEPT ![n] = offer[n]]
  /\ up' = IF dial[n] = None THEN up ELSE [up EXCEPT ![dial[n]] = @ \ {n}]
  /\ UNCHANGED <<conn, listening, hb, budget>>

TurnedAway(n) ==
  /\ offer' = [offer EXCEPT ![n] = None]
  /\ up' = [up EXCEPT ![offer[n]] = @ \ {n}]
  /\ UNCHANGED <<conn, pending, dial, listening, hb, budget>>

LEMMA IdentifyCases ==
  ASSUME CallTypes, NEW n \in Nodes, Identify(n)
  PROVE  offer[n] \in Streams /\ (Rings(n) \/ TurnedAway(n))
<1>1. offer[n] \in Streams
  BY DEF Identify, CallTypes, Ends
<1>2. ASSUME NEW why, Refuse(n, why) PROVE TurnedAway(n)
  <2>1. Close(offer[n], n) /\ UNCHANGED <<pending, dial>>
    BY <1>2 DEF Refuse
  <2>2. up' = [up EXCEPT ![offer[n]] = @ \ {n}]
    BY <2>1, Closes
  <2>3. offer' = [offer EXCEPT ![n] = None] /\ UNCHANGED <<conn, listening, hb, budget>>
    BY DEF Identify
  <2> QED
    BY <2>1, <2>2, <2>3 DEF TurnedAway
<1>3. ASSUME \A why : ~Refuse(n, why) PROVE Rings(n)
  <2>1. /\ conn[n] = None /\ dial' = [dial EXCEPT ![n] = None]
        /\ IF dial[n] = None THEN UNCHANGED <<up, wire>> ELSE Close(dial[n], n)
        /\ pending' = [pending EXCEPT ![n] = offer[n]]
        /\ offer' = [offer EXCEPT ![n] = None]
        /\ UNCHANGED <<conn, listening, hb, budget>>
    BY <1>3 DEF Identify
  <2>2. up' = IF dial[n] = None THEN up ELSE [up EXCEPT ![dial[n]] = @ \ {n}]
    BY <2>1, Closes
  <2> QED
    BY <2>1, <2>2 DEF Rings
<1> QED
  BY <1>1, <1>2, <1>3

(* The types are kept. *)
LEMMA CallTypesStep ==
  ASSUME CallTypes, [Next]_vars
  PROVE  CallTypes'
<1>1. ASSUME NEW n \in Nodes, Dial(n) PROVE CallTypes'
  <2>1. budget.calls \in Streams /\ Spend("calls")
    BY <1>1 DEF Dial, Spend, CallTypes, Streams
  <2>2. budget' \in [calls: 0..MaxCalls, says: Nat, breaks: Nat, exits: Nat, locks: Nat,
                    unlocks: Nat]
    BY <2>1, SpendTyped
  <2> QED
    BY <1>1, <2>1, <2>2 DEF Dial, CallTypes, Ends
<1>2. ASSUME NEW n \in Nodes, Reach(n) PROVE CallTypes'
  BY <1>2, NoneIsNoStream, Others DEF Reach, nodeVars, netVars, CallTypes, Ends
<1>3. ASSUME NEW n \in Nodes, DialFails(n) PROVE CallTypes'
  BY <1>3, NoneIsNoStream, Others DEF DialFails, nodeVars, netVars, CallTypes, Ends
<1>4. ASSUME NEW n \in Nodes, Connected(n) PROVE CallTypes'
  BY <1>4, NoneIsNoStream, Others DEF Connected, Write, Reset, nodeVars, netVars,
     CallTypes, Ends
<1>5. ASSUME NEW n \in Nodes, Listen(n) PROVE CallTypes'
  BY <1>5, NoneIsNoStream, Others DEF Listen, nodeVars, netVars, CallTypes, Ends
<1>6. ASSUME NEW n \in Nodes, Identify(n) PROVE CallTypes'
  <2>1. offer[n] \in Streams /\ offer[n] # None
    BY <1>6, IdentifyCases, NoneIsNoStream
  <2>2. CASE Rings(n)
    BY <2>1, <2>2, NoneIsNoStream DEF Rings, CallTypes, Ends
  <2>3. CASE TurnedAway(n)
    BY <2>1, <2>3, NoneIsNoStream DEF TurnedAway, CallTypes, Ends
  <2> QED
    BY <1>6, <2>2, <2>3, IdentifyCases
<1>7. ASSUME NEW n \in Nodes, Accept(n) PROVE CallTypes'
  BY <1>7, NoneIsNoStream, Others DEF Accept, nodeVars, netVars, CallTypes, Ends
<1>8. ASSUME NEW n \in Nodes, PendingEnded(n) PROVE CallTypes'
  BY <1>8, NoneIsNoStream, Others DEF PendingEnded, EndPending, Close,
     WriteAndClose, nodeVars, netVars, CallTypes, Ends
<1>9. ASSUME NEW n \in Nodes, Decline(n) PROVE CallTypes'
  BY <1>9, NoneIsNoStream, Others DEF Decline, EndPending, Close, WriteAndClose,
     nodeVars, netVars, CallTypes, Ends
<1>10. ASSUME NEW n \in Nodes, Disconnect(n) PROVE CallTypes'
  BY <1>10, NoneIsNoStream, Others DEF Disconnect, HangUp, Close, WriteAndClose,
     nodeVars, netVars, CallTypes, Ends
<1>11. ASSUME NEW n \in Nodes, Exit(n) PROVE CallTypes'
  <2>1. Spend("exits")
    BY <1>11 DEF Exit
  <2>2. budget' \in [calls: 0..MaxCalls, says: Nat, breaks: Nat, exits: Nat, locks: Nat,
                    unlocks: Nat]
    BY <2>1, SpendTyped
  <2> QED
    BY <1>11, <2>2 DEF Exit, nodeVars, netVars, CallTypes, Ends
<1>12. ASSUME NEW n \in Nodes, ReceiveLoopEnds(n) PROVE CallTypes'
  BY <1>12, NoneIsNoStream, Others DEF ReceiveLoopEnds, HangUp, Close, WriteAndClose,
     nodeVars, netVars, CallTypes, Ends
<1>13. ASSUME NEW n \in Nodes, HeartbeatTimeout(n) PROVE CallTypes'
  BY <1>13, NoneIsNoStream, Others DEF HeartbeatTimeout, Close, WriteAndClose,
     nodeVars, netVars, CallTypes, Ends
<1>14. ASSUME NEW n \in Nodes, Say(n) PROVE CallTypes'
  <2>1. Spend("says")
    BY <1>14 DEF Say
  <2>2. budget' \in [calls: 0..MaxCalls, says: Nat, breaks: Nat, exits: Nat, locks: Nat,
                    unlocks: Nat]
    BY <2>1, SpendTyped
  <2>3. conn[n] \in Streams
    BY <1>14 DEF Say, CallTypes, Ends
  <2>4. /\ conn' \in {conn, [conn EXCEPT ![n] = None]}
        /\ hb' \in {hb, [hb EXCEPT ![n] = None]}
        /\ up' \in {up, [up EXCEPT ![conn[n]] = @ \ {n}]}
        /\ UNCHANGED <<pending, dial, listening, offer>>
    BY <1>14 DEF Say, Write, Close, WriteAndClose
  <2> QED
    BY <2>2, <2>3, <2>4 DEF CallTypes, Ends
<1>15. ASSUME NEW n \in Nodes, Lock(n) PROVE CallTypes'
  <2>1. Spend("locks")
    BY <1>15 DEF Lock
  <2>2. budget' \in [calls: 0..MaxCalls, says: Nat, breaks: Nat, exits: Nat, locks: Nat,
                    unlocks: Nat]
    BY <2>1, SpendTyped
  <2> QED
    BY <1>15, <2>2 DEF Lock, nodeVars, netVars, CallTypes, Ends
<1>16. ASSUME NEW n \in Nodes, Unlock(n) PROVE CallTypes'
  <2>1. Spend("unlocks")
    BY <1>16 DEF Unlock
  <2>2. budget' \in [calls: 0..MaxCalls, says: Nat, breaks: Nat, exits: Nat, locks: Nat,
                    unlocks: Nat]
    BY <2>1, SpendTyped
  <2> QED
    BY <1>16, <2>2 DEF Unlock, nodeVars, netVars, CallTypes, Ends
<1>17. ASSUME NEW n \in Nodes, RunTask(n) PROVE CallTypes'
  BY <1>17, NoneIsNoStream, Others DEF RunTask, SendSecret, Write, nodeVars, netVars,
     CallTypes, Ends
<1>18. ASSUME NEW n \in Nodes, NEW s \in Streams, Receive(n, s) PROVE CallTypes'
  <2>1. CASE s = pending[n] /\ EndPending(n)
    BY <2>1, NoneIsNoStream DEF EndPending, Close, WriteAndClose, CallTypes, Ends
  <2>2. CASE Otherwise(n, s)
    BY <2>2, NoneIsNoStream DEF Otherwise, CallTypes, Ends
  <2> QED
    BY <1>18, <2>1, <2>2, ReceiveCases
<1>19. ASSUME NEW s \in Streams, Break(s) PROVE CallTypes'
  <2>1. Spend("breaks")
    BY <1>19 DEF Break
  <2>2. budget' \in [calls: 0..MaxCalls, says: Nat, breaks: Nat, exits: Nat, locks: Nat,
                    unlocks: Nat]
    BY <2>1, SpendTyped
  <2> QED
    BY <1>19, <2>2 DEF Break, nodeVars, netVars, CallTypes, Ends
<1>20. CASE UNCHANGED vars
  BY <1>20, NoneIsNoStream, Others DEF vars, nodeVars, netVars, CallTypes, Ends
<1> QED
  BY <1>1, <1>2, <1>3, <1>4, <1>5, <1>6, <1>7, <1>8, <1>9, <1>10, <1>11, <1>12,
     <1>13, <1>14, <1>15, <1>16, <1>17, <1>18, <1>19, <1>20 DEF Next

(* One call rings. *)
LEMMA OneOfferStep ==
  ASSUME CallTypes, OneOffer, [Next]_vars
  PROVE  OneOffer'
<1>1. ASSUME NEW n \in Nodes, Dial(n) PROVE OneOffer'
  <2>1. budget.calls \in Streams
    BY <1>1 DEF Dial, Spend, CallTypes, Streams
  <2> QED
    BY <1>1, <2>1, NoneIsNoStream DEF Dial, Spend, CallTypes, Ends, OneOffer
<1>2. ASSUME NEW n \in Nodes, Reach(n) PROVE OneOffer'
  BY <1>2, NoneIsNoStream, Others DEF Reach, nodeVars, netVars, CallTypes, Ends,
     OneOffer
<1>3. ASSUME NEW n \in Nodes, DialFails(n) PROVE OneOffer'
  BY <1>3, NoneIsNoStream, Others DEF DialFails, nodeVars, netVars, CallTypes, Ends,
     OneOffer
<1>4. ASSUME NEW n \in Nodes, Connected(n) PROVE OneOffer'
  BY <1>4, NoneIsNoStream, Others DEF Connected, Write, Reset, nodeVars, netVars,
     CallTypes, Ends, OneOffer
<1>5. ASSUME NEW n \in Nodes, Listen(n) PROVE OneOffer'
  BY <1>5, NoneIsNoStream, Others DEF Listen, nodeVars, netVars, CallTypes, Ends,
     OneOffer
<1>6. ASSUME NEW n \in Nodes, Identify(n) PROVE OneOffer'
  <2>1. offer[n] \in Streams /\ offer[n] # None
    BY <1>6, IdentifyCases, NoneIsNoStream
  <2>2. CASE Rings(n)
    BY <2>1, <2>2, NoneIsNoStream DEF Rings, CallTypes, Ends, OneOffer
  <2>3. CASE TurnedAway(n)
    BY <2>1, <2>3, NoneIsNoStream DEF TurnedAway, CallTypes, Ends, OneOffer
  <2> QED
    BY <1>6, <2>2, <2>3, IdentifyCases
<1>7. ASSUME NEW n \in Nodes, Accept(n) PROVE OneOffer'
  BY <1>7, NoneIsNoStream, Others DEF Accept, nodeVars, netVars, CallTypes, Ends,
     OneOffer
<1>8. ASSUME NEW n \in Nodes, PendingEnded(n) PROVE OneOffer'
  BY <1>8, NoneIsNoStream, Others DEF PendingEnded, EndPending, Close,
     WriteAndClose, nodeVars, netVars, CallTypes, Ends, OneOffer
<1>9. ASSUME NEW n \in Nodes, Decline(n) PROVE OneOffer'
  BY <1>9, NoneIsNoStream, Others DEF Decline, EndPending, Close, WriteAndClose,
     nodeVars, netVars, CallTypes, Ends, OneOffer
<1>10. ASSUME NEW n \in Nodes, Disconnect(n) PROVE OneOffer'
  BY <1>10, NoneIsNoStream, Others DEF Disconnect, HangUp, Close, WriteAndClose,
     nodeVars, netVars, CallTypes, Ends, OneOffer
<1>11. ASSUME NEW n \in Nodes, Exit(n) PROVE OneOffer'
  BY <1>11, NoneIsNoStream, Others DEF Exit, Spend, nodeVars, netVars, CallTypes,
     Ends, OneOffer
<1>12. ASSUME NEW n \in Nodes, ReceiveLoopEnds(n) PROVE OneOffer'
  BY <1>12, NoneIsNoStream, Others DEF ReceiveLoopEnds, HangUp, Close, WriteAndClose,
     nodeVars, netVars, CallTypes, Ends, OneOffer
<1>13. ASSUME NEW n \in Nodes, HeartbeatTimeout(n) PROVE OneOffer'
  BY <1>13, NoneIsNoStream, Others DEF HeartbeatTimeout, Close, WriteAndClose,
     nodeVars, netVars, CallTypes, Ends, OneOffer
<1>14. ASSUME NEW n \in Nodes, Say(n) PROVE OneOffer'
  BY <1>14, NoneIsNoStream, Others DEF Say, Spend, Write, Close, WriteAndClose,
     nodeVars, netVars, CallTypes, Ends, OneOffer
<1>15. ASSUME NEW n \in Nodes, Lock(n) PROVE OneOffer'
  BY <1>15, NoneIsNoStream, Others DEF Lock, Spend, nodeVars, netVars, CallTypes,
     Ends, OneOffer
<1>16. ASSUME NEW n \in Nodes, Unlock(n) PROVE OneOffer'
  BY <1>16, NoneIsNoStream, Others DEF Unlock, Spend, nodeVars, netVars, CallTypes,
     Ends, OneOffer
<1>17. ASSUME NEW n \in Nodes, RunTask(n) PROVE OneOffer'
  BY <1>17, NoneIsNoStream, Others DEF RunTask, SendSecret, Write, nodeVars, netVars,
     CallTypes, Ends, OneOffer
<1>18. ASSUME NEW n \in Nodes, NEW s \in Streams, Receive(n, s) PROVE OneOffer'
  <2>1. CASE s = pending[n] /\ EndPending(n)
    BY <2>1, NoneIsNoStream DEF EndPending, Close, WriteAndClose, CallTypes, Ends, OneOffer
  <2>2. CASE Otherwise(n, s)
    BY <2>2, NoneIsNoStream DEF Otherwise, CallTypes, Ends, OneOffer
  <2> QED
    BY <1>18, <2>1, <2>2, ReceiveCases
<1>19. ASSUME NEW s \in Streams, Break(s) PROVE OneOffer'
  BY <1>19, NoneIsNoStream, Others DEF Break, Spend, nodeVars, netVars, CallTypes,
     Ends, OneOffer
<1>20. CASE UNCHANGED vars
  BY <1>20, NoneIsNoStream, Others DEF vars, nodeVars, netVars, CallTypes, Ends,
     OneOffer
<1> QED
  BY <1>1, <1>2, <1>3, <1>4, <1>5, <1>6, <1>7, <1>8, <1>9, <1>10, <1>11, <1>12,
     <1>13, <1>14, <1>15, <1>16, <1>17, <1>18, <1>19, <1>20 DEF Next

(* One call is made. *)
LEMMA OneCallStep ==
  ASSUME CallTypes, CallTypes', OneOffer, OneCallAtATime, [Next]_vars
  PROVE  OneCallAtATime'
<1>1. ASSUME NEW n \in Nodes, Dial(n) PROVE OneCallAtATime'
  <2>1. budget.calls \in Streams
    BY <1>1 DEF Dial, Spend, CallTypes, Streams
  <2> QED
    BY <1>1, <2>1, NoneIsNoStream DEF Dial, Spend, CallTypes, Ends, OneOffer, OneCallAtATime
<1>2. ASSUME NEW n \in Nodes, Reach(n) PROVE OneCallAtATime'
  BY <1>2, NoneIsNoStream, Others DEF Reach, nodeVars, netVars, CallTypes, Ends,
     OneOffer, OneCallAtATime
<1>3. ASSUME NEW n \in Nodes, DialFails(n) PROVE OneCallAtATime'
  BY <1>3, NoneIsNoStream, Others DEF DialFails, nodeVars, netVars, CallTypes, Ends,
     OneOffer, OneCallAtATime
<1>4. ASSUME NEW n \in Nodes, Connected(n) PROVE OneCallAtATime'
  BY <1>4, NoneIsNoStream, Others DEF Connected, Write, Reset, nodeVars, netVars,
     CallTypes, Ends, OneOffer, OneCallAtATime
<1>5. ASSUME NEW n \in Nodes, Listen(n) PROVE OneCallAtATime'
  BY <1>5, NoneIsNoStream, Others DEF Listen, nodeVars, netVars, CallTypes, Ends,
     OneOffer, OneCallAtATime
<1>6. ASSUME NEW n \in Nodes, Identify(n) PROVE OneCallAtATime'
  <2>1. offer[n] \in Streams /\ offer[n] # None
    BY <1>6, IdentifyCases, NoneIsNoStream
  <2>2. CASE Rings(n)
    BY <2>1, <2>2, NoneIsNoStream DEF Rings, CallTypes, Ends, OneOffer, OneCallAtATime
  <2>3. CASE TurnedAway(n)
    BY <2>1, <2>3, NoneIsNoStream DEF TurnedAway, CallTypes, Ends, OneOffer, OneCallAtATime
  <2> QED
    BY <1>6, <2>2, <2>3, IdentifyCases
<1>7. ASSUME NEW n \in Nodes, Accept(n) PROVE OneCallAtATime'
  BY <1>7, NoneIsNoStream, Others DEF Accept, nodeVars, netVars, CallTypes, Ends,
     OneOffer, OneCallAtATime
<1>8. ASSUME NEW n \in Nodes, PendingEnded(n) PROVE OneCallAtATime'
  BY <1>8, NoneIsNoStream, Others DEF PendingEnded, EndPending, Close,
     WriteAndClose, nodeVars, netVars, CallTypes, Ends, OneOffer, OneCallAtATime
<1>9. ASSUME NEW n \in Nodes, Decline(n) PROVE OneCallAtATime'
  BY <1>9, NoneIsNoStream, Others DEF Decline, EndPending, Close, WriteAndClose,
     nodeVars, netVars, CallTypes, Ends, OneOffer, OneCallAtATime
<1>10. ASSUME NEW n \in Nodes, Disconnect(n) PROVE OneCallAtATime'
  BY <1>10, NoneIsNoStream, Others DEF Disconnect, HangUp, Close, WriteAndClose,
     nodeVars, netVars, CallTypes, Ends, OneOffer, OneCallAtATime
<1>11. ASSUME NEW n \in Nodes, Exit(n) PROVE OneCallAtATime'
  BY <1>11, NoneIsNoStream, Others DEF Exit, Spend, nodeVars, netVars, CallTypes,
     Ends, OneOffer, OneCallAtATime
<1>12. ASSUME NEW n \in Nodes, ReceiveLoopEnds(n) PROVE OneCallAtATime'
  BY <1>12, NoneIsNoStream, Others DEF ReceiveLoopEnds, HangUp, Close, WriteAndClose,
     nodeVars, netVars, CallTypes, Ends, OneOffer, OneCallAtATime
<1>13. ASSUME NEW n \in Nodes, HeartbeatTimeout(n) PROVE OneCallAtATime'
  BY <1>13, NoneIsNoStream, Others DEF HeartbeatTimeout, Close, WriteAndClose,
     nodeVars, netVars, CallTypes, Ends, OneOffer, OneCallAtATime
<1>14. ASSUME NEW n \in Nodes, Say(n) PROVE OneCallAtATime'
  <2>1. UNCHANGED <<pending, dial, offer>>
    BY <1>14 DEF Say
  <2>2. CASE up' = up /\ conn' = conn
    BY <2>1, <2>2 DEF OneCallAtATime
  <2>3. CASE conn' = [conn EXCEPT ![n] = None] /\ Close(conn[n], n)
    <3>1. up' = [up EXCEPT ![conn[n]] = @ \ {n}]
      BY <2>3, Closes
    <3> QED
      BY <2>1, <2>3, <3>1, NoneIsNoStream DEF CallTypes, Ends, OneCallAtATime
  <2> QED
    BY <1>14, <2>2, <2>3 DEF Say, Write
<1>15. ASSUME NEW n \in Nodes, Lock(n) PROVE OneCallAtATime'
  BY <1>15, NoneIsNoStream, Others DEF Lock, Spend, nodeVars, netVars, CallTypes,
     Ends, OneOffer, OneCallAtATime
<1>16. ASSUME NEW n \in Nodes, Unlock(n) PROVE OneCallAtATime'
  BY <1>16, NoneIsNoStream, Others DEF Unlock, Spend, nodeVars, netVars, CallTypes,
     Ends, OneOffer, OneCallAtATime
<1>17. ASSUME NEW n \in Nodes, RunTask(n) PROVE OneCallAtATime'
  BY <1>17, NoneIsNoStream, Others DEF RunTask, SendSecret, Write, nodeVars, netVars,
     CallTypes, Ends, OneOffer, OneCallAtATime
<1>18. ASSUME NEW n \in Nodes, NEW s \in Streams, Receive(n, s) PROVE OneCallAtATime'
  <2>1. CASE s = pending[n] /\ EndPending(n)
    BY <2>1, NoneIsNoStream
       DEF EndPending, Close, WriteAndClose, CallTypes, Ends, OneOffer, OneCallAtATime
  <2>2. CASE Otherwise(n, s)
    BY <2>2, NoneIsNoStream DEF Otherwise, CallTypes, Ends, OneOffer, OneCallAtATime
  <2> QED
    BY <1>18, <2>1, <2>2, ReceiveCases
<1>19. ASSUME NEW s \in Streams, Break(s) PROVE OneCallAtATime'
  BY <1>19, NoneIsNoStream, Others DEF Break, Spend, nodeVars, netVars, CallTypes,
     Ends, OneOffer, OneCallAtATime
<1>20. CASE UNCHANGED vars
  BY <1>20, NoneIsNoStream, Others DEF vars, nodeVars, netVars, CallTypes, Ends,
     OneOffer, OneCallAtATime
<1> QED
  BY <1>1, <1>2, <1>3, <1>4, <1>5, <1>6, <1>7, <1>8, <1>9, <1>10, <1>11, <1>12,
     <1>13, <1>14, <1>15, <1>16, <1>17, <1>18, <1>19, <1>20 DEF Next

-----------------------------------------------------------------------------
(* No call at first. *)
LEMMA InitInv == Init => IInv
<1> SUFFICES ASSUME Init PROVE IInv
  OBVIOUS
<1>1. CallTypes
  BY SessionAssumption DEF Init, CallTypes, Ends
<1>2. OneOffer /\ OneCallAtATime
  BY DEF Init, OneOffer, OneCallAtATime
<1> QED
  BY <1>1, <1>2 DEF IInv

(* A program is in one call at a time and holds no stream open but that of the *)
(* call it dials, is about to let ring, lets ring or talks in, through calls   *)
(* that collide, cancelled connects and hanging up (connect_to_peer,           *)
(* accept_loop, invalidate_one_to_one_connect, disconnect_peer).               *)
THEOREM OneCall == Spec => []OneCallAtATime
<1>1. IInv /\ [Next]_vars => IInv'
  BY CallTypesStep, OneOfferStep, OneCallStep DEF IInv
<1>2. IInv => OneCallAtATime
  BY DEF IInv
<1> QED
  BY InitInv, <1>1, <1>2, PTL DEF Spec

-----------------------------------------------------------------------------
(***************************************************************************)
(* The streams                                                             *)
(***************************************************************************)

(* What a reader takes from a sequence of frames, and a writer adds to it. *)
LEMMA TailIn ==
  ASSUME NEW F, NEW q \in Seq(F), q # <<>>
  PROVE  /\ Tail(q) \in Seq(F) /\ Head(q) \in F /\ Head(q) = q[1] /\ 1 \in DOMAIN q
         /\ \A i \in DOMAIN Tail(q) : Tail(q)[i] = q[i + 1] /\ i + 1 \in DOMAIN q
         /\ \A i \in DOMAIN q : i # 1 => i - 1 \in DOMAIN Tail(q) /\ Tail(q)[i - 1] = q[i]
OBVIOUS

LEMMA ConcatIn ==
  ASSUME NEW F, NEW q \in Seq(F), NEW p \in Seq(F)
  PROVE  /\ q \o p \in Seq(F)
         /\ DOMAIN (q \o p) = 1..(Len(q) + Len(p))
         /\ DOMAIN q = 1..Len(q) /\ DOMAIN p = 1..Len(p) /\ Len(q) \in Nat /\ Len(p) \in Nat
         /\ \A i \in DOMAIN q : (q \o p)[i] = q[i]
         /\ \A i \in DOMAIN p : (q \o p)[Len(q) + i] = p[i]
OBVIOUS

LEMMA SeqGrows ==
  ASSUME NEW F, NEW G, F \subseteq G
  PROVE  Seq(F) \subseteq Seq(G)
OBVIOUS

LEMMA SeqOf ==
  ASSUME NEW F, NEW G, NEW q \in Seq(F), \A i \in DOMAIN q : q[i] \in G
  PROVE  q \in Seq(G)
OBVIOUS

(* The types of keys, streams and frames. *)
Shape ==
  /\ CallTypes
  /\ pq \subseteq Nodes
  /\ live \in [Nodes -> BOOLEAN]
  /\ e2e \in [Nodes -> E2Es]
  /\ caller \in [Streams -> Nodes]
  /\ wire \in [Streams -> [Nodes -> Seq(Frames)]]
  /\ torn \subseteq Streams /\ early \subseteq Streams
  /\ secrets \in Nat /\ secret \in [Nodes -> 0..secrets]

(***************************************************************************)
(* What the steps do to calls, keys and streams.                           *)
(***************************************************************************)
callVars == <<pq, conn, pending, dial, offer, e2e, live, caller, up, wire, torn, early>>

Idle == UNCHANGED callVars /\ budget'.calls = budget.calls

(* n writes a frame that is no key to its session. *)
Tells(n, f) ==
  /\ conn[n] \in Streams /\ up[conn[n]] = Nodes
  /\ f \in Frames
  /\ \/ f.type = "U" /\ f.e2e = e2e[n] /\ live[n]
     \/ f.type \in {"X", "REQUEST"}
  /\ wire' = [wire EXCEPT ![conn[n]][Other(n)] = @ \o <<f>>]
  /\ UNCHANGED <<pq, conn, pending, dial, offer, e2e, live, caller, up, torn, early>>
  /\ budget'.calls = budget.calls

(* n closes its end of stream r, perhaps with a QUIT. *)
Shuts(n, r) ==
  /\ up'[r] = up[r] \ {n}
  /\ wire'[r][n] = <<>>
  /\ \/ wire'[r][Other(n)] = wire[r][Other(n)]
     \/ \E f \in Frames : /\ f.type = "QUIT" /\ up[r] = Nodes
                          /\ wire'[r][Other(n)] = wire[r][Other(n)] \o <<f>>

(* What n shuts it forgets, and what it forgets is shut. *)
Holds(n, s) == s \in {conn[n], pending[n]}

Alone(n) ==
  \A m \in Nodes \ {n} :
    /\ conn'[m] = conn[m] /\ pending'[m] = pending[m] /\ dial'[m] = dial[m]
    /\ offer'[m] = offer[m] /\ e2e'[m] = e2e[m] /\ live'[m] = live[m]

Retreats(n) ==
  /\ Alone(n)
  /\ UNCHANGED <<pq, caller, torn, early>> /\ budget'.calls = budget.calls
  /\ conn'[n] \in {conn[n], None} /\ pending'[n] \in {pending[n], None}
  /\ dial'[n] \in {dial[n], None} /\ offer'[n] \in {offer[n], None}
  /\ e2e'[n] \in E2Es /\ live'[n] \in {live[n], FALSE}
  /\ e2e'[n] = e2e[n] \/ (conn'[n] = None /\ pending'[n] = None /\ ~live'[n])
  /\ \A r \in Streams :
       /\ Shuts(n, r) \/ (up'[r] = up[r] /\ wire'[r] = wire[r])
       /\ r \in {conn[n], pending[n], offer[n]} \ {conn'[n], pending'[n], offer'[n]} => Shuts(n, r)
       /\ n \in up[r] \ up'[r] => dial'[n] # r

(* n lets the call ring that was offered, and gives up its own. *)
LetsRing(n) ==
  /\ offer[n] \in Streams /\ conn[n] = None
  /\ offer' = [offer EXCEPT ![n] = None] /\ dial' = [dial EXCEPT ![n] = None]
  /\ pending' = [pending EXCEPT ![n] = offer[n]]
  /\ IF dial[n] = None THEN UNCHANGED <<up, wire>> ELSE Close(dial[n], n)
  /\ Reset(n, offer[n])
  /\ UNCHANGED <<pq, conn, caller, torn, early>> /\ budget'.calls = budget.calls

(* n reads a frame. *)
Reads(n, s) ==
  /\ Reading(n, s) /\ wire[s][n] # <<>>
  /\ UNCHANGED <<pq, conn, pending, dial, offer, caller, up, torn, early>>
  /\ budget'.calls = budget.calls

ReadsOther(n, s) ==
  /\ Reads(n, s)
  /\ Head(wire[s][n]).type \in {"U", "X", "REQUEST", "QUIT"}
  /\ wire' = [wire EXCEPT ![s][n] = Tail(@)]
  /\ UNCHANGED <<e2e, live>>

ReadsKey(n, s) ==
  LET f == Head(wire[s][n])
      q == [wire EXCEPT ![s][n] = Tail(@)]
      mine == e2e'[n]
  IN  /\ Reads(n, s)
      /\ \A m \in Nodes \ {n} : e2e'[m] = e2e[m] /\ live'[m] = live[m]
      /\ DOMAIN e2e' = Nodes
      /\ live' \in [Nodes -> BOOLEAN]
      /\ live'[n] => live[n] \/ Ready(n, mine)
      /\ \/ /\ f.type = "K"
            /\ mine = [e2e[n] EXCEPT !.keys[Other(n)] = f.e2e.keys[Other(n)]]
            /\ wire' = q
         \/ /\ f.type = "Q" /\ n \in pq
            /\ mine = [e2e[n] EXCEPT !.kem = <<n, f.e2e.keys[Other(n)], f.e2e.keys[Other(n)]>>]
            /\ wire' = IF up[s] = Nodes THEN [q EXCEPT ![s][Other(n)] = Append(@, Frame("Y", mine))]
                       ELSE q
         \/ /\ f.type = "Y" /\ n \in pq
            /\ mine = [e2e[n] EXCEPT !.kem = <<f.e2e.kem[1], f.e2e.kem[2], e2e[n].keys[n]>>]
            /\ wire' = q

(* A program dials the calls it makes, and is offered those of the other one. *)
Roles ==
  \A n \in Nodes, s \in Streams :
    /\ dial[n] = s => caller[s] = n
    /\ offer[n] = s \/ pending[n] = s => caller[s] # n
    /\ offer[n] = s => conn[n] # s


(* A frame is read: one that changes the keys, another one, or one that ends  *)
(* the call.                                                                  *)
LEMMA ShutsHere ==
  ASSUME Shape, NEW n \in Nodes, NEW s \in Streams, NEW frames,
         \/ frames = <<>>
         \/ \E f \in Frames : f.type = "QUIT" /\ frames = <<f>>,
         WriteAndClose(s, n, frames)
  PROVE  Shuts(n, s) /\ \A r \in Streams : r # s => up'[r] = up[r] /\ wire'[r] = wire[r]
<1>1. /\ wire' = [wire EXCEPT ![s][n] = <<>>,
                              ![s][Other(n)] = IF up[s] = Nodes THEN @ \o frames ELSE @]
      /\ up' = [up EXCEPT ![s] = @ \ {n}]
  BY DEF WriteAndClose
<1>2. Other(n) \in Nodes /\ Other(n) # n /\ wire[s][Other(n)] \in Seq(Frames)
  BY Others DEF Shape
<1>3. /\ wire'[s][n] = <<>>
      /\ wire'[s][Other(n)] = IF up[s] = Nodes THEN wire[s][Other(n)] \o frames
                              ELSE wire[s][Other(n)]
      /\ up'[s] = up[s] \ {n}
      /\ \A r \in Streams : r # s => up'[r] = up[r] /\ wire'[r] = wire[r]
  BY <1>1, <1>2 DEF Shape, CallTypes
<1>4. wire[s][Other(n)] \o <<>> = wire[s][Other(n)]
  BY <1>2
<1> QED
  BY <1>3, <1>4 DEF Shuts

LEMMA QuitFrame == \A n \in Nodes : Frame("QUIT", Fresh(n, None)) \in Frames
BY DEF Frame, Fresh, Frames, E2Es, Ids, Kems, None, Unknown

LEMMA FreshTyped == ASSUME NEW n \in Nodes, NEW id \in Ids PROVE Fresh(n, id) \in E2Es
BY DEF Fresh, E2Es, Ids, Kems

(* n shuts one stream, whatever it was to it. *)
LEMMA ShutsOne ==
  ASSUME Shape, IInv, NEW n \in Nodes, NEW s \in Streams, Shuts(n, s),
         \A r \in Streams : r # s => up'[r] = up[r] /\ wire'[r] = wire[r],
         Alone(n), UNCHANGED <<pq, caller, torn, early>>, budget'.calls = budget.calls,
         conn'[n] \in {conn[n], None}, pending'[n] \in {pending[n], None},
         dial'[n] \in {dial[n], None}, offer'[n] \in {offer[n], None},
         e2e'[n] \in E2Es, live'[n] \in {live[n], FALSE},
         e2e'[n] = e2e[n] \/ (conn'[n] = None /\ pending'[n] = None /\ ~live'[n]),
         dial'[n] # s,
         {conn[n], pending[n], offer[n]} \ {conn'[n], pending'[n], offer'[n]} \subseteq {s, None}
  PROVE  Retreats(n)
<1>1. ASSUME NEW r \in Streams
      PROVE  /\ Shuts(n, r) \/ (up'[r] = up[r] /\ wire'[r] = wire[r])
             /\ r \in {conn[n], pending[n], offer[n]} \ {conn'[n], pending'[n], offer'[n]} => Shuts(n, r)
  BY NoneIsNoStream
<1>2. ASSUME NEW r \in Streams, n \in up[r] \ up'[r] PROVE dial'[n] # r
  BY <1>2
<1> QED
  BY <1>1, <1>2 DEF Retreats


(* Ending a pending call, hanging up and refusing are retreats. *)
LEMMA EndPendingRetreats ==
  ASSUME Shape, IInv, NEW n \in Nodes, EndPending(n)
  PROVE  Retreats(n)
<1>1. /\ pending[n] \in Streams /\ conn[n] = None
      /\ pending' = [pending EXCEPT ![n] = None]
      /\ e2e' = [e2e EXCEPT ![n] = Fresh(n, None)] /\ live' = [live EXCEPT ![n] = FALSE]
      /\ UNCHANGED <<pq, conn, dial, offer, caller, budget, torn, early>>
      /\ WriteAndClose(pending[n], n, <<>>)
  BY NoneIsNoStream DEF EndPending, Reset, Close, histVars, Shape, CallTypes, Ends, IInv, OneCallAtATime
<1>2. dial[n] = None
  BY <1>1, NoneIsNoStream DEF IInv, OneCallAtATime
<1>3. Fresh(n, None) \in E2Es
  BY FreshTyped DEF Ids
<1>4. Shuts(n, pending[n])
      /\ \A r \in Streams : r # pending[n] => up'[r] = up[r] /\ wire'[r] = wire[r]
  BY <1>1, ShutsHere
<1>5. /\ Alone(n)
      /\ pending'[n] = None /\ e2e'[n] = Fresh(n, None) /\ live'[n] = FALSE
  BY <1>1 DEF Alone, Shape, CallTypes
<1> QED
  BY <1>1, <1>2, <1>3, <1>4, <1>5, NoneIsNoStream, ShutsOne

LEMMA HangUpRetreats ==
  ASSUME Shape, IInv, NEW n \in Nodes, HangUp(n), NEW s \in Streams, NEW frames,
         \/ frames = <<>>
         \/ \E f \in Frames : f.type = "QUIT" /\ frames = <<f>>,
         WriteAndClose(s, n, frames), conn[n] \in {s, None}, pending[n] = None,
         dial'[n] # s, dial' = dial \/ dial' = [dial EXCEPT ![n] = None]
  PROVE  Retreats(n)
<1>1. /\ conn' = [conn EXCEPT ![n] = None]
      /\ e2e' = [e2e EXCEPT ![n] = Fresh(n, None)] /\ live' = [live EXCEPT ![n] = FALSE]
      /\ UNCHANGED <<pq, pending, offer, caller, budget, torn, early>>
  BY DEF HangUp, Reset, histVars
<1>2. Fresh(n, None) \in E2Es
  BY FreshTyped DEF Ids
<1>3. Shuts(n, s) /\ \A r \in Streams : r # s => up'[r] = up[r] /\ wire'[r] = wire[r]
  BY ShutsHere
<1>4. /\ Alone(n)
      /\ conn'[n] = None /\ e2e'[n] = Fresh(n, None) /\ live'[n] = FALSE
      /\ dial'[n] \in {dial[n], None}
  BY <1>1 DEF Alone, Shape, CallTypes
<1> QED
  BY <1>1, <1>2, <1>3, <1>4, ShutsOne

LEMMA DisconnectRetreats ==
  ASSUME Shape, IInv, NEW n \in Nodes, Disconnect(n)
  PROVE  Retreats(n)
<1>1. dial' = [dial EXCEPT ![n] = None] /\ dial'[n] = None
  BY DEF Disconnect, Shape, CallTypes
<1>2. CASE conn[n] # None
  <2>1. WriteAndClose(conn[n], n, <<Frame("QUIT", Fresh(n, None))>>)
    BY <1>2 DEF Disconnect
  <2>2. conn[n] \in Streams /\ pending[n] = None
    BY <1>2 DEF Shape, CallTypes, Ends, IInv, OneCallAtATime
  <2>3. Frame("QUIT", Fresh(n, None)).type = "QUIT"
    BY DEF Frame
  <2> QED
    BY <1>1, <2>1, <2>2, <2>3, QuitFrame, HangUpRetreats, NoneIsNoStream DEF Disconnect
<1>3. CASE conn[n] = None
  <2>1. dial[n] \in Streams /\ pending[n] = None /\ WriteAndClose(dial[n], n, <<>>)
    BY <1>3 DEF Disconnect, Close, Shape, CallTypes, Ends
  <2> QED
    BY <1>1, <1>3, <2>1, HangUpRetreats, NoneIsNoStream DEF Disconnect
<1> QED
  BY <1>2, <1>3

LEMMA ReceiveLoopRetreats ==
  ASSUME Shape, IInv, NEW n \in Nodes, ReceiveLoopEnds(n)
  PROVE  Retreats(n)
<1>1. /\ conn[n] \in Streams /\ dial' = dial /\ HangUp(n)
      /\ WriteAndClose(conn[n], n, <<>>)
  BY DEF ReceiveLoopEnds, Ended, Close, Shape, CallTypes, Ends
<1>2. pending[n] = None /\ dial[n] = None
  BY <1>1, NoneIsNoStream DEF IInv, OneCallAtATime
<1> QED
  BY <1>1, <1>2, NoneIsNoStream, HangUpRetreats

LEMMA HeartbeatRetreats ==
  ASSUME Shape, IInv, NEW n \in Nodes, HeartbeatTimeout(n)
  PROVE  Retreats(n)
<1>1. /\ hb[n] \in Streams /\ hb[n] = conn[n]
      /\ WriteAndClose(hb[n], n, <<>>)
      /\ UNCHANGED <<pq, conn, pending, dial, offer, e2e, live, caller, budget, torn, early>>
  BY DEF HeartbeatTimeout, Close, Shape, CallTypes, Ends, histVars
<1>2. dial[n] = None
  BY <1>1, NoneIsNoStream DEF IInv, OneCallAtATime
<1>3. Shuts(n, hb[n]) /\ \A r \in Streams : r # hb[n] => up'[r] = up[r] /\ wire'[r] = wire[r]
  BY <1>1, ShutsHere
<1>4. Alone(n) /\ e2e[n] \in E2Es
  BY <1>1 DEF Alone, Shape
<1> QED
  BY <1>1, <1>2, <1>3, <1>4, NoneIsNoStream, ShutsOne

LEMMA ExitRetreats ==
  ASSUME Shape, IInv, NEW n \in Nodes, Exit(n)
  PROVE  Retreats(n)
<1>1. /\ conn' = [conn EXCEPT ![n] = None] /\ pending' = [pending EXCEPT ![n] = None]
      /\ dial' = [dial EXCEPT ![n] = None] /\ offer' = [offer EXCEPT ![n] = None]
      /\ e2e' = [e2e EXCEPT ![n] = Fresh(n, None)] /\ live' = [live EXCEPT ![n] = FALSE]
      /\ up' = [s \in Streams |-> up[s] \ {n}]
      /\ wire' = [s \in Streams |-> [m \in Nodes |->
            IF m = n THEN <<>>
            ELSE IF up[s] = Nodes /\ s \in {conn[n], pending[n]}
            THEN Append(wire[s][m], Frame("QUIT", Fresh(n, None))) ELSE wire[s][m]]]
      /\ UNCHANGED <<pq, caller, torn, early>> /\ Spend("exits")
  BY DEF Exit, Reset, histVars
<1>2. budget'.calls = budget.calls
  BY <1>1 DEF Spend, Shape, CallTypes
<1>3. Fresh(n, None) \in E2Es
  BY FreshTyped DEF Ids
<1>4. /\ Alone(n) /\ conn'[n] = None /\ pending'[n] = None /\ dial'[n] = None
      /\ offer'[n] = None /\ e2e'[n] = Fresh(n, None) /\ live'[n] = FALSE
  BY <1>1 DEF Alone, Shape, CallTypes
<1>5. ASSUME NEW r \in Streams PROVE Shuts(n, r)
  <2>1. Other(n) \in Nodes /\ Other(n) # n /\ wire[r][Other(n)] \in Seq(Frames)
    BY Others DEF Shape
  <2>2. /\ up'[r] = up[r] \ {n} /\ wire'[r][n] = <<>>
        /\ \/ wire'[r][Other(n)] = wire[r][Other(n)]
           \/ /\ up[r] = Nodes
              /\ wire'[r][Other(n)] = Append(wire[r][Other(n)], Frame("QUIT", Fresh(n, None)))
    BY <1>1, <2>1
  <2>3. Append(wire[r][Other(n)], Frame("QUIT", Fresh(n, None)))
          = wire[r][Other(n)] \o <<Frame("QUIT", Fresh(n, None))>>
    BY <2>1, QuitFrame
  <2>4. Frame("QUIT", Fresh(n, None)).type = "QUIT"
    BY DEF Frame
  <2> QED
    BY <2>2, <2>3, <2>4, QuitFrame DEF Shuts
<1> QED
  BY <1>1, <1>2, <1>3, <1>4, <1>5, NoneIsNoStream DEF Retreats


LEMMA SayCases ==
  ASSUME Shape, IInv, NEW n \in Nodes, Say(n)
  PROVE  Idle \/ Retreats(n) \/ \E f \in Frames : Tells(n, f)
<1> DEFINE f == Frame("U", e2e[n])
<1>1. /\ conn[n] \in Streams /\ live[n]
      /\ UNCHANGED <<pq, pending, dial, offer, e2e, caller, torn, early>>
      /\ budget'.calls = budget.calls
  BY DEF Say, Spend, histVars, Shape, CallTypes, Ends
<1>2. CASE Write(conn[n], n, <<f>>) /\ UNCHANGED <<conn, live, hb>>
  <2>1. f \in Frames /\ f.type = "U" /\ f.e2e = e2e[n]
    BY DEF Frame, Frames, None, Shape
  <2> HIDE DEF f
  <2>2. CASE up[conn[n]] = Nodes
    <3>1. wire' = [wire EXCEPT ![conn[n]][Other(n)] = @ \o <<f>>] /\ UNCHANGED up
      BY <1>2, <2>2 DEF Write
    <3> QED
      BY <1>1, <1>2, <2>1, <2>2, <3>1 DEF Tells
  <2>3. CASE up[conn[n]] # Nodes
    BY <1>1, <1>2, <2>3 DEF Write, Idle, callVars
  <2> QED
    BY <2>2, <2>3
<1>3. CASE /\ conn' = [conn EXCEPT ![n] = None] /\ live' = [live EXCEPT ![n] = FALSE]
           /\ Close(conn[n], n)
  <2>1. WriteAndClose(conn[n], n, <<>>)
    BY <1>3 DEF Close
  <2>2. /\ Shuts(n, conn[n])
        /\ \A r \in Streams : r # conn[n] => up'[r] = up[r] /\ wire'[r] = wire[r]
    BY <1>1, <2>1, ShutsHere
  <2>3. pending[n] = None /\ dial[n] = None
    BY <1>1, NoneIsNoStream DEF IInv, OneCallAtATime
  <2>4. Alone(n) /\ e2e'[n] \in E2Es /\ e2e'[n] = e2e[n] /\ conn'[n] = None /\ live'[n] = FALSE
    BY <1>1, <1>3 DEF Alone, Shape, CallTypes
  <2> QED
    BY <1>1, <2>2, <2>3, <2>4, NoneIsNoStream, ShutsOne
<1> QED
  BY <1>2, <1>3 DEF Say

LEMMA DialFailsRetreats ==
  ASSUME Shape, IInv, NEW n \in Nodes, DialFails(n)
  PROVE  Retreats(n)
<1>1. /\ up[dial[n]] = {} /\ dial' = [dial EXCEPT ![n] = None]
      /\ UNCHANGED <<pq, conn, pending, offer, e2e, live, caller, up, wire, budget, torn, early>>
  BY DEF DialFails, netVars, histVars
<1>2. Alone(n) /\ dial'[n] = None /\ e2e[n] \in E2Es
  BY <1>1 DEF Alone, Shape, CallTypes
<1> QED
  BY <1>1, <1>2, NoneIsNoStream DEF Retreats

LEMMA IdentifyStep ==
  ASSUME Shape, IInv, Roles, NEW n \in Nodes, Identify(n)
  PROVE  Retreats(n) \/ LetsRing(n)
<1>1. /\ offer[n] \in Streams /\ offer' = [offer EXCEPT ![n] = None]
      /\ UNCHANGED <<pq, conn, caller, budget, torn, early>>
  BY DEF Identify, Shape, CallTypes, Ends
<1>2. ASSUME NEW why, Refuse(n, why) PROVE Retreats(n)
  <2>1. WriteAndClose(offer[n], n, <<>>) /\ UNCHANGED <<pending, dial, e2e, live>>
    BY <1>2 DEF Refuse, Close
  <2>2. /\ Shuts(n, offer[n])
        /\ \A r \in Streams : r # offer[n] => up'[r] = up[r] /\ wire'[r] = wire[r]
    BY <1>1, <2>1, ShutsHere
  <2>3. Alone(n) /\ offer'[n] = None /\ e2e[n] \in E2Es
    BY <1>1, <2>1 DEF Alone, Shape, CallTypes
  <2>4. dial'[n] = dial[n] /\ dial[n] # offer[n]
    BY <1>1, <2>1 DEF Roles
  <2> QED
    BY <1>1, <2>1, <2>2, <2>3, <2>4, ShutsOne
<1>3. ASSUME \A why : ~Refuse(n, why) PROVE LetsRing(n)
  BY <1>1, <1>3 DEF Identify, LetsRing
<1> QED
  BY <1>2, <1>3


LEMMA TaskCases ==
  ASSUME Shape, NEW n \in Nodes, RunTask(n)
  PROVE  Idle \/ \E f \in Frames : Tells(n, f)
<1>1. /\ UNCHANGED <<pq, conn, pending, dial, offer, e2e, live, caller, torn, early>>
      /\ budget'.calls = budget.calls
  BY DEF RunTask, nodeVars, histVars
<1>2. CASE UNCHANGED <<up, wire>>
  BY <1>1, <1>2 DEF Idle, callVars
<1>3. ASSUME NEW f \in Frames, f.type \in {"X", "REQUEST"}, Write(conn[n], n, <<f>>), CanSync(n)
      PROVE  Idle \/ Tells(n, f)
  <2>1. conn[n] \in Streams
    BY <1>3 DEF CanSync, Shape, CallTypes, Ends
  <2>2. CASE up[conn[n]] = Nodes
    BY <1>1, <1>3, <2>1, <2>2 DEF Write, Tells
  <2>3. CASE up[conn[n]] # Nodes
    BY <1>1, <1>3, <2>3 DEF Write, Idle, callVars
  <2> QED
    BY <2>2, <2>3
<1>4. ASSUME CanSync(n), SendSecret(n) PROVE Idle \/ \E f \in Frames : Tells(n, f)
  <2> DEFINE own == IF secret[n] # None THEN secret[n] ELSE secrets + 1
             f   == [Frame("X", e2e[n]) EXCEPT !.val = own]
  <2>1. Write(conn[n], n, <<f>>)
    BY <1>4 DEF SendSecret
  <2>2. f.type = "X" /\ f \in Frames
    BY DEF Frame, Frames, Shape, None
  <2> HIDE DEF f
  <2> QED
    BY <1>3, <1>4, <2>1, <2>2
<1>5. ASSUME CanSync(n), Write(conn[n], n, <<Frame("REQUEST", Fresh(n, None))>>)
      PROVE  Idle \/ \E f \in Frames : Tells(n, f)
  <2> DEFINE f == Frame("REQUEST", Fresh(n, None))
  <2>1. f.type = "REQUEST" /\ f \in Frames
    BY FreshTyped DEF Frame, Frames, None, Ids
  <2> HIDE DEF f
  <2> QED
    BY <1>3, <1>5, <2>1 DEF f
<1> QED
  BY <1>2, <1>4, <1>5 DEF RunTask

(* The keys after a frame that changes them. *)
LEMMA NewKeysFacts ==
  ASSUME Shape, NEW n \in Nodes, NEW e \in E2Es, NEW mark, NewKeys(n, e, mark)
  PROVE  /\ e2e'[n] = e /\ DOMAIN e2e' = Nodes /\ live' \in [Nodes -> BOOLEAN]
         /\ \A m \in Nodes \ {n} : e2e'[m] = e2e[m] /\ live'[m] = live[m]
         /\ live'[n] => live[n] \/ Ready(n, e2e'[n])
<1>1. e2e' = [e2e EXCEPT ![n] = e]
  BY DEF NewKeys
<1>2. live' = [live EXCEPT ![n] = live[n] \/ (mark /\ Ready(n, e))]
  BY DEF NewKeys
<1>3. live[n] \in BOOLEAN /\ (mark /\ Ready(n, e)) \in BOOLEAN
  BY DEF Shape
<1>4. e2e'[n] = e /\ DOMAIN e2e' = Nodes /\ \A m \in Nodes \ {n} : e2e'[m] = e2e[m]
  BY <1>1 DEF Shape
<1>5. live' \in [Nodes -> BOOLEAN]
  BY <1>2, <1>3 DEF Shape
<1>6. /\ \A m \in Nodes \ {n} : live'[m] = live[m]
      /\ live'[n] = (live[n] \/ (mark /\ Ready(n, e)))
  BY <1>2 DEF Shape
<1> QED
  BY <1>4, <1>5, <1>6


Kem(n, s) == <<n, s, s>>

(* What a frame on its way to n says of stream s. *)
FrameOK(s, n, f) ==
  LET m == Other(n)
  IN  /\ f.type = "K" => f.e2e.keys[m] = s
      /\ f.type = "Q" => f.e2e.keys[m] = s /\ m \in pq
      /\ f.type = "Y" => pq = Nodes /\ f.e2e.kem = Kem(m, s)
      /\ f.type = "U" => /\ \A k \in Nodes : f.e2e.keys[k] = s
                         /\ IF m \in pq THEN pq = Nodes ELSE f.e2e.kem = NoKem

FramesOK ==
  \A s \in Streams, n \in Nodes : \A i \in DOMAIN wire[s][n] : FrameOK(s, n, wire[s][n][i])

LEMMA ReceiveStep ==
  ASSUME Shape, IInv, FramesOK, NEW n \in Nodes, NEW s \in Streams, Receive(n, s)
  PROVE  Retreats(n) \/ ReadsOther(n, s) \/ ReadsKey(n, s)
<1> DEFINE f == Head(wire[s][n])
           q == [wire EXCEPT ![s][n] = Tail(@)]
           p == f.e2e.keys[Other(n)]
<1>1. Reading(n, s) /\ wire[s][n] # <<>> /\ wire[s][n] \in Seq(Frames)
  BY DEF Receive, Shape
<1>2. f \in Frames /\ f = wire[s][n][1] /\ 1 \in DOMAIN wire[s][n]
  BY <1>1, TailIn
<1>3. FrameOK(s, n, f) /\ Other(n) \in Nodes /\ Other(n) # n
  BY <1>2, Others DEF FramesOK
<1>4. p \in Ids /\ e2e[n] \in E2Es /\ f.e2e \in E2Es
  BY <1>2, <1>3 DEF Frames, E2Es, Shape
<1>5. CASE s = pending[n] /\ EndPending(n)
  BY <1>5, EndPendingRetreats
<1>6. CASE /\ \/ f.type = "K" /\ GetK(n, s, f, q)
              \/ f.type = "Q" /\ GetQ(n, s, f, q)
              \/ f.type = "Y" /\ GetY(n, s, f, q)
              \/ f.type \in {"Q", "Y"} /\ GetUnwanted(n, s, f, q)
              \/ f.type = "U" /\ GetU(n, s, f, q)
              \/ f.type = "X" /\ GetX(n, s, f, q)
              \/ f.type = "REQUEST" /\ GetRequest(n, s, f, q)
              \/ f.type = "QUIT" /\ GetQuit(n, s, f, q)
           /\ UNCHANGED <<pq, conn, pending, dial, offer, caller, budget, torn, early>>
  <2> HIDE DEF f, q, p
  <2>1. ASSUME up' = up PROVE Reads(n, s)
    BY <1>1, <1>6, <2>1 DEF Reads
  <2>2. CASE f.type = "K" /\ GetK(n, s, f, q)
    <3> DEFINE e == [e2e[n] EXCEPT !.keys[Other(n)] = p]
    <3>1. e \in E2Es
      BY <1>3, <1>4 DEF E2Es
    <3>2. NewKeys(n, e, n \notin pq /\ s = conn[n]) /\ wire' = q /\ up' = up
      BY <2>2 DEF GetK, p
    <3> HIDE DEF e
    <3>3. e2e'[n] = e /\ DOMAIN e2e' = Nodes /\ live' \in [Nodes -> BOOLEAN]
          /\ (\A m \in Nodes \ {n} : e2e'[m] = e2e[m] /\ live'[m] = live[m])
          /\ (live'[n] => live[n] \/ Ready(n, e2e'[n]))
      BY <3>1, <3>2, NewKeysFacts
    <3> QED
      BY <2>1, <2>2, <3>2, <3>3 DEF ReadsKey, e, f, q, p
  <2>3. CASE f.type = "Q" /\ GetQ(n, s, f, q)
    <3> DEFINE e == [e2e[n] EXCEPT !.kem = <<n, p, p>>]
    <3>1. e \in E2Es
      BY <1>3, <1>4 DEF E2Es, Kems
    <3>2. /\ n \in pq /\ NewKeys(n, e, TRUE) /\ up' = up
          /\ wire' = IF up[s] = Nodes THEN [q EXCEPT ![s][Other(n)] = Append(@, Frame("Y", e))]
                     ELSE q
      BY <2>3 DEF GetQ, p
    <3> HIDE DEF e
    <3>3. e2e'[n] = e /\ DOMAIN e2e' = Nodes /\ live' \in [Nodes -> BOOLEAN]
          /\ (\A m \in Nodes \ {n} : e2e'[m] = e2e[m] /\ live'[m] = live[m])
          /\ (live'[n] => live[n] \/ Ready(n, e2e'[n]))
      BY <3>1, <3>2, NewKeysFacts
    <3>4. e2e'[n] = [e2e[n] EXCEPT !.kem = <<n, p, p>>]
      BY <3>3 DEF e
    <3>5. wire' = IF up[s] = Nodes
                  THEN [q EXCEPT ![s][Other(n)] = Append(@, Frame("Y", e2e'[n]))] ELSE q
      BY <3>2, <3>3
    <3>6. Reads(n, s) /\ n \in pq /\ f.type = "Q"
      BY <2>1, <2>3, <3>2
    <3> QED
      BY <3>3, <3>4, <3>5, <3>6 DEF ReadsKey, f, q, p
  <2>4. CASE f.type = "Y" /\ GetY(n, s, f, q)
    <3> DEFINE e == [e2e[n] EXCEPT !.kem = <<f.e2e.kem[1], f.e2e.kem[2], e2e[n].keys[n]>>]
    <3>1. f.e2e.kem = Kem(Other(n), s)
      BY <1>3, <2>4 DEF FrameOK
    <3>2. e \in E2Es
      BY <1>3, <1>4, <3>1 DEF E2Es, Kems, Kem, Ids
    <3>3. n \in pq /\ NewKeys(n, e, TRUE) /\ up' = up /\ wire' = q
      BY <2>4 DEF GetY
    <3> HIDE DEF e
    <3>4. e2e'[n] = e /\ DOMAIN e2e' = Nodes /\ live' \in [Nodes -> BOOLEAN]
          /\ (\A m \in Nodes \ {n} : e2e'[m] = e2e[m] /\ live'[m] = live[m])
          /\ (live'[n] => live[n] \/ Ready(n, e2e'[n]))
      BY <3>2, <3>3, NewKeysFacts
    <3> QED
      BY <2>1, <2>4, <3>3, <3>4 DEF ReadsKey, e, f, q, p
  <2>5. CASE GetUnwanted(n, s, f, q)
    <3>1. WriteAndClose(s, n, <<>>) /\ UNCHANGED <<e2e, live>>
      BY <2>5 DEF GetUnwanted, Close
    <3>2. Shuts(n, s) /\ \A r \in Streams : r # s => up'[r] = up[r] /\ wire'[r] = wire[r]
      BY <3>1, ShutsHere
    <3>3. dial'[n] # s
      BY <1>1, <1>6, NoneIsNoStream DEF Reading, IInv, OneCallAtATime
    <3>4. Alone(n)
      BY <1>6, <3>1 DEF Alone
    <3> QED
      BY <1>4, <1>6, <3>1, <3>2, <3>3, <3>4, ShutsOne
  <2>6. CASE \/ f.type = "U" /\ GetU(n, s, f, q)
             \/ f.type = "X" /\ GetX(n, s, f, q)
             \/ f.type = "REQUEST" /\ GetRequest(n, s, f, q)
             \/ f.type = "QUIT" /\ GetQuit(n, s, f, q)
    <3>1. wire' = q /\ UNCHANGED <<up, e2e, live>> /\ f.type \in {"U", "X", "REQUEST", "QUIT"}
      BY <2>6 DEF GetU, GetX, GetRequest, GetQuit
    <3> QED
      BY <2>1, <3>1 DEF ReadsOther, f, q
  <2> QED
    BY <1>6, <2>2, <2>3, <2>4, <2>5, <2>6
<1> QED
  BY <1>5, <1>6 DEF Receive

(* Every step is one of these. *)
StepOf(n) ==
  \/ Dial(n) \/ Reach(n) \/ Connected(n) \/ LetsRing(n) \/ Accept(n) \/ Retreats(n)
  \/ \E f \in Frames : Tells(n, f)
  \/ \E s \in Streams : ReadsOther(n, s) \/ ReadsKey(n, s)

LEMMA StepCases ==
  ASSUME Shape, IInv, Roles, FramesOK, [Next]_vars
  PROVE  Idle \/ \E n \in Nodes : StepOf(n)
<1>1. ASSUME NEW n \in Nodes, DialFails(n) \/ Decline(n) \/ PendingEnded(n) \/ Disconnect(n)
                              \/ Exit(n) \/ ReceiveLoopEnds(n) \/ HeartbeatTimeout(n)
      PROVE  Retreats(n)
  BY <1>1, DialFailsRetreats, EndPendingRetreats, DisconnectRetreats, ExitRetreats,
     ReceiveLoopRetreats, HeartbeatRetreats DEF Decline, PendingEnded
<1>2. ASSUME NEW n \in Nodes, Listen(n) PROVE Idle
  BY <1>2 DEF Listen, netVars, histVars, Idle, callVars
<1>3. ASSUME NEW n \in Nodes, Lock(n) PROVE Idle
  BY <1>3 DEF Lock, Spend, nodeVars, netVars, histVars, Idle, callVars, Shape, CallTypes
<1>4. ASSUME NEW n \in Nodes, Unlock(n) PROVE Idle
  BY <1>4 DEF Unlock, Spend, nodeVars, netVars, histVars, Idle, callVars, Shape, CallTypes
<1>5. ASSUME NEW s \in Streams, Break(s) PROVE Idle
  BY <1>5 DEF Break, Spend, nodeVars, netVars, histVars, Idle, callVars, Shape, CallTypes
<1>6. CASE UNCHANGED vars
  BY <1>6 DEF vars, nodeVars, netVars, histVars, Idle, callVars
<1>7. ASSUME NEW n \in Nodes, Say(n) PROVE Idle \/ StepOf(n)
  BY <1>7, SayCases DEF StepOf
<1>8. ASSUME NEW n \in Nodes, RunTask(n) PROVE Idle \/ StepOf(n)
  BY <1>8, TaskCases DEF StepOf
<1>9. ASSUME NEW n \in Nodes, Identify(n) PROVE StepOf(n)
  BY <1>9, IdentifyStep DEF StepOf
<1>10. ASSUME NEW n \in Nodes, NEW s \in Streams, Receive(n, s) PROVE StepOf(n)
  BY <1>10, ReceiveStep DEF StepOf
<1> QED
  BY <1>1, <1>2, <1>3, <1>4, <1>5, <1>6, <1>7, <1>8, <1>9, <1>10 DEF Next, StepOf


-----------------------------------------------------------------------------
(***************************************************************************)
(* Types                                                                   *)
(***************************************************************************)
Wires == [Streams -> [Nodes -> Seq(Frames)]]

LEMMA WriteTyped ==
  ASSUME Shape, NEW n \in Nodes, NEW s \in Streams, NEW frames \in Seq(Frames),
         Write(s, n, frames) \/ WriteAndClose(s, n, frames)
  PROVE  wire' \in Wires
<1>1. Other(n) \in Nodes /\ wire[s][Other(n)] \in Seq(Frames)
      /\ wire[s][Other(n)] \o frames \in Seq(Frames)
  BY Others, ConcatIn DEF Shape
<1>2. <<>> \in Seq(Frames) /\ wire \in Wires
  BY DEF Shape, Wires
<1>3. CASE Write(s, n, frames)
  BY <1>1, <1>2, <1>3 DEF Write, Wires
<1>4. CASE WriteAndClose(s, n, frames)
  <2>1. wire' = [wire EXCEPT ![s][n] = <<>>,
                             ![s][Other(n)] = IF up[s] = Nodes THEN @ \o frames ELSE @]
    BY <1>4 DEF WriteAndClose
  <2>2. CASE up[s] = Nodes
    <3>1. wire' = [wire EXCEPT ![s][n] = <<>>, ![s][Other(n)] = @ \o frames]
      BY <2>1, <2>2
    <3> QED
      BY <1>1, <1>2, <3>1, Others DEF Wires
  <2>3. CASE up[s] # Nodes
    <3>1. wire' = [wire EXCEPT ![s][n] = <<>>, ![s][Other(n)] = @]
      BY <2>1, <2>3
    <3> QED
      BY <1>1, <1>2, <3>1, Others DEF Wires
  <2> QED
    BY <2>2, <2>3
<1> QED
  BY <1>3, <1>4

LEMMA CloseTyped ==
  ASSUME Shape, NEW n \in Nodes, NEW s \in Streams, Close(s, n)
  PROVE  wire' \in Wires
<1>1. <<>> \in Seq(Frames)
  OBVIOUS
<1> QED
  BY <1>1, WriteTyped DEF Close

LEMMA ResetTyped ==
  ASSUME Shape, NEW n \in Nodes, NEW id \in Ids, Reset(n, id)
  PROVE  e2e' \in [Nodes -> E2Es] /\ live' \in [Nodes -> BOOLEAN]
BY FreshTyped DEF Reset, Shape

LEMMA FrameTyped ==
  ASSUME NEW t \in {"K", "Q", "Y", "U", "X", "REQUEST", "QUIT"}, NEW e \in E2Es
  PROVE  Frame(t, e) \in Frames /\ Frame(t, e).type = t /\ Frame(t, e).e2e = e
BY DEF Frame, Frames, None

LEMMA HelloTyped ==
  ASSUME NEW n \in Nodes, NEW e \in E2Es
  PROVE  Hello(n, e) \in Seq(Frames)
<1>1. Frame("K", e) \in Frames /\ Frame("Q", e) \in Frames
  BY FrameTyped
<1> QED
  BY <1>1 DEF Hello

(* What n writes of its own. *)
LEMMA OneFrame ==
  ASSUME Shape, NEW n \in Nodes, NEW f \in Frames, conn[n] # None,
         Write(conn[n], n, <<f>>) \/ WriteAndClose(conn[n], n, <<f>>)
  PROVE  wire' \in Wires
<1>1. conn[n] \in Streams
  BY DEF Shape, CallTypes, Ends
<1>2. <<f>> \in Seq(Frames)
  OBVIOUS
<1> QED
  BY <1>1, <1>2, WriteTyped

Typed ==
  /\ pq' \subseteq Nodes /\ caller' \in [Streams -> Nodes]
  /\ torn' \subseteq Streams /\ early' \subseteq Streams
  /\ e2e' \in [Nodes -> E2Es] /\ live' \in [Nodes -> BOOLEAN] /\ wire' \in Wires

LEMMA EndPendingTyped ==
  ASSUME Shape, NEW n \in Nodes, EndPending(n)
  PROVE  Typed
<1>1. pending[n] \in Streams /\ Close(pending[n], n) /\ Reset(n, None)
      /\ UNCHANGED <<pq, caller, torn, early>>
  BY DEF EndPending, histVars, Shape, CallTypes, Ends
<1> QED
  BY <1>1, CloseTyped, ResetTyped DEF Typed, Shape, Ids

LEMMA ReceiveTyped ==
  ASSUME Shape, FramesOK, NEW n \in Nodes, NEW s \in Streams, Receive(n, s)
  PROVE  Typed
<1> DEFINE f == Head(wire[s][n])
           q == [wire EXCEPT ![s][n] = Tail(@)]
           p == f.e2e.keys[Other(n)]
<1>1. wire[s][n] # <<>> /\ wire[s][n] \in Seq(Frames)
  BY DEF Receive, Shape
<1>2. f \in Frames /\ f = wire[s][n][1] /\ 1 \in DOMAIN wire[s][n] /\ Tail(wire[s][n]) \in Seq(Frames)
  BY <1>1, TailIn
<1>3. FrameOK(s, n, f) /\ Other(n) \in Nodes /\ Other(n) # n /\ q \in Wires
  BY <1>2, Others DEF FramesOK, Shape, Wires
<1>4. p \in Ids /\ e2e[n] \in E2Es /\ f.e2e \in E2Es
  BY <1>2, <1>3 DEF Frames, E2Es, Shape
<1>5. CASE EndPending(n)
  BY <1>5, EndPendingTyped
<1>6. CASE /\ \/ f.type = "K" /\ GetK(n, s, f, q)
              \/ f.type = "Q" /\ GetQ(n, s, f, q)
              \/ f.type = "Y" /\ GetY(n, s, f, q)
              \/ f.type \in {"Q", "Y"} /\ GetUnwanted(n, s, f, q)
              \/ f.type = "U" /\ GetU(n, s, f, q)
              \/ f.type = "X" /\ GetX(n, s, f, q)
              \/ f.type = "REQUEST" /\ GetRequest(n, s, f, q)
              \/ f.type = "QUIT" /\ GetQuit(n, s, f, q)
           /\ UNCHANGED <<pq, caller, torn, early>>
  <2> HIDE DEF f, q, p
  <2>1. ASSUME NEW e \in E2Es, NEW mark, NewKeys(n, e, mark)
        PROVE  e2e' \in [Nodes -> E2Es] /\ live' \in [Nodes -> BOOLEAN]
    <3>1. e2e' = [e2e EXCEPT ![n] = e]
      BY <2>1 DEF NewKeys
    <3> QED
      BY <2>1, <3>1, NewKeysFacts DEF Shape
  <2>2. CASE f.type = "K" /\ GetK(n, s, f, q)
    <3> DEFINE e == [e2e[n] EXCEPT !.keys[Other(n)] = p]
    <3>1. e \in E2Es
      BY <1>3, <1>4 DEF E2Es
    <3>2. NewKeys(n, e, n \notin pq /\ s = conn[n]) /\ wire' = q
      BY <2>2 DEF GetK, p
    <3> HIDE DEF e
    <3> QED
      BY <1>3, <1>6, <2>1, <3>1, <3>2 DEF Typed, Shape
  <2>3. CASE f.type = "Q" /\ GetQ(n, s, f, q)
    <3> DEFINE e == [e2e[n] EXCEPT !.kem = <<n, p, p>>]
    <3>1. e \in E2Es
      BY <1>3, <1>4 DEF E2Es, Kems
    <3>2. /\ NewKeys(n, e, TRUE)
          /\ wire' = IF up[s] = Nodes THEN [q EXCEPT ![s][Other(n)] = Append(@, Frame("Y", e))]
                     ELSE q
      BY <2>3 DEF GetQ, p
    <3> HIDE DEF e
    <3>3. Frame("Y", e) \in Frames
      BY <3>1, FrameTyped
    <3>4. wire' \in Wires
      BY <1>3, <3>2, <3>3 DEF Wires
    <3> QED
      BY <1>6, <2>1, <3>1, <3>2, <3>4 DEF Typed, Shape
  <2>4. CASE f.type = "Y" /\ GetY(n, s, f, q)
    <3> DEFINE e == [e2e[n] EXCEPT !.kem = <<f.e2e.kem[1], f.e2e.kem[2], e2e[n].keys[n]>>]
    <3>1. f.e2e.kem = Kem(Other(n), s)
      BY <1>3, <2>4 DEF FrameOK
    <3>2. e \in E2Es
      BY <1>3, <1>4, <3>1 DEF E2Es, Kems, Kem, Ids
    <3>3. NewKeys(n, e, TRUE) /\ wire' = q
      BY <2>4 DEF GetY
    <3> HIDE DEF e
    <3> QED
      BY <1>3, <1>6, <2>1, <3>2, <3>3 DEF Typed, Shape
  <2>5. CASE GetUnwanted(n, s, f, q)
    BY <1>6, <2>5, CloseTyped DEF GetUnwanted, Typed, Shape
  <2>6. CASE \/ GetU(n, s, f, q) \/ GetX(n, s, f, q)
             \/ GetRequest(n, s, f, q) \/ GetQuit(n, s, f, q)
    <3>1. wire' = q /\ UNCHANGED <<e2e, live>>
      BY <2>6 DEF GetU, GetX, GetRequest, GetQuit
    <3> QED
      BY <1>3, <1>6, <3>1 DEF Typed, Shape
  <2> QED
    BY <1>6, <2>2, <2>3, <2>4, <2>5, <2>6
<1> QED
  BY <1>5, <1>6 DEF Receive

LEMMA TypesStep ==
  ASSUME Shape, FramesOK, [Next]_vars
  PROVE  Typed
<1> USE DEF Typed
<1>1. ASSUME NEW n \in Nodes, Dial(n) PROVE Typed
  BY <1>1 DEF Dial, histVars, Shape, Wires
<1>2. ASSUME NEW n \in Nodes, Reach(n) PROVE Typed
  BY <1>2 DEF Reach, histVars, Shape, Wires
<1>3. ASSUME NEW n \in Nodes, DialFails(n) \/ Listen(n) PROVE Typed
  BY <1>3 DEF DialFails, Listen, netVars, histVars, Shape, Wires
<1>4. ASSUME NEW n \in Nodes, Connected(n) PROVE Typed
  <2>1. dial[n] \in Streams /\ Reset(n, dial[n]) /\ Write(dial[n], n, Hello(n, Fresh(n, dial[n])))
        /\ UNCHANGED <<pq, caller, torn, early>>
    BY <1>4 DEF Connected, histVars, Shape, CallTypes, Ends
  <2>2. Hello(n, Fresh(n, dial[n])) \in Seq(Frames) /\ dial[n] \in Ids
    BY <2>1, FreshTyped, HelloTyped DEF Ids
  <2> QED
    BY <2>1, <2>2, ResetTyped, WriteTyped DEF Shape
<1>5. ASSUME NEW n \in Nodes, Identify(n) PROVE Typed
  <2>1. offer[n] \in Streams /\ UNCHANGED <<pq, caller, torn, early>>
    BY <1>5 DEF Identify, Shape, CallTypes, Ends
  <2>2. ASSUME NEW why, Refuse(n, why) PROVE Typed
    BY <2>1, <2>2, CloseTyped DEF Refuse, Shape
  <2>3. ASSUME \A why : ~Refuse(n, why) PROVE Typed
    <3>1. /\ IF dial[n] = None THEN UNCHANGED <<up, wire>> ELSE Close(dial[n], n)
          /\ Reset(n, offer[n])
      BY <1>5, <2>3 DEF Identify
    <3>2. offer[n] \in Ids
      BY <2>1 DEF Ids
    <3>3. wire' \in Wires
      BY <3>1, CloseTyped DEF Shape, Wires, CallTypes, Ends
    <3> QED
      BY <2>1, <3>1, <3>2, <3>3, ResetTyped DEF Shape
  <2> QED
    BY <2>2, <2>3
<1>6. ASSUME NEW n \in Nodes, Accept(n) PROVE Typed
  <2> DEFINE s == pending[n]
             hello == Hello(n, e2e[n])
  <2>1. s \in Streams /\ UNCHANGED <<pq, e2e, caller>>
        /\ live' = [live EXCEPT ![n] = Ready(n, e2e[n])]
        /\ early' \in {early, early \cup {s}} /\ torn' \in {torn, torn \cup {s}}
    BY <1>6 DEF Accept, Shape, CallTypes, Ends
  <2>2. hello \in Seq(Frames) /\ Other(n) \in Nodes /\ Other(n) # n
    BY Others, HelloTyped DEF Shape
  <2>3. PICK rest \in {wire[s][n]} \cup (IF wire[s][n] = <<>> THEN {} ELSE {Tail(wire[s][n])}) :
            wire' = [wire EXCEPT ![s][n] = rest,
                                 ![s][Other(n)] = IF up[s] = Nodes THEN @ \o hello ELSE @]
    BY <1>6 DEF Accept
  <2>4. rest \in Seq(Frames) /\ wire[s][Other(n)] \in Seq(Frames)
    <3>1. wire[s][n] \in Seq(Frames) /\ wire[s][Other(n)] \in Seq(Frames)
      BY <2>1, <2>2 DEF Shape
    <3>2. wire[s][n] # <<>> => Tail(wire[s][n]) \in Seq(Frames)
      BY <3>1, TailIn
    <3> QED
      BY <3>1, <3>2
  <2>5. wire[s][Other(n)] \o hello \in Seq(Frames)
    BY <2>2, <2>4, ConcatIn
  <2> HIDE DEF hello, s
  <2>6. wire' \in Wires
    BY <2>1, <2>2, <2>3, <2>4, <2>5 DEF Wires, Shape
  <2>7. live' \in [Nodes -> BOOLEAN]
    BY <2>1 DEF Ready, Shape
  <2> QED
    BY <2>1, <2>6, <2>7 DEF Shape
<1>7. ASSUME NEW n \in Nodes, Decline(n) \/ PendingEnded(n) PROVE Typed
  BY <1>7, EndPendingTyped DEF Decline, PendingEnded
<1>8. ASSUME NEW n \in Nodes, HangUp(n), wire' \in Wires PROVE Typed
  BY <1>8, ResetTyped DEF HangUp, histVars, Ids, Shape
<1>9. ASSUME NEW n \in Nodes, Disconnect(n) PROVE Typed
  <2>1. Frame("QUIT", Fresh(n, None)) \in Frames
    BY QuitFrame
  <2>2. wire' \in Wires
    BY <1>9, <2>1, OneFrame, CloseTyped DEF Disconnect, Shape, CallTypes, Ends
  <2> QED
    BY <1>8, <1>9, <2>2 DEF Disconnect
<1>10. ASSUME NEW n \in Nodes, ReceiveLoopEnds(n) PROVE Typed
  <2>1. conn[n] \in Streams /\ Close(conn[n], n) /\ HangUp(n)
    BY <1>10 DEF ReceiveLoopEnds, Ended, Shape, CallTypes, Ends
  <2> QED
    BY <1>8, <2>1, CloseTyped
<1>11. ASSUME NEW n \in Nodes, Exit(n) PROVE Typed
  <2> DEFINE quit == Frame("QUIT", Fresh(n, None))
  <2>1. Reset(n, None) /\ UNCHANGED <<pq, caller, torn, early>>
    BY <1>11 DEF Exit, histVars
  <2>2. wire' = [s \in Streams |-> [m \in Nodes |->
            IF m = n THEN <<>>
            ELSE IF up[s] = Nodes /\ s \in {conn[n], pending[n]}
            THEN Append(wire[s][m], quit) ELSE wire[s][m]]]
    BY <1>11 DEF Exit
  <2>3. quit \in Frames
    BY QuitFrame
  <2> HIDE DEF quit
  <2>4. wire' \in Wires
    BY <2>2, <2>3 DEF Wires, Shape
  <2> QED
    BY <2>1, <2>4, ResetTyped DEF Ids, Shape
<1>12. ASSUME NEW n \in Nodes, HeartbeatTimeout(n) PROVE Typed
  <2>1. hb[n] \in Streams
    BY <1>12 DEF HeartbeatTimeout, Shape, CallTypes, Ends
  <2> QED
    BY <1>12, <2>1, CloseTyped DEF HeartbeatTimeout, histVars, Shape
<1>13. ASSUME NEW n \in Nodes, Say(n) PROVE Typed
  <2>1. conn[n] \in Streams /\ Frame("U", e2e[n]) \in Frames
    BY <1>13, FrameTyped DEF Say, Shape, CallTypes, Ends
  <2>2. wire' \in Wires
    BY <1>13, <2>1, NoneIsNoStream, OneFrame, CloseTyped DEF Say
  <2>3. live' \in [Nodes -> BOOLEAN]
    BY <1>13 DEF Say, Shape
  <2> QED
    BY <1>13, <2>2, <2>3 DEF Say, histVars, Shape
<1>14. ASSUME NEW n \in Nodes, Lock(n) \/ Unlock(n) PROVE Typed
  BY <1>14 DEF Lock, Unlock, nodeVars, netVars, histVars, Shape, Wires
<1>15. ASSUME NEW n \in Nodes, RunTask(n) PROVE Typed
  <2>1. UNCHANGED <<pq, caller, torn, early, e2e, live>>
    BY <1>15 DEF RunTask, nodeVars, histVars
  <2>2. CASE Idle
    BY <2>1, <2>2 DEF Idle, callVars, Shape, Wires
  <2>3. ASSUME NEW f \in Frames, Tells(n, f) PROVE wire' \in Wires
    <3>1. Write(conn[n], n, <<f>>) /\ conn[n] # None
      BY <2>3, NoneIsNoStream DEF Tells, Write
    <3> QED
      BY <3>1, OneFrame
  <2> QED
    BY <1>15, <2>1, <2>2, <2>3, TaskCases DEF Shape
<1>16. ASSUME NEW s \in Streams, Break(s) PROVE Typed
  BY <1>16 DEF Break, nodeVars, histVars, Shape, Wires
<1>17. ASSUME NEW n \in Nodes, NEW s \in Streams, Receive(n, s) PROVE Typed
  BY <1>17, ReceiveTyped
<1>18. CASE UNCHANGED vars
  BY <1>18 DEF vars, nodeVars, netVars, histVars, Shape, Wires
<1> QED
  BY <1>1, <1>2, <1>3, <1>4, <1>5, <1>6, <1>7, <1>9, <1>10, <1>11, <1>12, <1>13,
     <1>14, <1>15, <1>16, <1>17, <1>18 DEF Next


-----------------------------------------------------------------------------
(***************************************************************************)
(* The offline secret                                                      *)
(***************************************************************************)
Quiet == UNCHANGED <<secret, secrets, renewed>>

(* No secret is written. *)
NoNewSecret ==
  \A s \in Streams, n \in Nodes : \A i \in DOMAIN wire'[s][n] :
    wire'[s][n][i].type = "X" => \E j \in DOMAIN wire[s][n] : wire'[s][n][i] = wire[s][n][j]

(* What is not read of a sequence, and what is added to it. *)
LEMMA FromTail ==
  ASSUME NEW q \in Seq(Frames), q # <<>>
  PROVE  \A i \in DOMAIN Tail(q) : \E j \in DOMAIN q : Tail(q)[i] = q[j]
BY TailIn

LEMMA FromConcat ==
  ASSUME NEW q \in Seq(Frames), NEW p \in Seq(Frames)
  PROVE  \A i \in DOMAIN (q \o p) : \/ \E j \in DOMAIN q : (q \o p)[i] = q[j]
                                    \/ \E j \in DOMAIN p : (q \o p)[i] = p[j]
<1> SUFFICES ASSUME NEW i \in DOMAIN (q \o p)
             PROVE  \/ \E j \in DOMAIN q : (q \o p)[i] = q[j]
                    \/ \E j \in DOMAIN p : (q \o p)[i] = p[j]
  OBVIOUS
<1>1. /\ i \in 1..(Len(q) + Len(p)) /\ DOMAIN q = 1..Len(q) /\ DOMAIN p = 1..Len(p)
      /\ Len(q) \in Nat /\ Len(p) \in Nat
  BY ConcatIn
<1>2. CASE i <= Len(q)
  <2>1. i \in DOMAIN q
    BY <1>1, <1>2
  <2> QED
    BY <2>1, ConcatIn
<1>3. CASE ~(i <= Len(q))
  <2>1. i - Len(q) \in DOMAIN p /\ Len(q) + (i - Len(q)) = i
    BY <1>1, <1>3
  <2>2. (q \o p)[i] = p[i - Len(q)]
    BY <2>1, ConcatIn
  <2> QED
    BY <2>1, <2>2
<1> QED
  BY <1>2, <1>3

LEMMA TwoFrames ==
  ASSUME NEW F, NEW a \in F, NEW b \in F
  PROVE  LET p == <<a>> \o <<b>> IN DOMAIN p = 1..2 /\ p[1] = a /\ p[2] = b
OBVIOUS

LEMMA FromHello ==
  ASSUME NEW n \in Nodes, NEW e \in E2Es
  PROVE  \A i \in DOMAIN Hello(n, e) : Hello(n, e)[i].type \in {"K", "Q"}
                                       /\ Hello(n, e)[i].e2e = e
                                       /\ (Hello(n, e)[i].type = "Q" => n \in pq)
<1>1. /\ Frame("K", e).type = "K" /\ Frame("Q", e).type = "Q"
      /\ Frame("K", e).e2e = e /\ Frame("Q", e).e2e = e
  BY FrameTyped
<1>2. Frame("K", e) \in Frames /\ Frame("Q", e) \in Frames
  BY FrameTyped
<1>3. CASE n \in pq
  <2>1. Hello(n, e) = <<Frame("K", e)>> \o <<Frame("Q", e)>>
    BY <1>3 DEF Hello
  <2>2. /\ DOMAIN Hello(n, e) = 1..2
        /\ Hello(n, e)[1] = Frame("K", e) /\ Hello(n, e)[2] = Frame("Q", e)
    BY <1>2, <2>1, TwoFrames
  <2> QED
    BY <1>1, <1>3, <2>2
<1>4. CASE n \notin pq
  <2>1. Hello(n, e) = <<Frame("K", e)>> \o <<>>
    BY <1>4 DEF Hello
  <2>2. Hello(n, e) = <<Frame("K", e)>>
    BY <1>2, <2>1
  <2> QED
    BY <1>1, <2>2
<1> QED
  BY <1>3, <1>4

(* A sequence gives up its head, or all of it, or gets frames of others. *)
Grows(s, m, p) == wire'[s][m] = wire[s][m] \o p

LEMMA NoSecretIn ==
  ASSUME Shape, NEW s \in Streams, NEW m \in Nodes, NEW p \in Seq(Frames), Grows(s, m, p),
         \A i \in DOMAIN p : p[i].type # "X",
         NEW i \in DOMAIN wire'[s][m], wire'[s][m][i].type = "X"
  PROVE  \E j \in DOMAIN wire[s][m] : wire'[s][m][i] = wire[s][m][j]
<1>1. wire[s][m] \in Seq(Frames)
  BY DEF Shape
<1>2. \/ \E j \in DOMAIN wire[s][m] : wire'[s][m][i] = wire[s][m][j]
      \/ \E j \in DOMAIN p : wire'[s][m][i] = p[j]
  BY <1>1, FromConcat DEF Grows
<1> QED
  BY <1>2

LEMMA OneIsNone ==
  ASSUME NEW f \in Frames, f.type # "X"
  PROVE  <<f>> \in Seq(Frames) /\ \A i \in DOMAIN <<f>> : <<f>>[i].type # "X"
OBVIOUS

LEMMA RetreatsNoSecret ==
  ASSUME Shape, NEW n \in Nodes, Retreats(n)
  PROVE  NoNewSecret
<1> SUFFICES ASSUME NEW s \in Streams, NEW m \in Nodes, NEW i \in DOMAIN wire'[s][m],
                    wire'[s][m][i].type = "X"
             PROVE  \E j \in DOMAIN wire[s][m] : wire'[s][m][i] = wire[s][m][j]
  BY DEF NoNewSecret
<1>1. Shuts(n, s) \/ wire'[s] = wire[s]
  BY DEF Retreats
<1>2. CASE wire'[s][m] = wire[s][m]
  BY <1>2
<1>3. CASE wire'[s][m] = <<>>
  BY <1>3
<1>4. CASE \E f \in Frames : f.type = "QUIT" /\ wire'[s][m] = wire[s][m] \o <<f>>
  <2>1. PICK f \in Frames : f.type = "QUIT" /\ wire'[s][m] = wire[s][m] \o <<f>>
    BY <1>4
  <2> QED
    BY <2>1, NoSecretIn, OneIsNone DEF Grows
<1> QED
  BY <1>1, <1>2, <1>3, <1>4, Others DEF Shuts

LEMMA WritesNoSecret ==
  ASSUME Shape, NEW n \in Nodes, NEW s \in Streams, NEW p \in Seq(Frames),
         \A i \in DOMAIN p : p[i].type # "X",
         Write(s, n, p)
  PROVE  NoNewSecret
<1> SUFFICES ASSUME NEW r \in Streams, NEW m \in Nodes, NEW i \in DOMAIN wire'[r][m],
                    wire'[r][m][i].type = "X"
             PROVE  \E j \in DOMAIN wire[r][m] : wire'[r][m][i] = wire[r][m][j]
  BY DEF NoNewSecret
<1>1. wire'[r][m] = wire[r][m] \/ Grows(r, m, p)
  BY DEF Write, Shape, Grows
<1> QED
  BY <1>1, NoSecretIn

LEMMA ReadsNoSecret ==
  ASSUME Shape, NEW n \in Nodes, NEW s \in Streams, ReadsOther(n, s) \/ ReadsKey(n, s), Typed
  PROVE  NoNewSecret
<1> SUFFICES ASSUME NEW r \in Streams, NEW m \in Nodes, NEW i \in DOMAIN wire'[r][m],
                    wire'[r][m][i].type = "X"
             PROVE  \E j \in DOMAIN wire[r][m] : wire'[r][m][i] = wire[r][m][j]
  BY DEF NoNewSecret
<1>1. wire[s][n] \in Seq(Frames) /\ wire[s][n] # <<>> /\ Other(n) # n
  BY Others, SMTT(30) DEF ReadsOther, ReadsKey, Reads, Shape
<1>2. CASE wire' = [wire EXCEPT ![s][n] = Tail(@)]
  <2>1. wire'[r][m] = wire[r][m] \/ (r = s /\ m = n /\ wire'[r][m] = Tail(wire[r][m]))
    BY <1>2 DEF Shape
  <2>2. CASE r = s /\ m = n /\ wire'[r][m] = Tail(wire[r][m])
    BY <1>1, <2>2, FromTail
  <2> QED
    BY <2>1, <2>2
<1>3. CASE wire' = [[wire EXCEPT ![s][n] = Tail(@)] EXCEPT
                      ![s][Other(n)] = Append(@, Frame("Y", e2e'[n]))]
  <2>1. \/ wire'[r][m] = wire[r][m]
        \/ r = s /\ m = n /\ wire'[r][m] = Tail(wire[r][m])
        \/ wire'[r][m] = Append(wire[r][m], Frame("Y", e2e'[n]))
    BY <1>1, <1>3 DEF Shape
  <2>2. Frame("Y", e2e'[n]) \in Frames /\ Frame("Y", e2e'[n]).type = "Y"
    BY FrameTyped DEF Typed
  <2>3. Append(wire[r][m], Frame("Y", e2e'[n])) = wire[r][m] \o <<Frame("Y", e2e'[n])>>
    BY <2>2 DEF Shape
  <2>4. CASE Grows(r, m, <<Frame("Y", e2e'[n])>>)
    BY <2>2, <2>4, NoSecretIn, OneIsNone
  <2>5. CASE r = s /\ m = n /\ wire'[r][m] = Tail(wire[r][m])
    BY <1>1, <2>5, FromTail
  <2> QED
    BY <2>1, <2>3, <2>4, <2>5 DEF Grows
<1>4. \/ wire' = [wire EXCEPT ![s][n] = Tail(@)]
      \/ wire' = [[wire EXCEPT ![s][n] = Tail(@)] EXCEPT
                      ![s][Other(n)] = Append(@, Frame("Y", e2e'[n]))]
  BY DEF ReadsOther, ReadsKey
<1> QED
  BY <1>2, <1>3, <1>4


(* What a step may do to the secrets. *)
TakesSecret(n) ==
  /\ UNCHANGED <<secrets, renewed>> /\ NoNewSecret
  /\ \E s \in Streams : \E i \in DOMAIN wire[s][n] :
       wire[s][n][i].type = "X" /\ secret' = [secret EXCEPT ![n] = wire[s][n][i].val]

MakesSecret(n) == n = Low /\ conn[n] # None /\ SendSecret(n)

LEMMA SecretCases ==
  ASSUME Shape, IInv, FramesOK, Roles, Typed, [Next]_vars
  PROVE  \/ Quiet /\ NoNewSecret
         \/ \E n \in Nodes : Unlock(n) \/ TakesSecret(n) \/ MakesSecret(n)
<1>1. ASSUME NEW n \in Nodes, Dial(n) \/ Reach(n) \/ Listen(n) \/ Lock(n)
      PROVE  Quiet /\ NoNewSecret
  BY <1>1 DEF Dial, Reach, Listen, Lock, pairVars, netVars, Quiet, NoNewSecret
<1>2. ASSUME NEW n \in Nodes, DialFails(n) \/ Decline(n) \/ PendingEnded(n) \/ Disconnect(n)
                              \/ Exit(n) \/ ReceiveLoopEnds(n) \/ HeartbeatTimeout(n)
      PROVE  Quiet /\ NoNewSecret
  <2>1. Retreats(n)
    BY <1>2, DialFailsRetreats, EndPendingRetreats, DisconnectRetreats, ExitRetreats,
       ReceiveLoopRetreats, HeartbeatRetreats DEF Decline, PendingEnded
  <2>2. Quiet
    BY <1>2 DEF DialFails, Decline, PendingEnded, EndPending, Disconnect, HangUp, Exit,
       ReceiveLoopEnds, HeartbeatTimeout, pairVars, Quiet
  <2> QED
    BY <2>1, <2>2, RetreatsNoSecret
<1>3. ASSUME NEW n \in Nodes, Connected(n) PROVE Quiet /\ NoNewSecret
  <2> DEFINE hello == Hello(n, Fresh(n, dial[n]))
  <2>1. dial[n] \in Streams /\ Write(dial[n], n, hello) /\ Quiet
    BY <1>3 DEF Connected, pairVars, Quiet, Shape, CallTypes, Ends
  <2>2. Fresh(n, dial[n]) \in E2Es
    BY <2>1, FreshTyped DEF Ids
  <2>3. hello \in Seq(Frames) /\ \A i \in DOMAIN hello : hello[i].type # "X"
    BY <2>2, HelloTyped, FromHello
  <2> HIDE DEF hello
  <2> QED
    BY <2>1, <2>3, WritesNoSecret
<1>4. ASSUME NEW n \in Nodes, Identify(n) PROVE Quiet /\ NoNewSecret
  <2>1. Quiet
    BY <1>4 DEF Identify, pairVars, Quiet
  <2>2. ASSUME LetsRing(n), NEW s \in Streams, NEW m \in Nodes, NEW i \in DOMAIN wire'[s][m],
               wire'[s][m][i].type = "X"
        PROVE  \E j \in DOMAIN wire[s][m] : wire'[s][m][i] = wire[s][m][j]
    <3>1. CASE wire' = wire
      BY <2>2, <3>1
    <3>2. CASE dial[n] \in Streams /\ WriteAndClose(dial[n], n, <<>>)
      <4>1. Shuts(n, dial[n]) /\ \A r \in Streams : r # dial[n] => wire'[r] = wire[r]
        BY <3>2, ShutsHere
      <4>2. wire'[s] = wire[s] \/ (s = dial[n] /\ wire'[s][n] = <<>>)
        BY <4>1 DEF Shuts
      <4>3. wire'[dial[n]][Other(n)] = IF up[dial[n]] = Nodes THEN wire[dial[n]][Other(n)] \o <<>>
                                       ELSE wire[dial[n]][Other(n)]
        BY <3>2, Others DEF WriteAndClose, Shape
      <4>4. wire[dial[n]][Other(n)] \o <<>> = wire[dial[n]][Other(n)]
        BY <3>2, Others DEF Shape
      <4> QED
        BY <2>2, <4>2, <4>3, <4>4, Others
    <3> QED
      BY <2>2, <3>1, <3>2 DEF LetsRing, Close, Shape, CallTypes, Ends
  <2> QED
    BY <1>4, <2>1, <2>2, IdentifyStep, RetreatsNoSecret DEF NoNewSecret
<1>5. ASSUME NEW n \in Nodes, Accept(n) PROVE Quiet /\ NoNewSecret
  <2> DEFINE s == pending[n]
             hello == Hello(n, e2e[n])
  <2>1. s \in Streams /\ Quiet
    BY <1>5 DEF Accept, pairVars, Quiet, Shape, CallTypes, Ends
  <2>2. hello \in Seq(Frames) /\ (\A i \in DOMAIN hello : hello[i].type # "X")
    BY HelloTyped, FromHello DEF Shape
  <2>3. PICK rest \in {wire[s][n]} \cup (IF wire[s][n] = <<>> THEN {} ELSE {Tail(wire[s][n])}) :
            wire' = [wire EXCEPT ![s][n] = rest,
                                 ![s][Other(n)] = IF up[s] = Nodes THEN @ \o hello ELSE @]
    BY <1>5 DEF Accept
  <2> HIDE DEF hello, s
  <2>4. ASSUME NEW r \in Streams, NEW m \in Nodes, NEW i \in DOMAIN wire'[r][m],
               wire'[r][m][i].type = "X"
        PROVE  \E j \in DOMAIN wire[r][m] : wire'[r][m][i] = wire[r][m][j]
    <3>1. wire[r][m] \in Seq(Frames) /\ Other(n) # n /\ Other(n) \in Nodes
      BY Others DEF Shape
    <3>2. \/ wire'[r][m] = wire[r][m] \/ Grows(r, m, hello)
          \/ wire[r][m] # <<>> /\ wire'[r][m] = Tail(wire[r][m])
      BY <2>1, <2>3, <3>1 DEF Shape, Grows
    <3>3. CASE wire[r][m] # <<>> /\ wire'[r][m] = Tail(wire[r][m])
      BY <2>4, <3>1, <3>3, FromTail
    <3> QED
      BY <2>2, <2>4, <3>2, <3>3, NoSecretIn
  <2> QED
    BY <2>1, <2>4 DEF NoNewSecret
<1>6. ASSUME NEW n \in Nodes, Say(n) PROVE Quiet /\ NoNewSecret
  <2>1. conn[n] \in Streams /\ Quiet
    BY <1>6 DEF Say, pairVars, Quiet, Shape, CallTypes, Ends
  <2>2. CASE Write(conn[n], n, <<Frame("U", e2e[n])>>)
    <3>1. Frame("U", e2e[n]) \in Frames /\ Frame("U", e2e[n]).type # "X"
      BY FrameTyped DEF Shape
    <3> QED
      BY <2>1, <2>2, <3>1, OneIsNone, WritesNoSecret
  <2>3. CASE Close(conn[n], n)
    <3>1. WriteAndClose(conn[n], n, <<>>)
      BY <2>3 DEF Close
    <3>2. wire[conn[n]][Other(n)] \o <<>> = wire[conn[n]][Other(n)]
      BY <2>1, Others DEF Shape
    <3>3. \A s \in Streams, m \in Nodes : wire'[s][m] = wire[s][m] \/ wire'[s][m] = <<>>
      BY <2>1, <3>1, <3>2, Others DEF WriteAndClose, Shape
    <3>4. \A s \in Streams, m \in Nodes : DOMAIN <<>> = {}
      OBVIOUS
    <3> QED
      BY <2>1, <3>3, <3>4 DEF NoNewSecret
  <2> QED
    BY <1>6, <2>2, <2>3 DEF Say
<1>7. ASSUME NEW n \in Nodes, RunTask(n) PROVE (Quiet /\ NoNewSecret) \/ MakesSecret(n)
  <2>1. CASE CanSync(n) /\ Initiates(n) /\ SendSecret(n)
    BY <2>1 DEF MakesSecret, CanSync, Initiates
  <2>2. CASE /\ CanSync(n) /\ Write(conn[n], n, <<Frame("REQUEST", Fresh(n, None))>>)
             /\ UNCHANGED <<secret, secrets, renewed>>
    <3>1. /\ Frame("REQUEST", Fresh(n, None)) \in Frames
          /\ Frame("REQUEST", Fresh(n, None)).type # "X"
      BY FreshTyped, FrameTyped DEF Ids
    <3>2. conn[n] \in Streams
      BY <2>2 DEF CanSync, Shape, CallTypes, Ends
    <3> QED
      BY <2>2, <3>1, <3>2, OneIsNone, WritesNoSecret DEF Quiet
  <2>3. CASE UNCHANGED <<secret, secrets, renewed, up, wire>>
    BY <2>3 DEF Quiet, NoNewSecret
  <2> QED
    BY <1>7, <2>1, <2>2, <2>3 DEF RunTask
<1>8. ASSUME NEW n \in Nodes, NEW s \in Streams, Receive(n, s)
      PROVE  (Quiet /\ NoNewSecret) \/ TakesSecret(n)
  <2>1. NoNewSecret
    BY <1>8, ReceiveStep, RetreatsNoSecret, ReadsNoSecret
  <2>2. CASE EndPending(n)
    BY <2>1, <2>2 DEF EndPending, pairVars, Quiet
  <2> DEFINE f == Head(wire[s][n])
             q == [wire EXCEPT ![s][n] = Tail(@)]
  <2>3. CASE /\ UNCHANGED <<secrets, renewed>>
             /\ f.type = "X" /\ GetX(n, s, f, q)
    <3>1. wire[s][n] \in Seq(Frames) /\ wire[s][n] # <<>>
      BY <1>8 DEF Receive, Shape
    <3>2. f = wire[s][n][1] /\ 1 \in DOMAIN wire[s][n]
      BY <3>1, TailIn
    <3>3. secret' = secret \/ secret' = [secret EXCEPT ![n] = f.val]
      BY <2>3 DEF GetX
    <3> HIDE DEF f, q
    <3> QED
      BY <2>1, <2>3, <3>2, <3>3 DEF TakesSecret, Quiet
  <2>4. CASE /\ UNCHANGED <<secrets, renewed>>
             /\ \/ GetK(n, s, f, q) \/ GetQ(n, s, f, q) \/ GetY(n, s, f, q)
                \/ GetUnwanted(n, s, f, q) \/ GetU(n, s, f, q)
                \/ GetRequest(n, s, f, q) \/ GetQuit(n, s, f, q)
    <3>1. secret' = secret
      BY <2>4 DEF GetK, GetQ, GetY, GetUnwanted, GetU, GetRequest, GetQuit
    <3> QED
      BY <2>1, <2>4, <3>1 DEF Quiet
  <2> QED
    BY <1>8, <2>2, <2>3, <2>4 DEF Receive
<1>9. ASSUME NEW s \in Streams, Break(s) PROVE Quiet /\ NoNewSecret
  BY <1>9 DEF Break, pairVars, Quiet, NoNewSecret
<1>10. CASE UNCHANGED vars
  BY <1>10 DEF vars, pairVars, netVars, Quiet, NoNewSecret
<1> QED
  BY <1>1, <1>2, <1>3, <1>4, <1>5, <1>6, <1>7, <1>8, <1>9, <1>10 DEF Next


(* The secret goes from Low to High, one that was made; it is the one Low has, *)
(* if that was not made again while the one before was known or on its way.   *)
SecretOK(n, f) ==
  f.type = "X" =>
    n = High /\ f.val \in 1..secrets /\ (~renewed /\ secret[Low] # None => f.val = secret[Low])

SecretsOK ==
  /\ secrets \in Nat /\ secret \in [Nodes -> 0..secrets] /\ renewed \in BOOLEAN
  /\ \A s \in Streams, n \in Nodes : \A i \in DOMAIN wire[s][n] : SecretOK(n, wire[s][n][i])
  /\ ~renewed /\ secret[Low] # None => secret[High] \in {None, secret[Low]}

LEMMA SecretsStep ==
  ASSUME Shape, IInv, FramesOK, Roles, Typed, SecretsOK, [Next]_vars
  PROVE  SecretsOK'
<1>0. Low \in Nodes /\ High \in Nodes /\ Low # High /\ Other(Low) = High
  <2>1. Low \in Nodes /\ High \in Nodes /\ Low # High
    BY SessionAssumption DEF Nodes
  <2> QED
    BY <2>1, Others DEF Nodes
<1>1. CASE Quiet /\ NoNewSecret
  <2>1. ASSUME NEW s \in Streams, NEW n \in Nodes, NEW i \in DOMAIN wire'[s][n]
        PROVE  SecretOK(n, wire[s][n][i])'
    <3>1. CASE wire'[s][n][i].type = "X"
      <4>1. PICK j \in DOMAIN wire[s][n] : wire'[s][n][i] = wire[s][n][j]
        BY <1>1, <3>1 DEF NoNewSecret
      <4> QED
        BY <1>1, <4>1 DEF SecretsOK, SecretOK, Quiet
    <3> QED
      BY <3>1 DEF SecretOK
  <2> QED
    BY <1>1, <2>1 DEF SecretsOK, Quiet
<1>2. ASSUME NEW n \in Nodes, Unlock(n) PROVE SecretsOK'
  <2>1. /\ secret' = [secret EXCEPT ![n] = None] /\ UNCHANGED <<secrets, renewed, wire>>
    BY <1>2 DEF Unlock, netVars
  <2>2. secret'[Low] \in {secret[Low], None} /\ secret'[High] \in {secret[High], None}
        /\ secret' \in [Nodes -> 0..secrets]
    BY <1>0, <2>1 DEF SecretsOK, None
  <2> QED
    BY <2>1, <2>2 DEF SecretsOK, SecretOK
<1>3. ASSUME NEW n \in Nodes, TakesSecret(n) PROVE SecretsOK'
  <2>1. PICK s \in Streams : \E i \in DOMAIN wire[s][n] :
          wire[s][n][i].type = "X" /\ secret' = [secret EXCEPT ![n] = wire[s][n][i].val]
    BY <1>3 DEF TakesSecret
  <2>2. PICK i \in DOMAIN wire[s][n] :
          wire[s][n][i].type = "X" /\ secret' = [secret EXCEPT ![n] = wire[s][n][i].val]
    BY <2>1
  <2> DEFINE v == wire[s][n][i].val
  <2>3. n = High /\ v \in 1..secrets /\ (~renewed /\ secret[Low] # None => v = secret[Low])
    BY <2>2 DEF SecretsOK, SecretOK
  <2> HIDE DEF v
  <2>4. secret'[Low] = secret[Low] /\ secret'[High] = v /\ secret' \in [Nodes -> 0..secrets]
    BY <1>0, <2>2, <2>3 DEF v, SecretsOK
  <2>5. ASSUME NEW r \in Streams, NEW m \in Nodes, NEW k \in DOMAIN wire'[r][m]
        PROVE  SecretOK(m, wire[r][m][k])'
    <3>1. CASE wire'[r][m][k].type = "X"
      <4>1. PICK j \in DOMAIN wire[r][m] : wire'[r][m][k] = wire[r][m][j]
        BY <1>3, <3>1 DEF TakesSecret, NoNewSecret
      <4> QED
        BY <1>3, <2>4, <4>1 DEF SecretsOK, SecretOK, TakesSecret
    <3> QED
      BY <3>1 DEF SecretOK
  <2> QED
    BY <1>3, <2>3, <2>4, <2>5 DEF SecretsOK, TakesSecret
<1>4. ASSUME NEW n \in Nodes, MakesSecret(n) PROVE SecretsOK'
  <2> DEFINE own == IF secret[n] # None THEN secret[n] ELSE secrets + 1
             f   == [Frame("X", e2e[n]) EXCEPT !.val = own]
             s   == conn[n]
  <2>1. /\ n = Low /\ s \in Streams
        /\ secret' = [secret EXCEPT ![n] = own]
        /\ secrets' = IF secret[n] # None THEN secrets ELSE secrets + 1
        /\ renewed' = (renewed \/ (secret[n] = None /\ OldSecret(High)))
        /\ Write(s, n, <<f>>)
    BY <1>0, <1>4 DEF MakesSecret, SendSecret, Shape, CallTypes, Ends
  <2>2. own \in 1..secrets' /\ secrets' \in Nat /\ secrets <= secrets'
    BY <2>1 DEF SecretsOK, None
  <2>3. f.type = "X" /\ f.val = own /\ f \in Frames
    <3>1. own \in Nat
      BY <2>2
    <3> HIDE DEF own
    <3>2. Frame("X", e2e[n]) \in Frames /\ Frame("X", e2e[n]).type = "X"
      BY FrameTyped DEF Shape
    <3> QED
      BY <3>1, <3>2 DEF Frames
  <2> HIDE DEF own, f, s
  <2>4. secret'[Low] = own /\ secret'[High] = secret[High] /\ secret' \in [Nodes -> 0..secrets']
    BY <1>0, <2>1, <2>2 DEF SecretsOK
  <2>5. ASSUME ~renewed'
        PROVE  secret[High] \in {None, own}
               /\ \A r \in Streams, m \in Nodes : \A k \in DOMAIN wire[r][m] :
                    wire[r][m][k].type = "X" => m = High /\ wire[r][m][k].val = own
    <3>1. CASE secret[n] # None
      <4>1. own = secret[Low] /\ ~renewed
        BY <2>1, <2>5, <3>1 DEF own, SecretsOK
      <4> QED
        BY <2>1, <3>1, <4>1 DEF SecretsOK, SecretOK
    <3>2. CASE secret[n] = None
      <4>1. ~OldSecret(High)
        BY <2>1, <2>5, <3>2
      <4> QED
        BY <4>1 DEF OldSecret, SecretsOK, SecretOK
    <3> QED
      BY <3>1, <3>2
  <2>6. ASSUME NEW r \in Streams, NEW m \in Nodes, NEW k \in DOMAIN wire'[r][m]
        PROVE  SecretOK(m, wire[r][m][k])'
    <3>1. wire'[r][m] = wire[r][m] \/ (m = High /\ Grows(r, m, <<f>>))
      BY <1>0, <2>1 DEF Write, Shape, Grows
    <3>2. ASSUME NEW j \in DOMAIN wire[r][m], wire'[r][m][k] = wire[r][m][j]
          PROVE  SecretOK(m, wire[r][m][k])'
      <4>1. SecretOK(m, wire[r][m][j])
        BY DEF SecretsOK
      <4>2. ASSUME wire[r][m][j].type = "X" PROVE wire[r][m][j].val \in 1..secrets'
        BY <2>2, <4>1, <4>2 DEF SecretOK, SecretsOK
      <4> QED
        BY <2>4, <2>5, <3>2, <4>1, <4>2 DEF SecretOK
    <3>3. CASE Grows(r, m, <<f>>) /\ m = High
      <4>1. wire[r][m] \in Seq(Frames) /\ <<f>> \in Seq(Frames)
        BY <2>3 DEF Shape
      <4>2. \/ \E j \in DOMAIN wire[r][m] : wire'[r][m][k] = wire[r][m][j]
            \/ \E j \in DOMAIN <<f>> : wire'[r][m][k] = <<f>>[j]
        BY <3>3, <4>1, FromConcat DEF Grows
      <4>3. \A j \in DOMAIN <<f>> : <<f>>[j] = f
        BY <2>3
      <4>4. CASE wire'[r][m][k] = f
        BY <2>2, <2>3, <2>4, <3>3, <4>4 DEF SecretOK
      <4> QED
        BY <3>2, <4>2, <4>3, <4>4
    <3> QED
      BY <3>1, <3>2, <3>3
  <2>7. renewed' \in BOOLEAN
    BY <2>1
  <2> QED
    BY <2>2, <2>4, <2>5, <2>6, <2>7 DEF SecretsOK
<1> QED
  BY <1>1, <1>2, <1>3, <1>4, SecretCases


-----------------------------------------------------------------------------
(***************************************************************************)
(* Who calls whom                                                          *)
(***************************************************************************)
(* A stream that no one has been told of yet. *)
Untouched(s) ==
  /\ up[s] = {} /\ s \notin torn /\ s \notin early
  /\ \A n \in Nodes : wire[s][n] = <<>> /\ ~Holds(n, s) /\ offer[n] # s

Unused ==
  \A s \in Streams :
    /\ s <= budget.calls => Untouched(s) /\ \A n \in Nodes : dial[n] # s
    /\ \A n \in Nodes : dial[n] = s => n \in up[s] \/ Untouched(s)

(* The new call. *)
LEMMA DialFacts ==
  ASSUME Shape, Unused, NEW n \in Nodes, Dial(n)
  PROVE  /\ budget.calls \in Streams /\ Untouched(budget.calls)
         /\ budget'.calls = budget.calls - 1 /\ budget.calls \in Nat
         /\ dial' = [dial EXCEPT ![n] = budget.calls]
         /\ caller' = [caller EXCEPT ![budget.calls] = n]
         /\ conn[n] = None /\ pending[n] = None /\ dial[n] = None
         /\ UNCHANGED <<pq, conn, pending, offer, e2e, live, up, wire, torn, early>>
         /\ \A m \in Nodes : dial[m] # budget.calls
<1>1. budget.calls > 0 /\ budget' = [budget EXCEPT !.calls = @ - 1] /\ budget.calls \in 0..MaxCalls
  BY DEF Dial, Spend, Shape, CallTypes
<1>2. budget.calls \in Streams /\ budget.calls \in Nat /\ budget'.calls = budget.calls - 1
  BY <1>1, SessionAssumption DEF Streams, Shape, CallTypes
<1>3. Untouched(budget.calls) /\ \A m \in Nodes : dial[m] # budget.calls
  BY <1>2 DEF Unused
<1> QED
  BY <1>2, <1>3 DEF Dial, histVars

LEMMA AcceptFacts ==
  ASSUME Shape, IInv, NEW n \in Nodes, Accept(n)
  PROVE  /\ pending[n] \in Streams /\ conn[n] = None /\ dial[n] = None /\ offer[n] = None
         /\ conn' = [conn EXCEPT ![n] = pending[n]] /\ pending' = [pending EXCEPT ![n] = None]
         /\ live' = [live EXCEPT ![n] = Ready(n, e2e[n])]
         /\ UNCHANGED <<pq, dial, offer, e2e, caller, up, budget>>
         /\ early' = IF n \in pq /\ e2e[n].kem = NoKem THEN early \cup {pending[n]} ELSE early
         /\ \A r \in Streams : r # pending[n] => wire'[r] = wire[r] /\ (r \in torn' <=> r \in torn)
         /\ \/ wire'[pending[n]][n] = wire[pending[n]][n] /\ torn' = torn
            \/ /\ wire[pending[n]][n] # <<>> /\ torn' = torn \cup {pending[n]}
               /\ wire'[pending[n]][n] = Tail(wire[pending[n]][n])
         /\ wire'[pending[n]][Other(n)] =
              IF up[pending[n]] = Nodes THEN wire[pending[n]][Other(n)] \o Hello(n, e2e[n])
              ELSE wire[pending[n]][Other(n)]
<1>1. pending[n] \in Streams /\ conn[n] = None /\ dial[n] = None /\ offer[n] = None
  BY NoneIsNoStream DEF Accept, Shape, CallTypes, Ends, IInv, OneCallAtATime, OneOffer
<1>2. /\ conn' = [conn EXCEPT ![n] = pending[n]] /\ pending' = [pending EXCEPT ![n] = None]
      /\ live' = [live EXCEPT ![n] = Ready(n, e2e[n])]
      /\ UNCHANGED <<pq, dial, offer, e2e, caller, up, budget>>
      /\ early' = IF n \in pq /\ e2e[n].kem = NoKem THEN early \cup {pending[n]} ELSE early
  BY DEF Accept
<1> DEFINE s == pending[n]
<1>3. PICK rest \in {wire[s][n]} \cup (IF wire[s][n] = <<>> THEN {} ELSE {Tail(wire[s][n])}) :
        /\ wire' = [wire EXCEPT ![s][n] = rest,
                                ![s][Other(n)] = IF up[s] = Nodes THEN @ \o Hello(n, e2e[n])
                                                 ELSE @]
        /\ torn' = IF rest = wire[s][n] THEN torn ELSE torn \cup {s}
  BY DEF Accept
<1> HIDE DEF s
<1>4. Other(n) \in Nodes /\ Other(n) # n /\ s \in Streams
  BY <1>1, Others DEF s
<1>5. \A r \in Streams : r # s => wire'[r] = wire[r] /\ (r \in torn' <=> r \in torn)
  BY <1>3, <1>4 DEF Shape
<1>6. /\ wire'[s][n] = rest
      /\ wire'[s][Other(n)] = IF up[s] = Nodes THEN wire[s][Other(n)] \o Hello(n, e2e[n])
                              ELSE wire[s][Other(n)]
  BY <1>3, <1>4 DEF Shape
<1>7. \/ wire'[s][n] = wire[s][n] /\ torn' = torn
      \/ wire[s][n] # <<>> /\ torn' = torn \cup {s} /\ wire'[s][n] = Tail(wire[s][n])
  BY <1>3, <1>6
<1> QED
  BY <1>1, <1>2, <1>5, <1>6, <1>7 DEF s

LEMMA ConnectedFacts ==
  ASSUME Shape, IInv, NEW n \in Nodes, Connected(n)
  PROVE  /\ dial[n] \in Streams /\ n \in up[dial[n]] /\ conn[n] = None /\ pending[n] = None
         /\ dial' = [dial EXCEPT ![n] = None] /\ conn' = [conn EXCEPT ![n] = dial[n]]
         /\ e2e' = [e2e EXCEPT ![n] = Fresh(n, dial[n])] /\ live' = [live EXCEPT ![n] = FALSE]
         /\ UNCHANGED <<pq, pending, offer, caller, up, budget, torn, early>>
         /\ \A r \in Streams : r # dial[n] => wire'[r] = wire[r]
         /\ wire'[dial[n]][n] = wire[dial[n]][n]
         /\ wire'[dial[n]][Other(n)] =
              IF up[dial[n]] = Nodes
              THEN wire[dial[n]][Other(n)] \o Hello(n, Fresh(n, dial[n]))
              ELSE wire[dial[n]][Other(n)]
<1>1. dial[n] \in Streams /\ n \in up[dial[n]] /\ conn[n] = None /\ pending[n] = None
  BY NoneIsNoStream DEF Connected, Shape, CallTypes, Ends, IInv, OneCallAtATime
<1>2. /\ dial' = [dial EXCEPT ![n] = None] /\ conn' = [conn EXCEPT ![n] = dial[n]]
      /\ e2e' = [e2e EXCEPT ![n] = Fresh(n, dial[n])] /\ live' = [live EXCEPT ![n] = FALSE]
      /\ UNCHANGED <<pq, pending, offer, caller, up, budget, torn, early>>
  BY DEF Connected, Reset, Write, histVars
<1>3. Write(dial[n], n, Hello(n, Fresh(n, dial[n])))
  BY DEF Connected
<1>4. Other(n) \in Nodes /\ Other(n) # n
  BY Others
<1>5. /\ \A r \in Streams : r # dial[n] => wire'[r] = wire[r]
      /\ wire'[dial[n]][n] = wire[dial[n]][n]
      /\ wire'[dial[n]][Other(n)] =
              IF up[dial[n]] = Nodes
              THEN wire[dial[n]][Other(n)] \o Hello(n, Fresh(n, dial[n]))
              ELSE wire[dial[n]][Other(n)]
  BY <1>1, <1>3, <1>4 DEF Write, Shape
<1> QED
  BY <1>1, <1>2, <1>5

LEMMA RingFacts ==
  ASSUME Shape, IInv, NEW n \in Nodes, LetsRing(n)
  PROVE  /\ offer[n] \in Streams /\ conn[n] = None /\ pending[n] = None
         /\ offer' = [offer EXCEPT ![n] = None] /\ dial' = [dial EXCEPT ![n] = None]
         /\ pending' = [pending EXCEPT ![n] = offer[n]]
         /\ e2e' = [e2e EXCEPT ![n] = Fresh(n, offer[n])] /\ live' = [live EXCEPT ![n] = FALSE]
         /\ UNCHANGED <<pq, conn, caller, torn, early>> /\ budget'.calls = budget.calls
         /\ \A r \in Streams :
              \/ up'[r] = up[r] /\ wire'[r] = wire[r]
              \/ /\ r = dial[n] /\ up'[r] = up[r] \ {n}
                 /\ wire'[r][n] = <<>> /\ wire'[r][Other(n)] = wire[r][Other(n)]
<1>1. offer[n] \in Streams /\ conn[n] = None /\ pending[n] = None
  BY NoneIsNoStream DEF LetsRing, IInv, OneOffer
<1>2. ASSUME NEW r \in Streams
      PROVE  \/ up'[r] = up[r] /\ wire'[r] = wire[r]
             \/ /\ r = dial[n] /\ up'[r] = up[r] \ {n}
                /\ wire'[r][n] = <<>> /\ wire'[r][Other(n)] = wire[r][Other(n)]
  <2>1. CASE dial[n] = None
    BY <2>1 DEF LetsRing
  <2>2. CASE dial[n] \in Streams
    <3>1. WriteAndClose(dial[n], n, <<>>)
      BY <2>2, NoneIsNoStream DEF LetsRing, Close
    <3>2. Other(n) \in Nodes /\ Other(n) # n /\ wire[dial[n]][Other(n)] \in Seq(Frames)
      BY <2>2, Others DEF Shape
    <3>3. wire[dial[n]][Other(n)] \o <<>> = wire[dial[n]][Other(n)]
      BY <3>2
    <3> QED
      BY <2>2, <3>1, <3>2, <3>3 DEF WriteAndClose, Shape, CallTypes
  <2> QED
    BY <2>1, <2>2 DEF Shape, CallTypes, Ends
<1> QED
  BY <1>1, <1>2 DEF LetsRing, Reset

LEMMA ReachFacts ==
  ASSUME Shape, NEW n \in Nodes, Reach(n)
  PROVE  /\ dial[n] \in Streams /\ up[dial[n]] = {} /\ listening[Other(n)]
         /\ up' = [up EXCEPT ![dial[n]] = Nodes]
         /\ offer' = [offer EXCEPT ![Other(n)] = dial[n]]
         /\ UNCHANGED <<pq, conn, pending, dial, e2e, live, caller, wire, torn, early>>
         /\ budget'.calls = budget.calls
BY DEF Reach, histVars, Shape, CallTypes, Ends

(* What is told goes to the other end. *)
LEMMA TellFacts ==
  ASSUME Shape, NEW n \in Nodes, NEW f \in Frames, Tells(n, f)
  PROVE  /\ \A r \in Streams : r # conn[n] => wire'[r] = wire[r]
         /\ wire'[conn[n]][n] = wire[conn[n]][n]
         /\ wire'[conn[n]][Other(n)] = wire[conn[n]][Other(n)] \o <<f>>
BY Others DEF Tells, Shape

(* What is read is taken from the front; a Q is answered with a Y. *)
Takes(n, s) ==
  /\ \A r \in Streams : r # s => wire'[r] = wire[r]
  /\ wire[s][n] # <<>> /\ wire'[s][n] = Tail(wire[s][n])

LEMMA OtherReadFacts ==
  ASSUME Shape, NEW n \in Nodes, NEW s \in Streams, ReadsOther(n, s)
  PROVE  Takes(n, s) /\ wire'[s][Other(n)] = wire[s][Other(n)]
BY Others DEF ReadsOther, Reads, Takes, Shape

LEMMA AppendOne ==
  ASSUME NEW F, NEW q \in Seq(F), NEW f \in F
  PROVE  Append(q, f) = q \o <<f>>
OBVIOUS

LEMMA KeyReadFacts ==
  ASSUME Shape, Typed, NEW n \in Nodes, NEW s \in Streams, ReadsKey(n, s)
  PROVE  /\ Takes(n, s)
         /\ \/ /\ wire'[s][Other(n)] = wire[s][Other(n)]
               /\ ~(up[s] = Nodes /\ Head(wire[s][n]).type = "Q")
            \/ /\ up[s] = Nodes /\ Head(wire[s][n]).type = "Q"
               /\ wire'[s][Other(n)] = wire[s][Other(n)] \o <<Frame("Y", e2e'[n])>>
<1>1. Other(n) \in Nodes /\ Other(n) # n /\ wire[s][Other(n)] \in Seq(Frames)
      /\ wire[s][n] # <<>>
  BY Others, SMTT(30) DEF ReadsKey, Reads, Shape
<1>2. CASE /\ wire' = [wire EXCEPT ![s][n] = Tail(@)]
           /\ ~(up[s] = Nodes /\ Head(wire[s][n]).type = "Q")
  BY <1>1, <1>2 DEF Takes, Shape
<1>3. CASE /\ up[s] = Nodes /\ Head(wire[s][n]).type = "Q"
           /\ wire' = [[wire EXCEPT ![s][n] = Tail(@)] EXCEPT
                         ![s][Other(n)] = Append(@, Frame("Y", e2e'[n]))]
  <2>1. Frame("Y", e2e'[n]) \in Frames
    BY FrameTyped DEF Typed
  <2>2. wire'[s][Other(n)] = Append(wire[s][Other(n)], Frame("Y", e2e'[n]))
    BY <1>1, <1>3 DEF Shape
  <2>3. wire'[s][Other(n)] = wire[s][Other(n)] \o <<Frame("Y", e2e'[n])>>
    BY <1>1, <2>1, <2>2, AppendOne
  <2>4. Takes(n, s)
    BY <1>1, <1>3 DEF Takes, Shape
  <2> QED
    BY <1>3, <2>3, <2>4
<1>4. \/ /\ wire' = [wire EXCEPT ![s][n] = Tail(@)]
         /\ ~(up[s] = Nodes /\ Head(wire[s][n]).type = "Q")
      \/ /\ up[s] = Nodes /\ Head(wire[s][n]).type = "Q"
         /\ wire' = [[wire EXCEPT ![s][n] = Tail(@)] EXCEPT
                         ![s][Other(n)] = Append(@, Frame("Y", e2e'[n]))]
  BY DEF ReadsKey
<1> QED
  BY <1>2, <1>3, <1>4


(* A step is idle, or is one of a program, whose calls it changes.  *)
LEMMA UnusedStep ==
  ASSUME Shape, Shape', IInv, IInv', Roles, Unused, Typed, Idle \/ \E n \in Nodes : StepOf(n)
  PROVE  Roles' /\ Unused'
<1> USE DEF Holds
<1>1. CASE Idle
  BY <1>1 DEF Idle, callVars, Roles, Unused, Untouched
<1>2. ASSUME NEW n \in Nodes, Dial(n) PROVE Roles' /\ Unused'
  <2>1. /\ budget.calls \in Streams /\ Untouched(budget.calls)
        /\ budget'.calls = budget.calls - 1 /\ budget.calls \in Nat
        /\ dial' = [dial EXCEPT ![n] = budget.calls]
        /\ caller' = [caller EXCEPT ![budget.calls] = n]
        /\ UNCHANGED <<conn, pending, offer, up, wire, torn, early>>
        /\ \A m \in Nodes : dial[m] # budget.calls
    BY <1>2, DialFacts
  <2>5. /\ \A m \in Nodes : dial'[m] = IF m = n THEN budget.calls ELSE dial[m]
        /\ \A s \in Streams : caller'[s] = IF s = budget.calls THEN n ELSE caller[s]
    BY <2>1 DEF Shape, CallTypes
  <2>2. Roles'
    BY <2>1, <2>5 DEF Roles, Untouched
  <2>3. \A s \in Streams : Untouched(s) <=> Untouched(s)'
    BY <2>1 DEF Untouched
  <2>4. ASSUME NEW s \in Streams, s <= budget'.calls
        PROVE  s <= budget.calls /\ s # budget.calls
    BY <2>1, <2>4 DEF Streams
  <2> QED
    BY <2>1, <2>2, <2>3, <2>4, <2>5 DEF Unused
<1>3. ASSUME NEW n \in Nodes, Reach(n) PROVE Roles' /\ Unused'
  <2>1. /\ dial[n] \in Streams /\ up[dial[n]] = {}
        /\ up' = [up EXCEPT ![dial[n]] = Nodes]
        /\ offer' = [offer EXCEPT ![Other(n)] = dial[n]]
        /\ UNCHANGED <<conn, pending, dial, caller, wire, torn, early>>
        /\ budget'.calls = budget.calls
    BY <1>3, ReachFacts
  <2>2. Untouched(dial[n]) /\ ~(dial[n] <= budget.calls)
    BY <2>1 DEF Unused
  <2>3. Other(n) \in Nodes /\ Other(n) # n
    BY Others
  <2>7. \A m \in Nodes : offer'[m] = IF m = Other(n) THEN dial[n] ELSE offer[m]
    BY <2>1, <2>3 DEF Shape, CallTypes
  <2>4. Roles'
    BY <2>1, <2>2, <2>3, <2>7 DEF Roles, Untouched
  <2>5. \A s \in Streams : s # dial[n] /\ Untouched(s) => Untouched(s)'
    <3>1. \A s \in Streams : s # dial[n] => up'[s] = up[s]
      BY <2>1 DEF Shape, CallTypes
    <3> QED
      BY <2>1, <2>7, <3>1 DEF Untouched
  <2>6. up'[dial[n]] = Nodes /\ \A s \in Streams : s # dial[n] => up'[s] = up[s]
    BY <2>1 DEF Shape, CallTypes
  <2>8. n \in up'[dial[n]] /\ \A m \in Nodes : dial[m] = dial[n] => m \in up'[dial[n]]
    BY <2>6
  <2> QED
    BY <2>1, <2>2, <2>4, <2>5, <2>6, <2>8 DEF Unused
<1>4. ASSUME NEW n \in Nodes, Connected(n) PROVE Roles' /\ Unused'
  <2>1. /\ dial[n] \in Streams /\ n \in up[dial[n]]
        /\ dial' = [dial EXCEPT ![n] = None] /\ conn' = [conn EXCEPT ![n] = dial[n]]
        /\ UNCHANGED <<pending, offer, caller, up, budget, torn, early>>
        /\ \A r \in Streams : r # dial[n] => wire'[r] = wire[r]
    BY <1>4, ConnectedFacts
  <2>2. ~Untouched(dial[n]) /\ ~(dial[n] <= budget.calls)
    BY <2>1 DEF Unused, Untouched
  <2>5. /\ \A m \in Nodes : dial'[m] = IF m = n THEN None ELSE dial[m]
        /\ \A m \in Nodes : conn'[m] = IF m = n THEN dial[n] ELSE conn[m]
    BY <2>1 DEF Shape, CallTypes
  <2>3. Roles'
    BY <2>1, <2>5, NoneIsNoStream DEF Roles
  <2>4. \A s \in Streams : s # dial[n] /\ Untouched(s) => Untouched(s)'
    BY <2>1, <2>5 DEF Untouched
  <2> QED
    BY <2>1, <2>2, <2>3, <2>4, <2>5, NoneIsNoStream DEF Unused
<1>5. ASSUME NEW n \in Nodes, LetsRing(n) PROVE Roles' /\ Unused'
  <2>1. /\ offer[n] \in Streams /\ conn[n] = None
        /\ offer' = [offer EXCEPT ![n] = None] /\ dial' = [dial EXCEPT ![n] = None]
        /\ pending' = [pending EXCEPT ![n] = offer[n]]
        /\ UNCHANGED <<conn, caller, torn, early>> /\ budget'.calls = budget.calls
        /\ \A r \in Streams :
             \/ up'[r] = up[r] /\ wire'[r] = wire[r]
             \/ /\ r = dial[n] /\ up'[r] = up[r] \ {n}
                /\ wire'[r][n] = <<>> /\ wire'[r][Other(n)] = wire[r][Other(n)]
    BY <1>5, RingFacts
  <2>2. Nodes = {n, Other(n)}
    BY Others
  <2>7. /\ \A m \in Nodes : dial'[m] = IF m = n THEN None ELSE dial[m]
        /\ \A m \in Nodes : offer'[m] = IF m = n THEN None ELSE offer[m]
        /\ \A m \in Nodes : pending'[m] = IF m = n THEN offer[n] ELSE pending[m]
    BY <2>1 DEF Shape, CallTypes
  <2>3. Roles'
    BY <2>1, <2>7, NoneIsNoStream DEF Roles
  <2>4. ASSUME NEW s \in Streams, Untouched(s) PROVE Untouched(s)'
    <3>1. up'[s] = {} /\ \A m \in Nodes : wire'[s][m] = <<>>
      BY <2>1, <2>2, <2>4 DEF Untouched
    <3>2. offer[n] # s
      BY <2>4 DEF Untouched
    <3> QED
      BY <2>1, <2>4, <2>7, <3>1, <3>2, NoneIsNoStream DEF Untouched
  <2>5. \A s \in Streams, m \in Nodes : dial'[m] = s => dial[m] = s /\ m # n
    BY <2>7, NoneIsNoStream
  <2>6. \A s \in Streams, m \in Nodes : m # n /\ m \in up[s] => m \in up'[s]
    BY <2>1
  <2> QED
    BY <2>1, <2>3, <2>4, <2>5, <2>6 DEF Unused
<1>6. ASSUME NEW n \in Nodes, Accept(n) PROVE Roles' /\ Unused'
  <2>1. /\ pending[n] \in Streams
        /\ conn' = [conn EXCEPT ![n] = pending[n]] /\ pending' = [pending EXCEPT ![n] = None]
        /\ UNCHANGED <<dial, offer, caller, up, budget>> /\ offer[n] = None
        /\ early' \subseteq early \cup {pending[n]}
        /\ \A r \in Streams : r # pending[n] => wire'[r] = wire[r] /\ (r \in torn' <=> r \in torn)
    BY <1>6, AcceptFacts
  <2>2. ~Untouched(pending[n])
    BY <2>1 DEF Untouched
  <2>5. /\ \A m \in Nodes : conn'[m] = IF m = n THEN pending[n] ELSE conn[m]
        /\ \A m \in Nodes : pending'[m] = IF m = n THEN None ELSE pending[m]
    BY <2>1 DEF Shape, CallTypes
  <2>3. Roles'
    BY <2>1, <2>5, NoneIsNoStream DEF Roles
  <2>4. ASSUME NEW s \in Streams, s # pending[n], Untouched(s) PROVE Untouched(s)'
    <3>1. wire'[s] = wire[s] /\ s \notin torn' /\ s \notin early'
      BY <2>1, <2>4 DEF Untouched
    <3> QED
      BY <2>1, <2>4, <2>5, <3>1, NoneIsNoStream DEF Untouched
  <2> QED
    BY <2>1, <2>2, <2>3, <2>4 DEF Unused
<1>7. ASSUME NEW n \in Nodes, Retreats(n) PROVE Roles' /\ Unused'
  <2>1. \A m \in Nodes, s \in Streams :
          /\ dial'[m] = s => dial[m] = s
          /\ pending'[m] = s => pending[m] = s
          /\ offer'[m] = s => offer[m] = s
    BY <1>7, NoneIsNoStream DEF Retreats, Alone
  <2>1a. \A m \in Nodes, s \in Streams : conn'[m] = s => conn[m] = s
    BY <1>7, NoneIsNoStream DEF Retreats, Alone
  <2>2. UNCHANGED <<caller, torn, early>> /\ budget'.calls = budget.calls
    BY <1>7 DEF Retreats
  <2>3. Roles'
    BY <2>1, <2>1a, <2>2 DEF Roles
  <2>4. ASSUME NEW s \in Streams, Untouched(s) PROVE Untouched(s)'
    <3>1. up'[s] = {} /\ \A m \in Nodes : wire'[s][m] = <<>>
      <4>1. up[s] # Nodes
        BY <2>4 DEF Untouched
      <4>2. up[s] = {} /\ wire[s][n] = <<>> /\ wire[s][Other(n)] = <<>>
        BY <2>4, Others DEF Untouched
      <4>3. Shuts(n, s) \/ (up'[s] = up[s] /\ wire'[s] = wire[s])
        BY <1>7 DEF Retreats
      <4> QED
        BY <4>1, <4>2, <4>3, Others DEF Shuts
    <3> QED
      BY <2>1, <2>1a, <2>2, <2>4, <3>1 DEF Untouched
  <2>5. ASSUME NEW s \in Streams, NEW m \in Nodes, dial'[m] = s, m \in up[s] PROVE m \in up'[s]
    <3>1. CASE m = n
      BY <1>7, <2>5, <3>1 DEF Retreats
    <3>2. CASE m # n
      BY <1>7, <2>5, <3>2 DEF Retreats, Shuts
    <3> QED
      BY <3>1, <3>2
  <2> QED
    BY <2>1, <2>2, <2>3, <2>4, <2>5 DEF Unused
<1>8. ASSUME NEW n \in Nodes, NEW r \in Streams, Holds(n, r),
             \A q \in Streams : q # r => wire'[q] = wire[q],
             UNCHANGED <<conn, pending, dial, offer, caller, up, torn, early>>,
             budget'.calls = budget.calls
      PROVE  Roles' /\ Unused'
  <2>1. Roles'
    BY <1>8 DEF Roles
  <2>2. ~Untouched(r)
    BY <1>8 DEF Untouched
  <2>3. \A s \in Streams : s # r /\ Untouched(s) => Untouched(s)'
    BY <1>8 DEF Untouched
  <2> QED
    BY <1>8, <2>1, <2>2, <2>3 DEF Unused
<1>9. ASSUME NEW n \in Nodes, NEW f \in Frames, Tells(n, f) PROVE Roles' /\ Unused'
  BY <1>8, <1>9, TellFacts DEF Tells
<1>10. ASSUME NEW n \in Nodes, NEW s \in Streams, ReadsOther(n, s) \/ ReadsKey(n, s)
       PROVE  Roles' /\ Unused'
  <2>1. Reads(n, s) /\ Takes(n, s)
    BY <1>10, OtherReadFacts, KeyReadFacts DEF ReadsOther, ReadsKey
  <2> QED
    BY <1>8, <2>1 DEF Reads, Reading, Takes
<1> QED
  BY <1>1, <1>2, <1>3, <1>4, <1>5, <1>6, <1>7, <1>9, <1>10 DEF StepOf


-----------------------------------------------------------------------------
(***************************************************************************)
(* Keys                                                                    *)
(***************************************************************************)
(* The keys of a call belong to its stream, and only two programs with --pq  *)
(* have a PQ secret.                                                         *)
KeysOK ==
  \A n \in Nodes :
    /\ live[n] => Ready(n, e2e[n])
    /\ \A s \in Streams : Holds(n, s) =>
         /\ e2e[n].keys[n] = s /\ e2e[n].keys[Other(n)] \in {Unknown, s}
         /\ e2e[n].kem # NoKem => pq = Nodes

LEMMA UnknownIsNoStream == Unknown \notin Streams
BY SessionAssumption DEF Unknown, Streams

(* A program is in one call. *)
LEMMA HoldsOne ==
  ASSUME IInv, NEW n \in Nodes, NEW r \in Streams, NEW s \in Streams, Holds(n, r), Holds(n, s)
  PROVE  r = s /\ dial[n] = None
BY NoneIsNoStream DEF Holds, IInv, OneCallAtATime

(* What is kept if a program and its keys are as they were. *)
SameKeys(n) == conn'[n] = conn[n] /\ pending'[n] = pending[n] /\ e2e'[n] = e2e[n]

LEMMA KeysKept ==
  ASSUME KeysOK, pq' = pq, NEW n \in Nodes,
         \A s \in Streams : Holds(n, s)' => Holds(n, s) /\ e2e'[n] = e2e[n],
         live'[n] => live[n] /\ e2e'[n] = e2e[n]
  PROVE  /\ live'[n] => Ready(n, e2e[n])'
         /\ \A s \in Streams : Holds(n, s)' =>
              /\ e2e'[n].keys[n] = s /\ e2e'[n].keys[Other(n)] \in {Unknown, s}
              /\ e2e'[n].kem # NoKem => pq' = Nodes
BY DEF KeysOK, Ready

(* The keys of a program that read one of stream s. *)
LEMMA KeyReadKeys ==
  ASSUME Shape, IInv, KeysOK, FramesOK, NEW n \in Nodes, NEW s \in Streams, ReadsKey(n, s)
  PROVE  /\ \A r \in Streams : Holds(n, r) => r = s
         /\ Holds(n, s) /\ FrameOK(s, n, Head(wire[s][n]))
         /\ e2e'[n].keys[n] = s
         /\ \/ /\ Head(wire[s][n]).type = "K"
               /\ e2e'[n].keys[Other(n)] = s /\ e2e'[n].kem = e2e[n].kem
            \/ /\ Head(wire[s][n]).type = "Q" /\ pq = Nodes
               /\ e2e'[n].keys = e2e[n].keys /\ e2e'[n].kem = Kem(n, s)
            \/ /\ Head(wire[s][n]).type = "Y" /\ pq = Nodes
               /\ e2e'[n].keys = e2e[n].keys /\ e2e'[n].kem = Kem(Other(n), s)
         /\ e2e'[n].kem # NoKem => pq = Nodes
         /\ live'[n] => Ready(n, e2e'[n])
<1> DEFINE f == Head(wire[s][n])
<1>1. /\ Holds(n, s) /\ \A r \in Streams : Holds(n, r) => r = s
  <2>1. Holds(n, s)
    BY DEF ReadsKey, Reads, Reading, Holds
  <2> QED
    BY <2>1, HoldsOne
<1>2. wire[s][n] \in Seq(Frames) /\ wire[s][n] # <<>>
  BY SMTT(30) DEF ReadsKey, Reads, Shape
<1>3. f = wire[s][n][1] /\ 1 \in DOMAIN wire[s][n]
  BY <1>2, TailIn
<1>4. FrameOK(s, n, f)
  BY <1>3 DEF FramesOK
<1>5. /\ e2e[n].keys[n] = s /\ e2e[n].keys[Other(n)] \in {Unknown, s}
      /\ e2e[n].kem # NoKem => pq = Nodes
      /\ live[n] => Ready(n, e2e[n])
  BY <1>1 DEF KeysOK
<1>6. /\ e2e[n] \in E2Es /\ Nodes = {n, Other(n)} /\ Other(n) # n /\ Other(n) \in Nodes
  BY Others DEF Shape
<1>7. live'[n] => live[n] \/ Ready(n, e2e'[n])
  BY DEF ReadsKey
<1> HIDE DEF f
<1>8. CASE f.type = "K"
  <2>1. e2e'[n] = [e2e[n] EXCEPT !.keys[Other(n)] = f.e2e.keys[Other(n)]]
    BY <1>8 DEF ReadsKey, f
  <2>2. /\ e2e'[n].keys[Other(n)] = s /\ e2e'[n].keys[n] = s /\ e2e'[n].kem = e2e[n].kem
    BY <1>4, <1>5, <1>6, <1>8, <2>1 DEF FrameOK, E2Es
  <2>3. Ready(n, e2e[n]) => Ready(n, e2e'[n])
    BY <2>2, UnknownIsNoStream DEF Ready
  <2> QED
    BY <1>1, <1>4, <1>5, <1>7, <1>8, <2>2, <2>3 DEF f
<1>9. CASE f.type = "Q"
  <2>1. /\ e2e'[n] = [e2e[n] EXCEPT !.kem = <<n, f.e2e.keys[Other(n)], f.e2e.keys[Other(n)]>>]
        /\ n \in pq
    BY <1>9 DEF ReadsKey, f
  <2>2. f.e2e.keys[Other(n)] = s /\ Other(n) \in pq
    BY <1>4, <1>9 DEF FrameOK
  <2>3. pq = Nodes
    BY <1>6, <2>1, <2>2 DEF Shape
  <2>4. e2e'[n].keys = e2e[n].keys /\ e2e'[n].kem = Kem(n, s)
    BY <1>6, <2>1, <2>2 DEF E2Es, Kem
  <2>5. Ready(n, e2e[n]) => Ready(n, e2e'[n])
    BY <2>4 DEF Ready, NoKem, Kem
  <2> QED
    BY <1>1, <1>4, <1>5, <1>7, <1>9, <2>3, <2>4, <2>5 DEF f
<1>10. CASE f.type = "Y"
  <2>1. /\ e2e'[n] = [e2e[n] EXCEPT !.kem = <<f.e2e.kem[1], f.e2e.kem[2], e2e[n].keys[n]>>]
    BY <1>10 DEF ReadsKey, f
  <2>2. f.e2e.kem = Kem(Other(n), s) /\ pq = Nodes
    BY <1>4, <1>10 DEF FrameOK
  <2>3. <<f.e2e.kem[1], f.e2e.kem[2], e2e[n].keys[n]>> = Kem(Other(n), s)
    BY <1>5, <2>2 DEF Kem
  <2>4. e2e'[n].keys = e2e[n].keys /\ e2e'[n].kem = Kem(Other(n), s)
    BY <1>6, <2>1, <2>3 DEF E2Es
  <2>5. Ready(n, e2e[n]) => Ready(n, e2e'[n])
    BY <2>4 DEF Ready, NoKem, Kem
  <2> QED
    BY <1>1, <1>4, <1>5, <1>7, <1>10, <2>2, <2>4, <2>5 DEF f
<1> QED
  BY <1>8, <1>9, <1>10 DEF ReadsKey, f

LEMMA KeysStep ==
  ASSUME Shape, IInv, Roles, FramesOK, KeysOK, Typed, Idle \/ \E n \in Nodes : StepOf(n)
  PROVE  KeysOK' /\ pq' = pq
<1> DEFINE Good(m) ==
      /\ live'[m] => Ready(m, e2e[m])'
      /\ \A s \in Streams : Holds(m, s)' =>
           /\ e2e'[m].keys[m] = s /\ e2e'[m].keys[Other(m)] \in {Unknown, s}
           /\ e2e'[m].kem # NoKem => pq' = Nodes
<1>0. ASSUME \A m \in Nodes : Good(m) PROVE KeysOK'
  BY <1>0 DEF KeysOK
<1>a. ASSUME pq' = pq, NEW m \in Nodes,
             \A s \in Streams : Holds(m, s)' => Holds(m, s) /\ e2e'[m] = e2e[m],
             live'[m] => live[m] /\ e2e'[m] = e2e[m]
      PROVE  Good(m)
  BY <1>a, KeysKept
<1>b. ASSUME NEW n \in Nodes, NEW r \in Streams, e2e'[n] = Fresh(n, r), ~live'[n],
             \A s \in Streams : Holds(n, s)' => s = r
      PROVE  Good(n)
  <2>1. Other(n) \in Nodes /\ Other(n) # n
    BY Others
  <2>2. Fresh(n, r).keys[n] = r /\ Fresh(n, r).keys[Other(n)] = Unknown /\ Fresh(n, r).kem = NoKem
    BY <2>1 DEF Fresh
  <2> QED
    BY <1>b, <2>2
<1> HIDE DEF Good
<1>1. CASE Idle
  <2>1. pq' = pq /\ UNCHANGED <<conn, pending, e2e, live>>
    BY <1>1 DEF Idle, callVars
  <2> QED
    BY <1>0, <1>a, <2>1 DEF Holds
<1>2. ASSUME NEW n \in Nodes, Dial(n) \/ Reach(n) \/ (\E f \in Frames : Tells(n, f))
                              \/ (\E s \in Streams : ReadsOther(n, s))
      PROVE  KeysOK' /\ pq' = pq
  <2>1. pq' = pq /\ UNCHANGED <<conn, pending, e2e, live>>
    BY <1>2 DEF Dial, Reach, Tells, ReadsOther, Reads
  <2> QED
    BY <1>0, <1>a, <2>1 DEF Holds
<1>3. ASSUME NEW n \in Nodes, Connected(n) PROVE KeysOK' /\ pq' = pq
  <2>1. /\ dial[n] \in Streams /\ conn[n] = None /\ pending[n] = None
        /\ conn' = [conn EXCEPT ![n] = dial[n]] /\ pending' = pending
        /\ e2e' = [e2e EXCEPT ![n] = Fresh(n, dial[n])] /\ live' = [live EXCEPT ![n] = FALSE]
        /\ pq' = pq
    BY <1>3, ConnectedFacts
  <2>2. /\ e2e'[n] = Fresh(n, dial[n]) /\ ~live'[n] /\ conn'[n] = dial[n]
        /\ \A m \in Nodes : m # n => e2e'[m] = e2e[m] /\ live'[m] = live[m] /\ conn'[m] = conn[m]
    BY <2>1 DEF Shape, CallTypes
  <2>3. Good(n)
    BY <1>b, <2>1, <2>2, NoneIsNoStream DEF Holds
  <2>4. ASSUME NEW m \in Nodes, m # n PROVE Good(m)
    BY <1>a, <2>1, <2>2, <2>4 DEF Holds
  <2> QED
    BY <1>0, <2>1, <2>3, <2>4
<1>4. ASSUME NEW n \in Nodes, LetsRing(n) PROVE KeysOK' /\ pq' = pq
  <2>1. /\ offer[n] \in Streams /\ conn[n] = None
        /\ pending' = [pending EXCEPT ![n] = offer[n]]
        /\ e2e' = [e2e EXCEPT ![n] = Fresh(n, offer[n])] /\ live' = [live EXCEPT ![n] = FALSE]
        /\ UNCHANGED <<pq, conn>>
    BY <1>4, RingFacts
  <2>2. /\ e2e'[n] = Fresh(n, offer[n]) /\ ~live'[n] /\ pending'[n] = offer[n]
        /\ \A m \in Nodes : m # n => e2e'[m] = e2e[m] /\ live'[m] = live[m]
                                     /\ pending'[m] = pending[m]
    BY <2>1 DEF Shape, CallTypes
  <2>3. Good(n)
    BY <1>b, <2>1, <2>2, NoneIsNoStream DEF Holds
  <2>4. ASSUME NEW m \in Nodes, m # n PROVE Good(m)
    BY <1>a, <2>1, <2>2, <2>4 DEF Holds
  <2> QED
    BY <1>0, <2>1, <2>3, <2>4
<1>5. ASSUME NEW n \in Nodes, Accept(n) PROVE KeysOK' /\ pq' = pq
  <2>1. /\ pending[n] \in Streams
        /\ conn' = [conn EXCEPT ![n] = pending[n]] /\ pending' = [pending EXCEPT ![n] = None]
        /\ live' = [live EXCEPT ![n] = Ready(n, e2e[n])]
        /\ UNCHANGED <<pq, e2e>>
    BY <1>5, AcceptFacts
  <2>2. /\ live'[n] = Ready(n, e2e[n]) /\ conn'[n] = pending[n] /\ pending'[n] = None
        /\ \A m \in Nodes : m # n => live'[m] = live[m] /\ conn'[m] = conn[m]
                                     /\ pending'[m] = pending[m]
    BY <2>1 DEF Shape, CallTypes
  <2>3. Good(n)
    <3>1. \A s \in Streams : Holds(n, s)' => Holds(n, s)
      BY <2>1, <2>2, NoneIsNoStream DEF Holds
    <3>2. live'[n] => Ready(n, e2e[n])'
      BY <2>1, <2>2 DEF Ready
    <3>3. \A s \in Streams : Holds(n, s) =>
            /\ e2e[n].keys[n] = s /\ e2e[n].keys[Other(n)] \in {Unknown, s}
            /\ e2e[n].kem # NoKem => pq = Nodes
      BY DEF KeysOK
    <3> QED
      BY <2>1, <3>1, <3>2, <3>3 DEF Good
  <2>4. ASSUME NEW m \in Nodes, m # n PROVE Good(m)
    BY <1>a, <2>1, <2>2, <2>4 DEF Holds
  <2> QED
    BY <1>0, <2>1, <2>3, <2>4
<1>6. ASSUME NEW n \in Nodes, Retreats(n) PROVE KeysOK' /\ pq' = pq
  <2>1. pq' = pq
    BY <1>6 DEF Retreats
  <2>2. ASSUME NEW m \in Nodes, m # n PROVE Good(m)
    BY <1>6, <1>a, <2>1, <2>2 DEF Retreats, Alone, Holds
  <2>3. Good(n)
    BY <1>6, <1>a, <2>1, NoneIsNoStream DEF Retreats, Holds
  <2> QED
    BY <1>0, <2>1, <2>2, <2>3
<1>7. ASSUME NEW n \in Nodes, NEW s \in Streams, ReadsKey(n, s) PROVE KeysOK' /\ pq' = pq
  <2>1. pq' = pq /\ UNCHANGED <<conn, pending>>
        /\ \A m \in Nodes : m # n => e2e'[m] = e2e[m] /\ live'[m] = live[m]
    BY <1>7 DEF ReadsKey, Reads
  <2>2. ASSUME NEW m \in Nodes, m # n PROVE Good(m)
    BY <1>a, <2>1, <2>2 DEF Holds
  <2>3. /\ \A r \in Streams : Holds(n, r) => r = s
        /\ e2e'[n].keys[n] = s /\ e2e'[n].keys[Other(n)] \in {Unknown, s}
        /\ e2e'[n].kem # NoKem => pq = Nodes
        /\ live'[n] => Ready(n, e2e'[n])
    <3>1. Holds(n, s)
      BY <1>7, KeyReadKeys
    <3> QED
      BY <1>7, <3>1, KeyReadKeys DEF KeysOK
  <2>4. Good(n)
    BY <2>1, <2>3 DEF Good, Holds, Ready
  <2> QED
    BY <1>0, <2>1, <2>2, <2>4
<1> QED
  BY <1>1, <1>2, <1>3, <1>4, <1>5, <1>6, <1>7 DEF StepOf


(***************************************************************************)
(* Frames                                                                  *)
(***************************************************************************)
(* Where the frames on their way to m come from. *)
Comes(s, m) ==
  \A i \in DOMAIN wire'[s][m] :
    \/ \E j \in DOMAIN wire[s][m] : wire'[s][m][i] = wire[s][m][j]
    \/ FrameOK(s, m, wire'[s][m][i])

LEMMA SameComes ==
  ASSUME NEW s \in Streams, NEW m \in Nodes, wire'[s][m] = wire[s][m] \/ wire'[s][m] = <<>>
  PROVE  Comes(s, m)
<1>1. DOMAIN <<>> = {}
  OBVIOUS
<1> QED
  BY <1>1 DEF Comes

LEMMA TailComes ==
  ASSUME Shape, NEW s \in Streams, NEW m \in Nodes, wire[s][m] # <<>>,
         wire'[s][m] = Tail(wire[s][m])
  PROVE  Comes(s, m)
<1>1. wire[s][m] \in Seq(Frames)
  BY DEF Shape
<1> QED
  BY <1>1, FromTail DEF Comes

LEMMA AddedComes ==
  ASSUME Shape, NEW s \in Streams, NEW m \in Nodes, NEW p \in Seq(Frames),
         wire'[s][m] = wire[s][m] \o p, \A i \in DOMAIN p : FrameOK(s, m, p[i])
  PROVE  Comes(s, m)
<1>1. wire[s][m] \in Seq(Frames)
  BY DEF Shape
<1>2. ASSUME NEW i \in DOMAIN wire'[s][m]
      PROVE  \/ \E j \in DOMAIN wire[s][m] : wire'[s][m][i] = wire[s][m][j]
             \/ FrameOK(s, m, wire'[s][m][i])
  <2>1. \/ \E j \in DOMAIN wire[s][m] : wire'[s][m][i] = wire[s][m][j]
        \/ \E j \in DOMAIN p : wire'[s][m][i] = p[j]
    BY <1>1, FromConcat, SMTT(30)
  <2> QED
    BY <2>1
<1> QED
  BY <1>2 DEF Comes

LEMMA OneComes ==
  ASSUME Shape, NEW s \in Streams, NEW m \in Nodes, NEW f \in Frames,
         wire'[s][m] = wire[s][m] \o <<f>>, FrameOK(s, m, f)
  PROVE  Comes(s, m)
<1>1. <<f>> \in Seq(Frames) /\ \A i \in DOMAIN <<f>> : <<f>>[i] = f
  OBVIOUS
<1> QED
  BY <1>1, AddedComes

LEMMA FramesKept ==
  ASSUME FramesOK, pq' = pq, \A s \in Streams, m \in Nodes : Comes(s, m)
  PROVE  FramesOK'
<1> SUFFICES ASSUME NEW s \in Streams, NEW m \in Nodes, NEW i \in DOMAIN wire'[s][m]
             PROVE  FrameOK(s, m, wire[s][m][i])'
  BY DEF FramesOK
<1>1. FrameOK(s, m, wire'[s][m][i])
  BY DEF FramesOK, Comes
<1> QED
  BY <1>1 DEF FrameOK

(* A hello with the key of the stream. *)
LEMMA HelloOK ==
  ASSUME NEW n \in Nodes, NEW s \in Streams, NEW e \in E2Es, e.keys[n] = s
  PROVE  \A i \in DOMAIN Hello(n, e) : FrameOK(s, Other(n), Hello(n, e)[i])
<1>1. Other(Other(n)) = n
  BY Others
<1>2. \A i \in DOMAIN Hello(n, e) : Hello(n, e)[i].type \in {"K", "Q"}
                                    /\ Hello(n, e)[i].e2e = e
                                    /\ (Hello(n, e)[i].type = "Q" => n \in pq)
  BY FromHello
<1> QED
  BY <1>1, <1>2 DEF FrameOK

LEMMA FramesStep ==
  ASSUME Shape, IInv, Roles, FramesOK, KeysOK, Typed, Idle \/ \E n \in Nodes : StepOf(n)
  PROVE  FramesOK'
<1>0. pq' = pq
  BY KeysStep
<1>a. ASSUME \A s \in Streams, m \in Nodes : Comes(s, m) PROVE FramesOK'
  BY <1>0, <1>a, FramesKept
<1>1. CASE wire' = wire
  BY <1>1, <1>a, SameComes
<1>2. CASE Idle
  BY <1>1, <1>2 DEF Idle, callVars
<1>3. ASSUME NEW n \in Nodes, Dial(n) \/ Reach(n) PROVE FramesOK'
  BY <1>1, <1>3 DEF Dial, Reach
<1>4. ASSUME NEW n \in Nodes, Connected(n) PROVE FramesOK'
  <2> DEFINE s == dial[n]
             hello == Hello(n, Fresh(n, s))
  <2>1. /\ s \in Streams /\ \A r \in Streams : r # s => wire'[r] = wire[r]
        /\ wire'[s][n] = wire[s][n]
        /\ wire'[s][Other(n)] =
              IF up[s] = Nodes THEN wire[s][Other(n)] \o hello ELSE wire[s][Other(n)]
    BY <1>4, ConnectedFacts
  <2>2. Fresh(n, s) \in E2Es /\ Fresh(n, s).keys[n] = s
    BY <2>1, FreshTyped DEF Ids, Fresh
  <2>3. hello \in Seq(Frames) /\ \A i \in DOMAIN hello : FrameOK(s, Other(n), hello[i])
    BY <2>1, <2>2, HelloTyped, HelloOK
  <2> HIDE DEF hello, s
  <2>4. Comes(s, n) /\ Comes(s, Other(n))
    BY <2>1, <2>3, SameComes, AddedComes, Others
  <2>5. \A r \in Streams, m \in Nodes : r # s => Comes(r, m)
    BY <2>1, SameComes
  <2> QED
    BY <1>a, <2>4, <2>5, Others
<1>5. ASSUME NEW n \in Nodes, LetsRing(n) PROVE FramesOK'
  <2>1. \A r \in Streams :
              \/ wire'[r] = wire[r]
              \/ wire'[r][n] = <<>> /\ wire'[r][Other(n)] = wire[r][Other(n)]
    BY <1>5, RingFacts
  <2> QED
    BY <1>a, <2>1, SameComes, Others
<1>6. ASSUME NEW n \in Nodes, Accept(n) PROVE FramesOK'
  <2> DEFINE s == pending[n]
             hello == Hello(n, e2e[n])
  <2>1. /\ s \in Streams /\ \A r \in Streams : r # s => wire'[r] = wire[r]
        /\ \/ wire'[s][n] = wire[s][n]
           \/ wire[s][n] # <<>> /\ wire'[s][n] = Tail(wire[s][n])
        /\ wire'[s][Other(n)] =
              IF up[s] = Nodes THEN wire[s][Other(n)] \o hello ELSE wire[s][Other(n)]
    BY <1>6, AcceptFacts
  <2>2. e2e[n] \in E2Es /\ e2e[n].keys[n] = s
    BY <2>1 DEF Shape, KeysOK, Holds
  <2>3. hello \in Seq(Frames) /\ \A i \in DOMAIN hello : FrameOK(s, Other(n), hello[i])
    BY <2>1, <2>2, HelloTyped, HelloOK
  <2> HIDE DEF hello, s
  <2>4. Comes(s, n) /\ Comes(s, Other(n))
    BY <2>1, <2>3, SameComes, TailComes, AddedComes, Others
  <2>5. \A r \in Streams, m \in Nodes : r # s => Comes(r, m)
    BY <2>1, SameComes
  <2> QED
    BY <1>a, <2>4, <2>5, Others
<1>7. ASSUME NEW n \in Nodes, Retreats(n) PROVE FramesOK'
  <2>1. ASSUME NEW r \in Streams PROVE Comes(r, n) /\ Comes(r, Other(n))
    <3>1. CASE wire'[r] = wire[r]
      BY <3>1, SameComes, Others
    <3>2. CASE Shuts(n, r)
      <4>1. \A f \in Frames : f.type = "QUIT" => FrameOK(r, Other(n), f)
        BY DEF FrameOK
      <4> QED
        BY <3>2, <4>1, SameComes, OneComes, Others DEF Shuts
    <3> QED
      BY <1>7, <3>1, <3>2 DEF Retreats
  <2> QED
    BY <1>a, <2>1, Others
<1>8. ASSUME NEW n \in Nodes, NEW f \in Frames, Tells(n, f) PROVE FramesOK'
  <2> DEFINE s == conn[n]
  <2>1. s \in Streams /\ Other(n) \in Nodes /\ Other(n) # n /\ Other(Other(n)) = n
    BY <1>8, Others DEF Tells
  <2>2. FrameOK(s, Other(n), f)
    <3>1. CASE f.type = "U" /\ f.e2e = e2e[n] /\ live[n]
      <4>1. /\ Ready(n, e2e[n]) /\ e2e[n].keys[n] = s /\ e2e[n].keys[Other(n)] \in {Unknown, s}
            /\ e2e[n].kem # NoKem => pq = Nodes
        BY <2>1, <3>1 DEF KeysOK, Holds
      <4> QED
        BY <2>1, <3>1, <4>1, Others DEF FrameOK, Ready
    <3>2. CASE f.type \in {"X", "REQUEST"}
      BY <3>2 DEF FrameOK
    <3> QED
      BY <1>8, <3>1, <3>2 DEF Tells
  <2>3. /\ \A r \in Streams : r # s => wire'[r] = wire[r]
        /\ wire'[s][n] = wire[s][n] /\ wire'[s][Other(n)] = wire[s][Other(n)] \o <<f>>
    BY <1>8, TellFacts
  <2> HIDE DEF s
  <2>4. Comes(s, n) /\ Comes(s, Other(n)) /\ \A r \in Streams, m \in Nodes : r # s => Comes(r, m)
    BY <2>1, <2>2, <2>3, SameComes, OneComes
  <2> QED
    BY <1>a, <2>4, Others
<1>9. ASSUME NEW n \in Nodes, NEW s \in Streams, ReadsOther(n, s) \/ ReadsKey(n, s)
      PROVE  FramesOK'
  <2>1. /\ Takes(n, s)
        /\ \/ wire'[s][Other(n)] = wire[s][Other(n)]
           \/ /\ ReadsKey(n, s) /\ Head(wire[s][n]).type = "Q"
              /\ wire'[s][Other(n)] = wire[s][Other(n)] \o <<Frame("Y", e2e'[n])>>
    <3>1. CASE ReadsOther(n, s)
      BY <3>1, OtherReadFacts
    <3>2. CASE ReadsKey(n, s)
      BY <3>2, KeyReadFacts
    <3> QED
      BY <1>9, <3>1, <3>2
  <2>2. /\ Other(n) \in Nodes /\ Other(Other(n)) = n
        /\ Frame("Y", e2e'[n]) \in Frames /\ Frame("Y", e2e'[n]).type = "Y"
        /\ Frame("Y", e2e'[n]).e2e = e2e'[n]
    BY Others, FrameTyped DEF Typed
  <2>3. CASE ReadsKey(n, s) /\ Head(wire[s][n]).type = "Q"
    <3>1. pq = Nodes /\ e2e'[n].kem = Kem(n, s)
      BY <2>3, KeyReadKeys
    <3>2. FrameOK(s, Other(n), Frame("Y", e2e'[n]))
      BY <2>2, <3>1 DEF FrameOK
    <3>3. Comes(s, Other(n))
      BY <2>1, <2>2, <3>2, SameComes, OneComes
    <3> QED
      BY <1>a, <2>1, <3>3, SameComes, TailComes, Others DEF Takes
  <2>4. CASE wire'[s][Other(n)] = wire[s][Other(n)]
    BY <1>a, <2>1, <2>4, SameComes, TailComes, Others DEF Takes
  <2> QED
    BY <2>1, <2>3, <2>4
<1> QED
  BY <1>2, <1>3, <1>4, <1>5, <1>6, <1>7, <1>8, <1>9 DEF StepOf


-----------------------------------------------------------------------------
(***************************************************************************)
(* The order of frames                                                     *)
(***************************************************************************)
Has(q, t) == \E i \in DOMAIN q : q[i].type = t
Lacks(q, T) == \A i \in DOMAIN q : q[i].type \notin T
Before(q, i, t) == \E j \in DOMAIN q : j < i /\ q[j].type = t

LEMMA TailOrder ==
  ASSUME NEW q \in Seq(Frames), q # <<>>
  PROVE  /\ \A t : Head(q).type # t /\ Has(q, t) => Has(Tail(q), t)
         /\ \A t : Has(Tail(q), t) => Has(q, t)
         /\ \A T : Lacks(q, T) => Lacks(Tail(q), T)
         /\ \A t, i : i \in DOMAIN Tail(q) /\ Head(q).type # t =>
              (Before(Tail(q), i, t) <=> Before(q, i + 1, t))
         /\ \A t, i : i \in DOMAIN Tail(q) /\ Head(q).type = t => Before(q, i + 1, t)
<1>1. /\ Head(q) = q[1] /\ 1 \in DOMAIN q /\ Len(q) \in Nat
      /\ DOMAIN q = 1..Len(q) /\ DOMAIN Tail(q) = 1..(Len(q) - 1)
      /\ \A i \in DOMAIN Tail(q) : Tail(q)[i] = q[i + 1] /\ i + 1 \in DOMAIN q
      /\ \A i \in DOMAIN q : i # 1 => i - 1 \in DOMAIN Tail(q) /\ Tail(q)[i - 1] = q[i]
  BY TailIn
<1>2. ASSUME NEW t, Head(q).type # t, Has(q, t) PROVE Has(Tail(q), t)
  <2>1. PICK i \in DOMAIN q : q[i].type = t
    BY <1>2 DEF Has
  <2>2. i # 1
    BY <1>1, <1>2, <2>1
  <2>3. i - 1 \in DOMAIN Tail(q) /\ Tail(q)[i - 1].type = t
    BY <1>1, <2>1, <2>2
  <2> QED
    BY <2>3 DEF Has
<1>3. ASSUME NEW t, Has(Tail(q), t) PROVE Has(q, t)
  BY <1>1, <1>3 DEF Has
<1>4. ASSUME NEW T, Lacks(q, T) PROVE Lacks(Tail(q), T)
  BY <1>1, <1>4 DEF Lacks
<1>5. ASSUME NEW t, NEW i \in DOMAIN Tail(q), Head(q).type # t
      PROVE  Before(Tail(q), i, t) <=> Before(q, i + 1, t)
  <2>1. ASSUME NEW j \in DOMAIN Tail(q), j < i, Tail(q)[j].type = t
        PROVE  j + 1 \in DOMAIN q /\ j + 1 < i + 1 /\ q[j + 1].type = t
    BY <1>1, <2>1
  <2>2. ASSUME NEW j \in DOMAIN q, j < i + 1, q[j].type = t
        PROVE  j - 1 \in DOMAIN Tail(q) /\ j - 1 < i /\ Tail(q)[j - 1].type = t
    BY <1>1, <1>5, <2>2
  <2> QED
    BY <2>1, <2>2 DEF Before
<1>6. ASSUME NEW t, NEW i \in DOMAIN Tail(q), Head(q).type = t PROVE Before(q, i + 1, t)
  BY <1>1, <1>6 DEF Before
<1> QED
  BY <1>2, <1>3, <1>4, <1>5, <1>6

LEMMA ConcatOrder ==
  ASSUME NEW q \in Seq(Frames), NEW p \in Seq(Frames)
  PROVE  /\ \A t : Has(q \o p, t) <=> Has(q, t) \/ Has(p, t)
         /\ \A T : Lacks(q, T) /\ Lacks(p, T) => Lacks(q \o p, T)
         /\ \A t, i : i \in DOMAIN q => (Before(q \o p, i, t) <=> Before(q, i, t))
         /\ \A t, i : i \in DOMAIN p =>
              (Before(q \o p, Len(q) + i, t) <=> Has(q, t) \/ Before(p, i, t))
         /\ \A i \in DOMAIN (q \o p) :
              \/ i \in DOMAIN q /\ (q \o p)[i] = q[i]
              \/ \E j \in DOMAIN p : i = Len(q) + j /\ (q \o p)[i] = p[j]
<1>1. /\ DOMAIN (q \o p) = 1..(Len(q) + Len(p))
      /\ DOMAIN q = 1..Len(q) /\ DOMAIN p = 1..Len(p) /\ Len(q) \in Nat /\ Len(p) \in Nat
      /\ \A i \in DOMAIN q : (q \o p)[i] = q[i]
      /\ \A i \in DOMAIN p : (q \o p)[Len(q) + i] = p[i]
  BY ConcatIn
<1>2. ASSUME NEW i \in DOMAIN (q \o p)
      PROVE  \/ i \in DOMAIN q /\ (q \o p)[i] = q[i]
             \/ \E j \in DOMAIN p : i = Len(q) + j /\ (q \o p)[i] = p[j]
  <2>1. CASE i <= Len(q)
    BY <1>1, <2>1
  <2>2. CASE ~(i <= Len(q))
    <3>1. i - Len(q) \in DOMAIN p /\ i = Len(q) + (i - Len(q))
      BY <1>1, <2>2
    <3> QED
      BY <1>1, <3>1
  <2> QED
    BY <2>1, <2>2
<1>3. /\ \A i \in DOMAIN q : i \in DOMAIN (q \o p)
      /\ \A i \in DOMAIN p : Len(q) + i \in DOMAIN (q \o p)
  BY <1>1
<1>4. ASSUME NEW t PROVE Has(q \o p, t) <=> Has(q, t) \/ Has(p, t)
  BY <1>1, <1>2, <1>3 DEF Has
<1>5. ASSUME NEW T, Lacks(q, T), Lacks(p, T) PROVE Lacks(q \o p, T)
  BY <1>2, <1>5 DEF Lacks
<1>6. ASSUME NEW t, NEW i \in DOMAIN q PROVE Before(q \o p, i, t) <=> Before(q, i, t)
  <2>1. ASSUME NEW j \in DOMAIN (q \o p), j < i PROVE j \in DOMAIN q
    BY <1>1, <2>1
  <2> QED
    BY <1>1, <1>3, <2>1 DEF Before
<1>7. ASSUME NEW t, NEW i \in DOMAIN p
      PROVE  Before(q \o p, Len(q) + i, t) <=> Has(q, t) \/ Before(p, i, t)
  <2>1. ASSUME NEW j \in DOMAIN q PROVE j < Len(q) + i
    BY <1>1
  <2>2. ASSUME NEW j \in DOMAIN p PROVE (Len(q) + j < Len(q) + i) <=> (j < i)
    BY <1>1
  <2>3. ASSUME Has(q, t) PROVE Before(q \o p, Len(q) + i, t)
    BY <1>1, <1>3, <2>1, <2>3 DEF Has, Before
  <2>4. ASSUME Before(p, i, t) PROVE Before(q \o p, Len(q) + i, t)
    BY <1>1, <1>3, <2>2, <2>4 DEF Before
  <2>5. ASSUME Before(q \o p, Len(q) + i, t) PROVE Has(q, t) \/ Before(p, i, t)
    <3>1. PICK j \in DOMAIN (q \o p) : j < Len(q) + i /\ (q \o p)[j].type = t
      BY <2>5 DEF Before
    <3>2. CASE j \in DOMAIN q /\ (q \o p)[j] = q[j]
      BY <3>1, <3>2 DEF Has
    <3>3. ASSUME NEW k \in DOMAIN p, j = Len(q) + k, (q \o p)[j] = p[k]
          PROVE  Before(p, i, t)
      BY <2>2, <3>1, <3>3 DEF Before
    <3> QED
      BY <1>2, <3>2, <3>3
  <2> QED
    BY <2>3, <2>4, <2>5
<1> QED
  BY <1>2, <1>4, <1>5, <1>6, <1>7

LEMMA OneOrder ==
  ASSUME NEW f \in Frames
  PROVE  /\ <<f>> \in Seq(Frames) /\ DOMAIN <<f>> = {1} /\ <<f>>[1] = f
         /\ \A t : Has(<<f>>, t) <=> f.type = t
         /\ \A T : Lacks(<<f>>, T) <=> f.type \notin T
         /\ \A t : ~Before(<<f>>, 1, t)
<1>1. <<f>> \in Seq(Frames) /\ DOMAIN <<f>> = {1} /\ <<f>>[1] = f
  OBVIOUS
<1> QED
  BY <1>1 DEF Has, Lacks, Before

LEMMA NoneOrder == \A T : Lacks(<<>>, T)
BY DEF Lacks

LEMMA AddedHas ==
  ASSUME NEW q \in Seq(Frames), NEW p \in Seq(Frames), NEW w, w = q \o p, NEW t
  PROVE  Has(w, t) <=> Has(q, t) \/ Has(p, t)
BY ConcatOrder

LEMMA AddedLacks ==
  ASSUME NEW q \in Seq(Frames), NEW p \in Seq(Frames), NEW w, w = q \o p, NEW T,
         Lacks(q, T), Lacks(p, T)
  PROVE  Lacks(w, T)
BY ConcatOrder

LEMMA AddedBefore ==
  ASSUME NEW q \in Seq(Frames), NEW p \in Seq(Frames), NEW w, w = q \o p, NEW t
  PROVE  /\ \A i \in DOMAIN q : Before(w, i, t) <=> Before(q, i, t)
         /\ \A i \in DOMAIN p : Before(w, Len(q) + i, t) <=> Has(q, t) \/ Before(p, i, t)
BY ConcatOrder

LEMMA AddedIn ==
  ASSUME NEW q \in Seq(Frames), NEW p \in Seq(Frames), NEW w, w = q \o p
  PROVE  \A i \in DOMAIN w :
           \/ i \in DOMAIN q /\ w[i] = q[i]
           \/ \E j \in DOMAIN p : i = Len(q) + j /\ w[i] = p[j]
BY ConcatOrder

(* What is added to a stream. *)
LEMMA AddedOn ==
  ASSUME Shape, NEW s \in Streams, NEW m \in Nodes, NEW p \in Seq(Frames),
         wire'[s][m] = wire[s][m] \o p
  PROVE  /\ \A t : Has(wire'[s][m], t) <=> Has(wire[s][m], t) \/ Has(p, t)
         /\ \A T : Lacks(wire[s][m], T) /\ Lacks(p, T) => Lacks(wire'[s][m], T)
         /\ \A t : \A i \in DOMAIN wire[s][m] :
              (Before(wire'[s][m], i, t) <=> Before(wire[s][m], i, t))
         /\ \A t : \A i \in DOMAIN p :
              (Before(wire'[s][m], Len(wire[s][m]) + i, t) <=> Has(wire[s][m], t) \/ Before(p, i, t))
         /\ \A i \in DOMAIN wire'[s][m] :
              \/ i \in DOMAIN wire[s][m] /\ wire'[s][m][i] = wire[s][m][i]
              \/ \E j \in DOMAIN p : i = Len(wire[s][m]) + j /\ wire'[s][m][i] = p[j]
<1>1. wire[s][m] \in Seq(Frames)
  BY DEF Shape
<1>2. ASSUME NEW t PROVE Has(wire'[s][m], t) <=> Has(wire[s][m], t) \/ Has(p, t)
  BY <1>1, AddedHas
<1>3. ASSUME NEW T, Lacks(wire[s][m], T), Lacks(p, T) PROVE Lacks(wire'[s][m], T)
  BY <1>1, <1>3, AddedLacks
<1>4. ASSUME NEW t
      PROVE /\ \A i \in DOMAIN wire[s][m] :
              (Before(wire'[s][m], i, t) <=> Before(wire[s][m], i, t))
            /\ \A i \in DOMAIN p :
              (Before(wire'[s][m], Len(wire[s][m]) + i, t) <=> Has(wire[s][m], t) \/ Before(p, i, t))
  BY <1>1, AddedBefore
<1>5. ASSUME NEW i \in DOMAIN wire'[s][m]
      PROVE   \/ i \in DOMAIN wire[s][m] /\ wire'[s][m][i] = wire[s][m][i]
              \/ \E j \in DOMAIN p : i = Len(wire[s][m]) + j /\ wire'[s][m][i] = p[j]
  <2> DEFINE q == wire[s][m]
             w == wire'[s][m]
  <2>1. q \in Seq(Frames) /\ w = q \o p /\ i \in DOMAIN w
    BY <1>1, <1>5
  <2> HIDE DEF q, w
  <2>2. \/ i \in DOMAIN q /\ w[i] = q[i]
        \/ \E j \in DOMAIN p : i = Len(q) + j /\ w[i] = p[j]
    BY <2>1, AddedIn
  <2> QED
    BY <2>2 DEF q, w
<1> QED
  BY <1>2, <1>3, <1>4, <1>5


(* The first frame a caller or a callee writes, and so the first that comes   *)
(* while the key of the other one is not known, is its key.                  *)
Knows(n, s) == Holds(n, s) /\ e2e[n].keys[Other(n)] = s

KeyFirst(s, n) ==
  s \notin torn /\ ~Knows(n, s) =>
    /\ conn[Other(n)] = s /\ up[s] = Nodes => Has(wire[s][n], "K")
    /\ \A i \in DOMAIN wire[s][n] : wire[s][n][i].type = "U" => Before(wire[s][n], i, "K")

HelloFirst == \A s \in Streams, n \in Nodes : KeyFirst(s, n)

(* Steps that take from a stream, or add what is no message. *)
LEMMA KeyFirstKept ==
  ASSUME Shape, NEW s \in Streams, NEW m \in Nodes, KeyFirst(s, m),
         s \in torn => s \in torn', Knows(m, s) => Knows(m, s)',
         conn'[Other(m)] = s /\ up'[s] = Nodes => conn[Other(m)] = s /\ up[s] = Nodes,
         \/ wire'[s][m] = wire[s][m]
         \/ wire'[s][m] = <<>> /\ up'[s] # Nodes
         \/ \E f \in Frames : f.type # "U" /\ wire'[s][m] = wire[s][m] \o <<f>>
         \/ wire[s][m] # <<>> /\ Head(wire[s][m]).type # "K" /\ wire'[s][m] = Tail(wire[s][m])
  PROVE  KeyFirst(s, m)'
<1> SUFFICES ASSUME s \notin torn, ~Knows(m, s), s \notin torn', ~Knows(m, s)'
             PROVE  /\ conn'[Other(m)] = s /\ up'[s] = Nodes => Has(wire'[s][m], "K")
                    /\ \A i \in DOMAIN wire'[s][m] :
                         wire'[s][m][i].type = "U" => Before(wire'[s][m], i, "K")
  BY DEF KeyFirst, Has, Before
<1>1. /\ conn[Other(m)] = s /\ up[s] = Nodes => Has(wire[s][m], "K")
      /\ \A i \in DOMAIN wire[s][m] : wire[s][m][i].type = "U" => Before(wire[s][m], i, "K")
  BY DEF KeyFirst
<1>2. wire[s][m] \in Seq(Frames)
  BY DEF Shape
<1>3. CASE wire'[s][m] = wire[s][m]
  BY <1>1, <1>3
<1>4. CASE wire'[s][m] = <<>> /\ up'[s] # Nodes
  BY <1>4
<1>5. ASSUME NEW f \in Frames, f.type # "U", wire'[s][m] = wire[s][m] \o <<f>>
      PROVE  /\ conn'[Other(m)] = s /\ up'[s] = Nodes => Has(wire'[s][m], "K")
             /\ \A i \in DOMAIN wire'[s][m] :
                  wire'[s][m][i].type = "U" => Before(wire'[s][m], i, "K")
  <2>1. <<f>> \in Seq(Frames) /\ DOMAIN <<f>> = {1} /\ <<f>>[1] = f
    BY OneOrder
  <2>2. Has(wire[s][m], "K") => Has(wire'[s][m], "K")
    BY <1>2, <1>5, <2>1, AddedOn
  <2>3. ASSUME NEW i \in DOMAIN wire'[s][m], wire'[s][m][i].type = "U"
        PROVE  Before(wire'[s][m], i, "K")
    <3>1. i \in DOMAIN wire[s][m] /\ wire'[s][m][i] = wire[s][m][i]
      <4>1. \/ i \in DOMAIN wire[s][m] /\ wire'[s][m][i] = wire[s][m][i]
            \/ \E j \in DOMAIN <<f>> : wire'[s][m][i] = <<f>>[j]
        BY <1>5, <2>1, AddedOn
      <4> QED
        BY <1>5, <2>1, <2>3, <4>1
    <3>2. Before(wire[s][m], i, "K")
      BY <1>1, <2>3, <3>1
    <3> QED
      BY <1>2, <1>5, <2>1, <3>1, <3>2, AddedOn
  <2> QED
    BY <1>1, <2>2, <2>3
<1>6. CASE wire[s][m] # <<>> /\ Head(wire[s][m]).type # "K" /\ wire'[s][m] = Tail(wire[s][m])
  <2>1. Has(wire[s][m], "K") => Has(wire'[s][m], "K")
    BY <1>2, <1>6, TailOrder
  <2>2. ASSUME NEW i \in DOMAIN wire'[s][m], wire'[s][m][i].type = "U"
        PROVE  Before(wire'[s][m], i, "K")
    <3>1. i + 1 \in DOMAIN wire[s][m] /\ wire'[s][m][i] = wire[s][m][i + 1]
      BY <1>2, <1>6, <2>2, TailIn
    <3>2. Before(wire[s][m], i + 1, "K")
      BY <1>1, <2>2, <3>1
    <3> QED
      BY <1>2, <1>6, <2>2, <3>2, TailOrder
  <2> QED
    BY <1>1, <2>1, <2>2
<1> QED
  BY <1>3, <1>4, <1>5, <1>6

(* A hello. *)
LEMMA KeyFirstHello ==
  ASSUME Shape, NEW s \in Streams, NEW m \in Nodes, KeyFirst(s, m),
         s \in torn => s \in torn', Knows(m, s) => Knows(m, s)',
         NEW n \in Nodes, NEW e \in E2Es, wire'[s][m] = wire[s][m] \o Hello(n, e)
  PROVE  KeyFirst(s, m)'
<1> DEFINE hello == Hello(n, e)
<1>1. /\ hello \in Seq(Frames) /\ \A i \in DOMAIN hello : hello[i].type \in {"K", "Q"}
  BY HelloTyped, FromHello
<1>2. Has(hello, "K")
  <2>1. Frame("K", e) \in Frames /\ Frame("Q", e) \in Frames /\ Frame("K", e).type = "K"
    BY FrameTyped
  <2>2. n \notin pq => hello = <<Frame("K", e)>> \o <<>>
    BY DEF Hello
  <2>3. n \in pq => hello = <<Frame("K", e)>> \o <<Frame("Q", e)>>
    BY DEF Hello
  <2>4. Has(<<Frame("K", e)>>, "K") /\ <<Frame("K", e)>> \in Seq(Frames)
        /\ <<Frame("Q", e)>> \in Seq(Frames) /\ <<>> \in Seq(Frames)
    BY <2>1, OneOrder
  <2> HIDE DEF hello
  <2> QED
    BY <2>2, <2>3, <2>4, AddedHas
<1> HIDE DEF hello
<1>3. wire[s][m] \in Seq(Frames) /\ wire'[s][m] = wire[s][m] \o hello
  BY DEF Shape, hello
<1>4. Has(wire'[s][m], "K")
  BY <1>1, <1>2, <1>3, AddedOn
<1>5. ASSUME s \notin torn, ~Knows(m, s), NEW i \in DOMAIN wire'[s][m], wire'[s][m][i].type = "U"
      PROVE  Before(wire'[s][m], i, "K")
  <2>1. i \in DOMAIN wire[s][m] /\ wire'[s][m][i] = wire[s][m][i]
    BY <1>1, <1>3, <1>5, AddedOn
  <2>2. Before(wire[s][m], i, "K")
    BY <1>5, <2>1 DEF KeyFirst
  <2> QED
    BY <1>1, <1>3, <2>1, <2>2, AddedOn
<1> QED
  BY <1>4, <1>5 DEF KeyFirst, Has, Before

(* A message. *)
LEMMA KeyFirstTold ==
  ASSUME Shape, NEW s \in Streams, NEW m \in Nodes, KeyFirst(s, m),
         s \in torn => s \in torn', Knows(m, s) => Knows(m, s)',
         conn[Other(m)] = s, up[s] = Nodes,
         NEW f \in Frames, wire'[s][m] = wire[s][m] \o <<f>>
  PROVE  KeyFirst(s, m)'
<1>1. wire[s][m] \in Seq(Frames) /\ <<f>> \in Seq(Frames) /\ DOMAIN <<f>> = {1}
  BY OneOrder DEF Shape
<1>2. ASSUME s \notin torn, ~Knows(m, s)
      PROVE  /\ Has(wire'[s][m], "K")
             /\ \A i \in DOMAIN wire'[s][m] :
                  wire'[s][m][i].type = "U" => Before(wire'[s][m], i, "K")
  <2>1. /\ Has(wire[s][m], "K")
        /\ \A i \in DOMAIN wire[s][m] : wire[s][m][i].type = "U" => Before(wire[s][m], i, "K")
    BY <1>2 DEF KeyFirst
  <2>2. Has(wire'[s][m], "K")
    BY <1>1, <2>1, AddedOn
  <2>3. ASSUME NEW i \in DOMAIN wire'[s][m], wire'[s][m][i].type = "U"
        PROVE  Before(wire'[s][m], i, "K")
    <3>1. CASE i \in DOMAIN wire[s][m] /\ wire'[s][m][i] = wire[s][m][i]
      <4>1. Before(wire[s][m], i, "K")
        BY <2>1, <2>3, <3>1
      <4> QED
        BY <1>1, <3>1, <4>1, AddedOn
    <3>2. CASE \E j \in DOMAIN <<f>> : i = Len(wire[s][m]) + j
      <4>1. PICK j \in DOMAIN <<f>> : i = Len(wire[s][m]) + j
        BY <3>2
      <4>2. Before(wire'[s][m], Len(wire[s][m]) + j, "K")
        BY <1>1, <2>1, AddedOn
      <4> QED
        BY <4>1, <4>2
    <3> QED
      BY <1>1, <3>1, <3>2, AddedOn
  <2> QED
    BY <2>2, <2>3
<1> QED
  BY <1>2 DEF KeyFirst, Has, Before

LEMMA HelloStep ==
  ASSUME Shape, IInv, Roles, Unused, FramesOK, KeysOK, HelloFirst, Typed,
         Idle \/ \E n \in Nodes : StepOf(n)
  PROVE  HelloFirst'
<1>0. \A s \in Streams, m \in Nodes : KeyFirst(s, m)
  BY DEF HelloFirst
<1>a. ASSUME NEW n \in Nodes, \A s \in Streams : KeyFirst(s, n)' /\ KeyFirst(s, Other(n))'
      PROVE  HelloFirst'
  <2>1. \A s \in Streams, m \in Nodes : KeyFirst(s, m)'
    BY <1>a, Others
  <2> QED
    BY <2>1 DEF HelloFirst
<1>1. CASE Idle
  <2>1. ASSUME NEW s \in Streams, NEW m \in Nodes PROVE KeyFirst(s, m)'
    BY <1>0, <1>1 DEF Idle, callVars, KeyFirst, Knows, Holds, Has, Before
  <2> QED
    BY <2>1 DEF HelloFirst
<1>2. ASSUME NEW n \in Nodes, Dial(n) PROVE HelloFirst'
  <2>1. UNCHANGED <<conn, pending, e2e, up, wire, torn>>
    BY <1>2, DialFacts
  <2>2. ASSUME NEW s \in Streams, NEW m \in Nodes PROVE KeyFirst(s, m)'
    BY <1>0, <2>1 DEF KeyFirst, Knows, Holds, Has, Before
  <2> QED
    BY <2>2 DEF HelloFirst
<1>3. ASSUME NEW n \in Nodes, Reach(n) PROVE HelloFirst'
  <2>1. /\ dial[n] \in Streams /\ up[dial[n]] = {} /\ up' = [up EXCEPT ![dial[n]] = Nodes]
        /\ UNCHANGED <<conn, pending, e2e, wire, torn>>
    BY <1>3, ReachFacts
  <2>2. \A m \in Nodes : conn[m] # dial[n]
    BY <2>1 DEF Unused, Untouched, Holds
  <2>3. \A s \in Streams : s # dial[n] => up'[s] = up[s]
    BY <2>1 DEF Shape, CallTypes
  <2>4. ASSUME NEW s \in Streams, NEW m \in Nodes PROVE KeyFirst(s, m)'
    <3>1. conn'[Other(m)] = s /\ up'[s] = Nodes => conn[Other(m)] = s /\ up[s] = Nodes
      BY <2>1, <2>2, <2>3, Others
    <3>2. Knows(m, s) => Knows(m, s)'
      BY <2>1 DEF Knows, Holds
    <3> QED
      BY <1>0, <2>1, <3>1, <3>2, KeyFirstKept
  <2> QED
    BY <2>4 DEF HelloFirst
<1>4. ASSUME NEW n \in Nodes, Connected(n) PROVE HelloFirst'
  <2>1. /\ dial[n] \in Streams /\ conn[n] = None /\ pending[n] = None
        /\ conn' = [conn EXCEPT ![n] = dial[n]]
        /\ e2e' = [e2e EXCEPT ![n] = Fresh(n, dial[n])]
        /\ UNCHANGED <<pending, up, torn>>
        /\ \A r \in Streams : r # dial[n] => wire'[r] = wire[r]
        /\ wire'[dial[n]][n] = wire[dial[n]][n]
        /\ wire'[dial[n]][Other(n)] =
              IF up[dial[n]] = Nodes
              THEN wire[dial[n]][Other(n)] \o Hello(n, Fresh(n, dial[n]))
              ELSE wire[dial[n]][Other(n)]
    BY <1>4, ConnectedFacts
  <2>2. /\ conn'[n] = dial[n] /\ conn'[Other(n)] = conn[Other(n)]
        /\ e2e'[Other(n)] = e2e[Other(n)] /\ Other(n) \in Nodes /\ Other(Other(n)) = n
    BY <2>1, Others DEF Shape, CallTypes
  <2>3. \A s \in Streams : ~Knows(n, s) /\ (Knows(Other(n), s) => Knows(Other(n), s)')
    BY <2>1, <2>2, NoneIsNoStream DEF Knows, Holds
  <2>4. ASSUME NEW s \in Streams PROVE KeyFirst(s, n)'
    BY <1>0, <2>1, <2>2, <2>3, KeyFirstKept
  <2>5. ASSUME NEW s \in Streams PROVE KeyFirst(s, Other(n))'
    <3>1. CASE s = dial[n] /\ up[s] = Nodes
      <4>1. Fresh(n, dial[n]) \in E2Es
        BY <2>1, FreshTyped DEF Ids
      <4>2. wire'[s][Other(n)] = wire[s][Other(n)] \o Hello(n, Fresh(n, dial[n]))
        BY <2>1, <3>1
      <4> QED
        BY <1>0, <2>1, <2>2, <2>3, <4>1, <4>2, KeyFirstHello
    <3>2. CASE ~(s = dial[n] /\ up[s] = Nodes)
      <4>1. wire'[s][Other(n)] = wire[s][Other(n)]
            /\ ~(conn'[Other(Other(n))] = s /\ up'[s] = Nodes)
        BY <2>1, <2>2, <3>2
      <4> QED
        BY <1>0, <2>1, <2>2, <2>3, <4>1, KeyFirstKept
    <3> QED
      BY <3>1, <3>2
  <2> QED
    BY <1>a, <2>4, <2>5
<1>5. ASSUME NEW n \in Nodes, LetsRing(n) PROVE HelloFirst'
  <2>1. /\ conn[n] = None /\ pending[n] = None
        /\ pending' = [pending EXCEPT ![n] = offer[n]]
        /\ e2e' = [e2e EXCEPT ![n] = Fresh(n, offer[n])]
        /\ UNCHANGED <<conn, torn>>
        /\ \A r \in Streams :
              \/ up'[r] = up[r] /\ wire'[r] = wire[r]
              \/ /\ r = dial[n] /\ up'[r] = up[r] \ {n}
                 /\ wire'[r][n] = <<>> /\ wire'[r][Other(n)] = wire[r][Other(n)]
    BY <1>5, RingFacts
  <2>2. /\ e2e'[Other(n)] = e2e[Other(n)] /\ pending'[Other(n)] = pending[Other(n)]
        /\ Other(n) \in Nodes /\ Other(Other(n)) = n
    BY <2>1, Others DEF Shape, CallTypes
  <2>3. \A s \in Streams : ~Knows(n, s) /\ (Knows(Other(n), s) => Knows(Other(n), s)')
    BY <2>1, <2>2, NoneIsNoStream DEF Knows, Holds
  <2>4. ASSUME NEW s \in Streams PROVE KeyFirst(s, n)' /\ KeyFirst(s, Other(n))'
    <3>1. \/ up'[s] = up[s] /\ wire'[s] = wire[s]
          \/ /\ up'[s] # Nodes
             /\ wire'[s][n] = <<>> /\ wire'[s][Other(n)] = wire[s][Other(n)]
      BY <2>1
    <3>2. KeyFirst(s, n)'
      BY <1>0, <2>1, <2>3, <3>1, KeyFirstKept
    <3>3. KeyFirst(s, Other(n))'
      BY <1>0, <2>1, <2>2, <2>3, <3>1, KeyFirstKept
    <3> QED
      BY <3>2, <3>3
  <2> QED
    BY <1>a, <2>4
<1>6. ASSUME NEW n \in Nodes, Accept(n) PROVE HelloFirst'
  <2>1. /\ pending[n] \in Streams /\ conn[n] = None
        /\ conn' = [conn EXCEPT ![n] = pending[n]] /\ pending' = [pending EXCEPT ![n] = None]
        /\ UNCHANGED <<e2e, up>>
        /\ \A r \in Streams : r # pending[n] => wire'[r] = wire[r] /\ (r \in torn' <=> r \in torn)
        /\ \/ wire'[pending[n]][n] = wire[pending[n]][n] /\ torn' = torn
           \/ /\ wire[pending[n]][n] # <<>> /\ torn' = torn \cup {pending[n]}
              /\ wire'[pending[n]][n] = Tail(wire[pending[n]][n])
        /\ wire'[pending[n]][Other(n)] =
              IF up[pending[n]] = Nodes THEN wire[pending[n]][Other(n)] \o Hello(n, e2e[n])
              ELSE wire[pending[n]][Other(n)]
    BY <1>6, AcceptFacts
  <2>2. /\ conn'[n] = pending[n] /\ pending'[n] = None
        /\ conn'[Other(n)] = conn[Other(n)] /\ pending'[Other(n)] = pending[Other(n)]
        /\ Other(n) \in Nodes /\ Other(Other(n)) = n
    BY <2>1, Others DEF Shape, CallTypes
  <2>3. ASSUME NEW s \in Streams
        PROVE  /\ Knows(n, s) => Knows(n, s)'
               /\ Knows(Other(n), s) => Knows(Other(n), s)'
    BY <2>1, <2>2, NoneIsNoStream DEF Knows, Holds
  <2>4. ASSUME NEW s \in Streams PROVE s \in torn => s \in torn'
    BY <2>1
  <2>5. ASSUME NEW s \in Streams PROVE KeyFirst(s, n)'
    <3>1. CASE s \in torn'
      BY <3>1 DEF KeyFirst
    <3>2. CASE s \notin torn'
      <4>1. wire'[s][n] = wire[s][n]
        BY <2>1, <3>2
      <4> QED
        BY <1>0, <2>1, <2>2, <2>3, <2>4, <4>1, KeyFirstKept
    <3> QED
      BY <3>1, <3>2
  <2>6. ASSUME NEW s \in Streams PROVE KeyFirst(s, Other(n))'
    <3>1. CASE s = pending[n] /\ up[s] = Nodes
      <4>1. e2e[n] \in E2Es
        BY DEF Shape
      <4>2. wire'[s][Other(n)] = wire[s][Other(n)] \o Hello(n, e2e[n])
        BY <2>1, <3>1
      <4> QED
        BY <1>0, <2>2, <2>3, <2>4, <4>1, <4>2, KeyFirstHello
    <3>2. CASE ~(s = pending[n] /\ up[s] = Nodes)
      <4>1. wire'[s][Other(n)] = wire[s][Other(n)]
            /\ ~(conn'[Other(Other(n))] = s /\ up'[s] = Nodes)
        BY <2>1, <2>2, <3>2
      <4> QED
        BY <1>0, <2>1, <2>2, <2>3, <2>4, <4>1, KeyFirstKept
    <3> QED
      BY <3>1, <3>2
  <2> QED
    BY <1>a, <2>5, <2>6
<1>7. ASSUME NEW n \in Nodes, Retreats(n) PROVE HelloFirst'
  <2>1. /\ torn' = torn /\ Other(n) \in Nodes /\ Other(n) # n /\ Other(Other(n)) = n
        /\ conn'[Other(n)] = conn[Other(n)] /\ pending'[Other(n)] = pending[Other(n)]
        /\ e2e'[Other(n)] = e2e[Other(n)]
    BY <1>7, Others DEF Retreats, Alone
  <2>2. ASSUME NEW s \in Streams, ~Shuts(n, s), Knows(n, s) PROVE Knows(n, s)'
    <3>1. Holds(n, s) /\ offer[n] # s
      BY <2>2, NoneIsNoStream DEF Knows, Holds, Roles, IInv, OneOffer
    <3>2. s \in {conn'[n], pending'[n], offer'[n]} /\ offer'[n] # s
      BY <1>7, <2>2, <3>1, NoneIsNoStream DEF Retreats, Holds
    <3> QED
      BY <1>7, <2>2, <3>2, NoneIsNoStream DEF Retreats, Knows, Holds
  <2>3. ASSUME NEW s \in Streams PROVE KeyFirst(s, n)' /\ KeyFirst(s, Other(n))'
    <3>1. Knows(Other(n), s) => Knows(Other(n), s)'
      BY <2>1 DEF Knows, Holds
    <3>2. conn'[n] = s => conn[n] = s
      BY <1>7, NoneIsNoStream DEF Retreats
    <3>3. CASE Shuts(n, s)
      <4>1. up'[s] # Nodes /\ wire'[s][n] = <<>>
        BY <3>3 DEF Shuts
      <4>2. KeyFirst(s, n)'
        BY <4>1 DEF KeyFirst
      <4>3. \/ wire'[s][Other(n)] = wire[s][Other(n)]
            \/ \E f \in Frames : f.type # "U" /\ wire'[s][Other(n)] = wire[s][Other(n)] \o <<f>>
        BY <3>3 DEF Shuts
      <4>4. KeyFirst(s, Other(n))'
        BY <1>0, <2>1, <3>1, <4>1, <4>3, KeyFirstKept
      <4> QED
        BY <4>2, <4>4
    <3>4. CASE ~Shuts(n, s)
      <4>1. up'[s] = up[s] /\ wire'[s] = wire[s]
        BY <1>7, <3>4 DEF Retreats
      <4> QED
        BY <1>0, <2>1, <2>2, <3>1, <3>2, <3>4, <4>1, KeyFirstKept
    <3> QED
      BY <3>3, <3>4
  <2> QED
    BY <1>a, <2>3
<1>8. ASSUME NEW n \in Nodes, NEW f \in Frames, Tells(n, f) PROVE HelloFirst'
  <2>0. /\ conn[n] \in Streams /\ up[conn[n]] = Nodes
        /\ UNCHANGED <<conn, pending, e2e, up, torn>>
    BY <1>8 DEF Tells
  <2>1. /\ \A r \in Streams : r # conn[n] => wire'[r] = wire[r]
        /\ wire'[conn[n]][n] = wire[conn[n]][n]
        /\ wire'[conn[n]][Other(n)] = wire[conn[n]][Other(n)] \o <<f>>
        /\ Other(n) \in Nodes /\ Other(Other(n)) = n
    BY <1>8, TellFacts, Others
  <2>2. \A s \in Streams, m \in Nodes : Knows(m, s) => Knows(m, s)'
    BY <2>0 DEF Knows, Holds
  <2>3. ASSUME NEW s \in Streams PROVE KeyFirst(s, n)'
    <3>1. wire'[s][n] = wire[s][n]
      BY <2>0, <2>1
    <3> QED
      BY <1>0, <2>0, <2>2, <3>1, KeyFirstKept
  <2>4. ASSUME NEW s \in Streams PROVE KeyFirst(s, Other(n))'
    <3>1. CASE s = conn[n]
      BY <1>0, <2>0, <2>1, <2>2, <3>1, KeyFirstTold
    <3>2. CASE s # conn[n]
      <4>1. wire'[s][Other(n)] = wire[s][Other(n)]
        BY <2>1, <3>2
      <4> QED
        BY <1>0, <2>0, <2>1, <2>2, <4>1, KeyFirstKept
    <3> QED
      BY <3>1, <3>2
  <2> QED
    BY <1>a, <2>3, <2>4
<1>9. ASSUME NEW n \in Nodes, NEW s \in Streams, ReadsOther(n, s) \/ ReadsKey(n, s)
      PROVE  HelloFirst'
  <2>1. /\ Takes(n, s) /\ Reads(n, s) /\ Other(n) \in Nodes /\ Other(n) # n
        /\ e2e'[Other(n)] = e2e[Other(n)]
        /\ \/ wire'[s][Other(n)] = wire[s][Other(n)]
           \/ wire'[s][Other(n)] = wire[s][Other(n)] \o <<Frame("Y", e2e'[n])>>
    BY <1>9, Others, OtherReadFacts, KeyReadFacts DEF ReadsOther, ReadsKey
  <2>2. UNCHANGED <<conn, pending, up, torn>>
    BY <2>1 DEF Reads
  <2>3. Frame("Y", e2e'[n]) \in Frames /\ Frame("Y", e2e'[n]).type # "U"
    BY FrameTyped DEF Typed
  <2>4. \A r \in Streams : Knows(Other(n), r) => Knows(Other(n), r)'
    BY <2>1, <2>2 DEF Knows, Holds
  <2>5. ASSUME NEW r \in Streams PROVE KeyFirst(r, Other(n))'
    <3>1. \/ wire'[r][Other(n)] = wire[r][Other(n)]
          \/ \E f \in Frames : f.type # "U" /\ wire'[r][Other(n)] = wire[r][Other(n)] \o <<f>>
      BY <2>1, <2>3 DEF Takes
    <3> QED
      BY <1>0, <2>1, <2>2, <2>4, <3>1, KeyFirstKept
  <2>6. Holds(n, s) /\ \A r \in Streams : Holds(n, r) => r = s
    <3>1. Holds(n, s)
      BY <2>1 DEF Reads, Reading, Holds
    <3> QED
      BY <3>1, HoldsOne
  <2>7. ASSUME NEW r \in Streams, r # s PROVE KeyFirst(r, n)'
    <3>1. ~Knows(n, r) /\ wire'[r] = wire[r]
      BY <2>1, <2>6, <2>7 DEF Knows, Takes
    <3> QED
      BY <1>0, <2>2, <3>1, KeyFirstKept
  <2>8. KeyFirst(s, n)'
    <3>1. CASE Head(wire[s][n]).type = "K"
      <4>1. e2e'[n].keys[Other(n)] = s
        BY <1>9, <3>1, KeyReadKeys DEF ReadsOther
      <4>2. Knows(n, s)'
        BY <2>2, <2>6, <4>1 DEF Knows, Holds
      <4> QED
        BY <4>2 DEF KeyFirst
    <3>2. CASE Head(wire[s][n]).type # "K"
      <4>1. e2e'[n].keys = e2e[n].keys
        BY <1>9, <3>2, KeyReadKeys DEF ReadsOther
      <4>2. Knows(n, s) => Knows(n, s)'
        BY <2>2, <4>1 DEF Knows, Holds
      <4> QED
        BY <1>0, <2>1, <2>2, <3>2, <4>2, KeyFirstKept DEF Takes
    <3> QED
      BY <3>1, <3>2
  <2> QED
    BY <1>a, <2>5, <2>7, <2>8
<1> QED
  BY <1>1, <1>2, <1>3, <1>4, <1>5, <1>6, <1>7, <1>8, <1>9 DEF StepOf


-----------------------------------------------------------------------------
(***************************************************************************)
(* The exchange of keys                                                    *)
(***************************************************************************)
(* Nothing of T comes after a Q. *)
Single(q, T) == \A i \in DOMAIN q : q[i].type \in T => ~Before(q, i, "Q")

(* The messages before a Y are written with the secret mine, those after it   *)
(* with his.                                                                 *)
Spoken(q, mine, his) ==
  \A i \in DOMAIN q : q[i].type = "U" =>
    q[i].e2e.kem = IF Before(q, i, "Y") THEN his ELSE mine

(* Before the call is answered: c, who calls, has not said hello yet ...     *)
Calling(s, c, d) ==
  dial[c] = s =>
    /\ wire[s][d] = <<>>
    /\ pending[d] = s => e2e[d].kem = NoKem
    /\ conn[d] = s /\ d \in pq => s \in early

(* ... or d, who is called, lets it ring: it has written no key of its own,  *)
(* but may have answered the Q.                                              *)
Ringing(s, c, d) ==
  offer[d] = s \/ pending[d] = s =>
    /\ Lacks(wire[s][c], {"K", "Q", "U"}) /\ Lacks(wire[s][d], {"Y", "U"})
    /\ Single(wire[s][d], {"Q"})
    /\ conn[c] = s => e2e[c].keys[d] = Unknown /\ e2e[c].kem \in {NoKem, Kem(d, s)}
    /\ pending[d] = s =>
         \/ e2e[d].kem = NoKem
         \/ e2e[d].kem = Kem(d, s) /\ Lacks(wire[s][d], {"Q"})

(* After the answer of a hybrid call: the messages to d are written with its *)
(* key, or with the one that a Y before them brings ...                      *)
Talking(s, c, d) ==
  /\ Lacks(wire[s][d], {"Q"})
  /\ e2e[d].kem \in {Kem(d, s), Kem(c, s)}
  /\ Spoken(wire[s][d], e2e[d].kem, Kem(c, s))

(* ... and the Q of d is on its way, or c has answered it. *)
Exchange(s, c, d) ==
  \/ /\ e2e[c].kem \in {NoKem, Kem(d, s)} /\ e2e[d].kem = Kem(d, s)
     /\ Lacks(wire[s][d], {"Y"})
     /\ Has(wire[s][c], "Q") /\ Single(wire[s][c], {"Q", "Y"})
  \/ /\ e2e[c].kem = Kem(c, s)
     /\ Lacks(wire[s][c], {"Q", "Y"})
     /\ e2e[d].kem = Kem(c, s) \/ Has(wire[s][d], "Y")

Answered(s, c, d) ==
  s \notin early /\ pq = Nodes /\ conn[d] = s =>
    Talking(s, c, d) /\ (conn[c] = s /\ up[s] = Nodes => Exchange(s, c, d))

CallOK(s, c, d) == Calling(s, c, d) /\ Ringing(s, c, d) /\ Answered(s, c, d)

CallsOK == \A s \in Streams, c \in Nodes : caller[s] = c => CallOK(s, c, Other(c))

LEMMA HasLacks ==
  ASSUME NEW q, NEW t
  PROVE  /\ Has(q, t) <=> ~Lacks(q, {t})
         /\ \A T : Lacks(q, T) /\ t \in T => ~Has(q, t) /\ Lacks(q, {t})
         /\ Lacks(q, {t}) => \A i : ~Before(q, i, t)
BY DEF Has, Lacks, Before

LEMMA LacksOne ==
  ASSUME NEW q, NEW T, NEW t \in T, Lacks(q, T)
  PROVE  Lacks(q, {t})
BY DEF Lacks

LEMMA SingleTail ==
  ASSUME NEW q \in Seq(Frames), q # <<>>, NEW T, Single(q, T)
  PROVE  /\ Single(Tail(q), T)
         /\ Head(q).type = "Q" => Lacks(Tail(q), T)
<1>1. ASSUME NEW i \in DOMAIN Tail(q), Tail(q)[i].type \in T
      PROVE  ~Before(Tail(q), i, "Q") /\ Head(q).type # "Q"
  <2>1. ~Before(q, i + 1, "Q")
    BY <1>1, TailIn DEF Single
  <2> QED
    BY <1>1, <2>1, TailOrder
<1> QED
  BY <1>1 DEF Single, Lacks

LEMMA SingleAdded ==
  ASSUME NEW q \in Seq(Frames), NEW p \in Seq(Frames), NEW w, w = q \o p, NEW T,
         Single(q, T),
         Lacks(p, T) \/ (Lacks(q, {"Q"}) /\ Single(p, T))
  PROVE  Single(w, T)
<1>1. ASSUME NEW i \in DOMAIN w, w[i].type \in T PROVE ~Before(w, i, "Q")
  <2>1. CASE i \in DOMAIN q /\ w[i] = q[i]
    <3>1. ~Before(q, i, "Q")
      BY <1>1, <2>1 DEF Single
    <3> QED
      BY <2>1, <3>1, AddedBefore
  <2>2. ASSUME NEW j \in DOMAIN p, i = Len(q) + j, w[i] = p[j] PROVE ~Before(w, i, "Q")
    <3>1. ~Lacks(p, T)
      BY <1>1, <2>2 DEF Lacks
    <3>2. ~Has(q, "Q") /\ ~Before(p, j, "Q")
      BY <1>1, <2>2, <3>1, HasLacks DEF Single
    <3> QED
      BY <2>2, <3>2, AddedBefore
  <2> QED
    BY <2>1, <2>2, AddedIn
<1> QED
  BY <1>1 DEF Single

LEMMA SpokenTail ==
  ASSUME NEW q \in Seq(Frames), q # <<>>, NEW mine, NEW his, Spoken(q, mine, his)
  PROVE  /\ Head(q).type # "Y" => Spoken(Tail(q), mine, his)
         /\ Head(q).type = "Y" => Spoken(Tail(q), his, his)
<1>1. ASSUME NEW i \in DOMAIN Tail(q), Tail(q)[i].type = "U"
      PROVE  /\ Tail(q)[i].e2e.kem = IF Before(q, i + 1, "Y") THEN his ELSE mine
             /\ Head(q).type # "Y" => (Before(Tail(q), i, "Y") <=> Before(q, i + 1, "Y"))
             /\ Head(q).type = "Y" => Before(q, i + 1, "Y")
  BY <1>1, TailIn, TailOrder DEF Spoken
<1> QED
  BY <1>1 DEF Spoken

(* One frame more. *)
LEMMA OneMore ==
  ASSUME NEW q \in Seq(Frames), NEW f \in Frames, NEW w, w = q \o <<f>>
  PROVE  /\ \A t : Has(q, t) => Has(w, t)
         /\ Has(w, f.type)
         /\ \A T : Lacks(q, T) /\ f.type \notin T => Lacks(w, T)
         /\ \A T : Single(q, T) /\ f.type \notin T => Single(w, T)
         /\ \A mine, his :
              /\ Spoken(q, mine, his)
              /\ f.type = "U" => f.e2e.kem = IF Has(q, "Y") THEN his ELSE mine
              => Spoken(w, mine, his)
<1>1. /\ <<f>> \in Seq(Frames) /\ DOMAIN <<f>> = {1} /\ <<f>>[1] = f
      /\ Has(<<f>>, f.type) /\ ~Before(<<f>>, 1, "Y")
  BY OneOrder
<1>2. ASSUME NEW T, f.type \notin T PROVE Lacks(<<f>>, T)
  BY <1>2, OneOrder
<1>3. (\A t : Has(q, t) => Has(w, t)) /\ Has(w, f.type)
  BY <1>1, AddedHas
<1>4. ASSUME NEW T, Lacks(q, T), f.type \notin T PROVE Lacks(w, T)
  BY <1>1, <1>2, <1>4, AddedLacks
<1>5. ASSUME NEW T, Single(q, T), f.type \notin T PROVE Single(w, T)
  BY <1>1, <1>2, <1>5, SingleAdded
<1>6. ASSUME NEW mine, NEW his, Spoken(q, mine, his),
             f.type = "U" => f.e2e.kem = IF Has(q, "Y") THEN his ELSE mine,
             NEW i \in DOMAIN w, w[i].type = "U"
      PROVE  w[i].e2e.kem = IF Before(w, i, "Y") THEN his ELSE mine
  <2>1. CASE i \in DOMAIN q /\ w[i] = q[i]
    <3>1. Before(w, i, "Y") <=> Before(q, i, "Y")
      BY <1>1, <2>1, AddedBefore
    <3> QED
      BY <1>6, <2>1, <3>1 DEF Spoken
  <2>2. CASE i = Len(q) + 1 /\ w[i] = f
    <3>1. Before(w, i, "Y") <=> Has(q, "Y")
      BY <1>1, <2>2, AddedBefore
    <3> QED
      BY <1>6, <2>2, <3>1
  <2> QED
    BY <1>1, <2>1, <2>2, AddedIn
<1> QED
  BY <1>3, <1>4, <1>5, <1>6 DEF Spoken

LEMMA LacksMore ==
  ASSUME NEW q \in Seq(Frames), NEW f \in Frames, NEW w, w = q \o <<f>>,
         NEW T, Lacks(q, T), f.type \notin T
  PROVE  Lacks(w, T)
BY OneMore

LEMMA SpokenMore ==
  ASSUME NEW q \in Seq(Frames), NEW f \in Frames, NEW w, w = q \o <<f>>,
         NEW mine, NEW his, Spoken(q, mine, his),
         f.type = "U" => f.e2e.kem = IF Has(q, "Y") THEN his ELSE mine
  PROVE  Spoken(w, mine, his)
BY OneMore

(* A hello is a K and, from a program with --pq, a Q. *)
LEMMA HelloOrder ==
  ASSUME NEW n \in Nodes, NEW e \in E2Es
  PROVE  LET h == Hello(n, e) IN
         /\ h \in Seq(Frames) /\ Lacks(h, {"Y", "U"})
         /\ \A T : Single(h, T)
         /\ n \in pq => Has(h, "Q")
<1>1. /\ Frame("K", e) \in Frames /\ Frame("K", e).type = "K"
      /\ Frame("Q", e) \in Frames /\ Frame("Q", e).type = "Q"
  BY FrameTyped
<1>2. CASE n \notin pq
  <2>1. Hello(n, e) = <<Frame("K", e)>>
    BY <1>1, <1>2 DEF Hello
  <2>2. \A i : ~Before(<<Frame("K", e)>>, i, "Q")
    <3>1. ~Has(<<Frame("K", e)>>, "Q")
      BY <1>1, OneOrder
    <3> QED
      BY <3>1, HasLacks
  <2>3. Lacks(<<Frame("K", e)>>, {"Y", "U"}) /\ <<Frame("K", e)>> \in Seq(Frames)
    BY <1>1, OneOrder
  <2> QED
    BY <1>2, <2>1, <2>2, <2>3 DEF Single
<1>3. CASE n \in pq
  <2> DEFINE h == <<Frame("K", e)>> \o <<Frame("Q", e)>>
  <2>1. Hello(n, e) = h
    BY <1>3 DEF Hello
  <2>2. DOMAIN h = 1..2 /\ h[1] = Frame("K", e) /\ h[2] = Frame("Q", e)
    BY <1>1, TwoFrames
  <2>3. h \in Seq(Frames)
    BY <2>1, HelloTyped
  <2> HIDE DEF h
  <2>4. Has(h, "Q") /\ Lacks(h, {"Y", "U"})
    BY <1>1, <2>2 DEF Has, Lacks
  <2>5. \A i \in DOMAIN h : ~Before(h, i, "Q")
    BY <1>1, <2>2 DEF Before
  <2> QED
    BY <2>1, <2>3, <2>4, <2>5 DEF Single
<1> QED
  BY <1>2, <1>3


(* What is left of a sequence when an end closes. *)
Closing(q, w) ==
  \/ w = q \/ w = <<>>
  \/ \E f \in Frames : f.type = "QUIT" /\ w = q \o <<f>>

LEMMA ClosingKeeps ==
  ASSUME NEW q \in Seq(Frames), NEW w, Closing(q, w)
  PROVE  /\ \A T : Lacks(q, T) /\ "QUIT" \notin T => Lacks(w, T)
         /\ \A T : Single(q, T) /\ "QUIT" \notin T => Single(w, T)
         /\ \A mine, his : Spoken(q, mine, his) => Spoken(w, mine, his)
<1>1. CASE w = q
  BY <1>1
<1>2. CASE w = <<>>
  BY <1>2 DEF Lacks, Single, Spoken
<1>3. ASSUME NEW f \in Frames, f.type = "QUIT", w = q \o <<f>>
      PROVE  /\ \A T : Lacks(q, T) /\ "QUIT" \notin T => Lacks(w, T)
             /\ \A T : Single(q, T) /\ "QUIT" \notin T => Single(w, T)
             /\ \A mine, his : Spoken(q, mine, his) => Spoken(w, mine, his)
  <2>1. ASSUME NEW T, Lacks(q, T), "QUIT" \notin T PROVE Lacks(w, T)
    <3>1. f.type \notin T
      BY <1>3, <2>1
    <3> QED
      BY <1>3, <2>1, <3>1, OneMore
  <2>2. ASSUME NEW T, Single(q, T), "QUIT" \notin T PROVE Single(w, T)
    <3>1. f.type \notin T
      BY <1>3, <2>2
    <3> QED
      BY <1>3, <2>2, <3>1, OneMore
  <2>3. ASSUME NEW mine, NEW his, Spoken(q, mine, his) PROVE Spoken(w, mine, his)
    BY <1>3, <2>3, OneMore
  <2> QED
    BY <2>1, <2>2, <2>3
<1> QED
  BY <1>1, <1>2, <1>3 DEF Closing

(* n leaves stream s as it is, or closes its end; no one takes it up. *)
Withdraws(n, s) ==
  /\ pq' = pq /\ caller'[s] = caller[s] /\ (s \in early => s \in early')
  /\ \A m \in Nodes :
       /\ conn'[m] = s => conn[m] = s /\ e2e'[m] = e2e[m]
       /\ pending'[m] = s => pending[m] = s /\ e2e'[m] = e2e[m]
       /\ dial'[m] = s => dial[m] = s
       /\ offer'[m] = s => offer[m] = s
  /\ \/ up'[s] = up[s] /\ wire'[s] = wire[s]
     \/ Shuts(n, s) /\ (n \in up[s] => dial'[n] # s)

LEMMA WithdrawsKeeps ==
  ASSUME Shape, NEW n \in Nodes, NEW s \in Streams, Withdraws(n, s),
         NEW c \in Nodes, CallOK(s, c, Other(c))
  PROVE  CallOK(s, c, Other(c))'
<1> DEFINE d == Other(c)
<1>1. d \in Nodes /\ d # c /\ Nodes = {c, d} /\ Other(n) \in Nodes /\ Other(n) # n
  BY Others
<1>2. \A m \in Nodes : Closing(wire[s][m], wire'[s][m]) /\ wire[s][m] \in Seq(Frames)
  <2>1. \A m \in Nodes : wire[s][m] \in Seq(Frames)
    BY DEF Shape
  <2>2. Nodes = {n, Other(n)}
    BY Others
  <2>3. Closing(wire[s][n], wire'[s][n])
    BY DEF Withdraws, Shuts, Closing
  <2>4. Closing(wire[s][Other(n)], wire'[s][Other(n)])
    BY DEF Withdraws, Shuts, Closing
  <2> QED
    BY <2>1, <2>2, <2>3, <2>4
<1> HIDE DEF d
<1>3. up'[s] = Nodes => up[s] = Nodes /\ wire'[s] = wire[s]
  BY DEF Withdraws, Shuts
<1>4. /\ pq' = pq /\ (s \in early => s \in early')
      /\ dial'[c] = s => dial[c] = s
      /\ offer'[d] = s => offer[d] = s
      /\ \A m \in Nodes : /\ conn'[m] = s => conn[m] = s /\ e2e'[m] = e2e[m]
                          /\ pending'[m] = s => pending[m] = s /\ e2e'[m] = e2e[m]
  BY <1>1 DEF Withdraws
<1>5. ASSUME dial'[c] = s, wire[s][d] = <<>> PROVE wire'[s][d] = <<>>
  <2>1. CASE n = c
    BY <1>1, <1>5, <2>1 DEF Withdraws, Shuts
  <2>2. CASE n = d
    BY <1>1, <1>5, <2>2 DEF Withdraws, Shuts
  <2> QED
    BY <1>1, <2>1, <2>2
<1>6. Calling(s, c, d)'
  BY <1>1, <1>4, <1>5 DEF CallOK, Calling, d
<1>7. /\ \A T : Lacks(wire[s][c], T) /\ "QUIT" \notin T => Lacks(wire'[s][c], T)
      /\ \A T : Lacks(wire[s][d], T) /\ "QUIT" \notin T => Lacks(wire'[s][d], T)
      /\ \A T : Single(wire[s][d], T) /\ "QUIT" \notin T => Single(wire'[s][d], T)
      /\ \A mine, his : Spoken(wire[s][d], mine, his) => Spoken(wire'[s][d], mine, his)
  BY <1>1, <1>2, ClosingKeeps
<1>8. Ringing(s, c, d)'
  <2>1. SUFFICES ASSUME (offer[d] = s \/ pending[d] = s)' PROVE Ringing(s, c, d)'
    BY DEF Ringing
  <2>2. offer[d] = s \/ pending[d] = s
    BY <1>1, <1>4, <2>1
  <2>3. /\ Lacks(wire[s][c], {"K", "Q", "U"}) /\ Lacks(wire[s][d], {"Y", "U"})
        /\ Single(wire[s][d], {"Q"})
        /\ conn[c] = s => e2e[c].keys[d] = Unknown /\ e2e[c].kem \in {NoKem, Kem(d, s)}
        /\ pending[d] = s =>
             \/ e2e[d].kem = NoKem
             \/ e2e[d].kem = Kem(d, s) /\ Lacks(wire[s][d], {"Q"})
    BY <2>2 DEF CallOK, Ringing, d
  <2>4. /\ Lacks(wire'[s][c], {"K", "Q", "U"}) /\ Lacks(wire'[s][d], {"Y", "U"})
        /\ Single(wire'[s][d], {"Q"})
        /\ Lacks(wire[s][d], {"Q"}) => Lacks(wire'[s][d], {"Q"})
    BY <1>7, <2>3
  <2> QED
    BY <1>1, <1>4, <2>3, <2>4 DEF Ringing
<1>9. Answered(s, c, d)'
  <2>1. SUFFICES ASSUME s \notin early', pq' = Nodes, conn'[d] = s
                 PROVE  Talking(s, c, d)' /\ (conn[c] = s /\ up[s] = Nodes => Exchange(s, c, d))'
    BY DEF Answered
  <2>2. /\ Talking(s, c, d) /\ (conn[c] = s /\ up[s] = Nodes => Exchange(s, c, d))
        /\ e2e'[d] = e2e[d]
    BY <1>1, <1>4, <2>1 DEF CallOK, Answered, d
  <2>3. Talking(s, c, d)'
    BY <1>7, <2>2 DEF Talking
  <2>4. ASSUME conn'[c] = s, up'[s] = Nodes PROVE Exchange(s, c, d)'
    BY <1>3, <1>4, <2>2, <2>4 DEF Exchange
  <2> QED
    BY <2>3, <2>4
<1> QED
  BY <1>6, <1>8, <1>9 DEF CallOK, d

(* A call that no one knows of, but the one who makes it. *)
LEMMA NewCall ==
  ASSUME Shape, NEW s \in Streams, NEW c \in Nodes,
         \A m \in Nodes : wire'[s][m] = <<>> /\ ~Holds(m, s)'
  PROVE  CallOK(s, c, Other(c))'
<1>1. Other(c) \in Nodes
  BY Others
<1>2. \A T : Lacks(<<>>, T) /\ Single(<<>>, T)
  BY DEF Lacks, Single
<1>3. Calling(s, c, Other(c))'
  BY <1>1 DEF Calling, Holds
<1>4. Ringing(s, c, Other(c))'
  BY <1>1, <1>2 DEF Ringing, Holds
<1>5. Answered(s, c, Other(c))'
  BY <1>1 DEF Answered, Holds
<1> QED
  BY <1>3, <1>4, <1>5 DEF CallOK


(* The caller says hello. *)
LEMMA ConnectedKeeps ==
  ASSUME Shape, IInv, NEW c \in Nodes, Connected(c),
         NEW s \in Streams, s = dial[c], CallOK(s, c, Other(c))
  PROVE  CallOK(s, c, Other(c))'
<1> DEFINE d == Other(c)
           hello == Hello(c, Fresh(c, s))
<1>1. d \in Nodes /\ d # c /\ Nodes = {c, d}
  BY Others
<1>2. /\ dial' = [dial EXCEPT ![c] = None] /\ conn' = [conn EXCEPT ![c] = s]
      /\ e2e' = [e2e EXCEPT ![c] = Fresh(c, s)]
      /\ UNCHANGED <<pq, pending, offer, up, early>>
      /\ wire'[s][c] = wire[s][c]
      /\ wire'[s][d] = IF up[s] = Nodes THEN wire[s][d] \o hello ELSE wire[s][d]
  BY ConnectedFacts
<1>3. Fresh(c, s) \in E2Es /\ Fresh(c, s).keys[d] = Unknown /\ Fresh(c, s).kem = NoKem
  BY <1>1, FreshTyped DEF Ids, Fresh
<1> HIDE DEF d
<1>4. dial'[c] = None /\ conn'[d] = conn[d] /\ e2e'[c] = Fresh(c, s) /\ e2e'[d] = e2e[d]
  BY <1>1, <1>2 DEF Shape, CallTypes
<1>5. /\ wire[s][d] = <<>>
      /\ pending[d] = s => e2e[d].kem = NoKem
      /\ conn[d] = s /\ d \in pq => s \in early
  BY DEF CallOK, Calling, d
<1>6. Calling(s, c, d)'
  BY <1>4, NoneIsNoStream DEF Calling
<1>7. Answered(s, c, d)'
  BY <1>1, <1>2, <1>4, <1>5 DEF Answered
<1>8. hello \in Seq(Frames) /\ Lacks(hello, {"Y", "U"}) /\ Single(hello, {"Q"})
  BY <1>3, HelloOrder
<1> HIDE DEF hello
<1>9. Lacks(wire'[s][d], {"Y", "U"}) /\ Single(wire'[s][d], {"Q"})
  <2>1. <<>> \o hello = hello
    BY <1>8
  <2>2. CASE wire'[s][d] = hello
    BY <1>8, <2>2
  <2>3. CASE wire'[s][d] = <<>>
    BY <2>3 DEF Lacks, Single
  <2> QED
    BY <1>2, <1>5, <2>1, <2>2, <2>3
<1>10. ASSUME (offer[d] = s \/ pending[d] = s)' PROVE Ringing(s, c, d)'
  <2>1. Lacks(wire'[s][c], {"K", "Q", "U"})
    BY <1>2, <1>10 DEF CallOK, Ringing, d
  <2> QED
    BY <1>2, <1>3, <1>4, <1>5, <1>9, <2>1 DEF Ringing
<1> QED
  BY <1>6, <1>7, <1>10 DEF CallOK, Ringing, d

(* The callee lets it ring. *)
LEMMA RingKeeps ==
  ASSUME Shape, IInv, Roles, NEW d \in Nodes, LetsRing(d), NEW s \in Streams, s = offer[d],
         NEW c \in Nodes, c = caller[s], CallOK(s, c, Other(c))
  PROVE  CallOK(s, c, Other(c))'
<1>1. c # d /\ dial[d] # s
  BY DEF Roles
<1>2. Other(c) = d /\ Nodes = {c, d}
  BY <1>1, Others
<1>3. /\ pending' = [pending EXCEPT ![d] = s] /\ dial' = [dial EXCEPT ![d] = None]
      /\ e2e' = [e2e EXCEPT ![d] = Fresh(d, s)]
      /\ UNCHANGED <<pq, conn, early>> /\ wire'[s] = wire[s] /\ conn[d] = None
  BY <1>1, RingFacts
<1>4. /\ pending'[d] = s /\ dial'[c] = dial[c] /\ e2e'[c] = e2e[c]
      /\ e2e'[d].kem = NoKem
  BY <1>1, <1>3 DEF Shape, CallTypes, Fresh
<1>5. Calling(s, c, d)'
  BY <1>2, <1>3, <1>4 DEF CallOK, Calling
<1>6. Ringing(s, c, d)'
  BY <1>2, <1>3, <1>4 DEF CallOK, Ringing
<1>7. Answered(s, c, d)'
  BY <1>3, NoneIsNoStream DEF Answered
<1> QED
  BY <1>2, <1>5, <1>6, <1>7 DEF CallOK

(* The callee answers. *)
LEMMA AcceptKeeps ==
  ASSUME Shape, IInv, Roles, NEW d \in Nodes, Accept(d), NEW s \in Streams, s = pending[d],
         NEW c \in Nodes, c = caller[s], CallOK(s, c, Other(c))
  PROVE  CallOK(s, c, Other(c))'
<1> DEFINE hello == Hello(d, e2e[d])
<1>1. c # d
  BY DEF Roles
<1>2. Other(c) = d /\ Other(d) = c /\ Nodes = {c, d}
  BY <1>1, Others
<1>3. /\ conn' = [conn EXCEPT ![d] = s] /\ pending' = [pending EXCEPT ![d] = None]
      /\ UNCHANGED <<pq, dial, offer, e2e, up>> /\ offer[d] = None
      /\ early' = IF d \in pq /\ e2e[d].kem = NoKem THEN early \cup {s} ELSE early
      /\ \/ wire'[s][d] = wire[s][d]
         \/ wire[s][d] # <<>> /\ wire'[s][d] = Tail(wire[s][d])
      /\ wire'[s][c] = IF up[s] = Nodes THEN wire[s][c] \o hello ELSE wire[s][c]
  BY <1>2, AcceptFacts
<1>4. conn'[c] = conn[c] /\ pending'[d] = None
  BY <1>1, <1>3 DEF Shape, CallTypes
<1>5. wire[s][d] \in Seq(Frames) /\ wire[s][c] \in Seq(Frames) /\ e2e[d] \in E2Es
  BY DEF Shape
<1>6. /\ Lacks(wire[s][c], {"K", "Q", "U"}) /\ Lacks(wire[s][d], {"Y", "U"})
      /\ conn[c] = s => e2e[c].kem \in {NoKem, Kem(d, s)}
      /\ \/ e2e[d].kem = NoKem
         \/ e2e[d].kem = Kem(d, s) /\ Lacks(wire[s][d], {"Q"})
  BY <1>2 DEF CallOK, Ringing
<1>7. Calling(s, c, d)'
  <2>1. SUFFICES ASSUME dial[c] = s PROVE Calling(s, c, d)'
    BY <1>3 DEF Calling
  <2>2. wire[s][d] = <<>> /\ e2e[d].kem = NoKem
    BY <1>2, <2>1 DEF CallOK, Calling
  <2>3. wire'[s][d] = <<>>
    BY <1>3, <2>2
  <2> QED
    BY <1>3, <1>4, <2>2, <2>3, NoneIsNoStream DEF Calling
<1>8. Ringing(s, c, d)'
  BY <1>3, <1>4, NoneIsNoStream DEF Ringing
<1>9. Answered(s, c, d)'
  <2>1. SUFFICES ASSUME s \notin early', pq' = Nodes
                 PROVE  Talking(s, c, d)' /\ (conn[c] = s /\ up[s] = Nodes => Exchange(s, c, d))'
    BY DEF Answered
  <2>2. e2e[d].kem = Kem(d, s) /\ Lacks(wire[s][d], {"Q"}) /\ d \in pq
    BY <1>3, <1>6, <2>1
  <2>3. Lacks(wire'[s][d], {"Y", "U"}) /\ Lacks(wire'[s][d], {"Q"})
    BY <1>3, <1>5, <1>6, <2>2, TailOrder
  <2>4. Talking(s, c, d)'
    <3>1. Spoken(wire'[s][d], e2e'[d].kem, Kem(c, s))
      BY <2>3 DEF Lacks, Spoken
    <3> QED
      BY <1>3, <2>2, <2>3, <3>1 DEF Talking
  <2>5. ASSUME conn'[c] = s, up'[s] = Nodes PROVE Exchange(s, c, d)'
    <3>1. hello \in Seq(Frames) /\ Has(hello, "Q") /\ Single(hello, {"Q", "Y"})
      BY <1>5, <2>2, HelloOrder
    <3> HIDE DEF hello
    <3>2. wire'[s][c] = wire[s][c] \o hello
      BY <1>3, <2>5
    <3>3. Lacks(wire[s][c], {"Q"}) /\ Single(wire[s][c], {"Q", "Y"})
      <4>1. Lacks(wire[s][c], {"Q"})
        BY <1>6, LacksOne
      <4>2. \A i : ~Before(wire[s][c], i, "Q")
        BY <4>1, HasLacks
      <4> QED
        BY <4>1, <4>2 DEF Single
    <3>4. Has(wire'[s][c], "Q") /\ Single(wire'[s][c], {"Q", "Y"})
      <4> DEFINE old == wire[s][c]  new == wire'[s][c]
      <4>1. old \in Seq(Frames) /\ new = old \o hello
        BY <1>5, <3>2
      <4> HIDE DEF old, new
      <4>2. Has(new, "Q")
        BY <3>1, <4>1, AddedHas
      <4>3. Lacks(old, {"Q"}) /\ Single(old, {"Q", "Y"})
        BY <3>3 DEF old
      <4>4. Single(new, {"Q", "Y"})
        BY <3>1, <4>1, <4>3, SingleAdded
      <4> QED
        BY <4>2, <4>4 DEF new
    <3>5. Lacks(wire'[s][d], {"Y"})
      BY <2>3, LacksOne
    <3>6. e2e[c].kem \in {NoKem, Kem(d, s)}
      BY <1>4, <1>6, <2>5
    <3> QED
      BY <1>3, <2>2, <3>4, <3>5, <3>6 DEF Exchange
  <2> QED
    BY <2>4, <2>5
<1> QED
  BY <1>2, <1>7, <1>8, <1>9 DEF CallOK


(* Someone says or asks something, that is no key. *)
LEMMA TellsKeeps ==
  ASSUME Shape, IInv, Roles, KeysOK, NEW n \in Nodes, NEW f \in Frames, Tells(n, f),
         NEW s \in Streams, s = conn[n],
         NEW c \in Nodes, c = caller[s], CallOK(s, c, Other(c))
  PROVE  CallOK(s, c, Other(c))'
<1> DEFINE d == Other(c)
<1>1. d \in Nodes /\ d # c /\ Nodes = {c, d} /\ Other(d) = c
  BY Others
<1> HIDE DEF d
<1>2. /\ UNCHANGED <<pq, conn, pending, dial, offer, e2e, up, early>>
      /\ up[s] = Nodes
      /\ \/ f.type = "U" /\ f.e2e = e2e[n] /\ live[n]
         \/ f.type \in {"X", "REQUEST"}
      /\ wire'[s][n] = wire[s][n]
      /\ wire'[s][Other(n)] = wire[s][Other(n)] \o <<f>>
  <2>1. /\ UNCHANGED <<pq, conn, pending, dial, offer, e2e, up, early>>
        /\ up[s] = Nodes
        /\ \/ f.type = "U" /\ f.e2e = e2e[n] /\ live[n]
           \/ f.type \in {"X", "REQUEST"}
    BY DEF Tells
  <2> QED
    BY <2>1, TellFacts
<1>3. f.type \notin {"Q", "Y"} /\ f.type \notin {"Q"} /\ f.type \notin {"Y"}
  BY <1>2
<1>4. wire[s][c] \in Seq(Frames) /\ wire[s][d] \in Seq(Frames)
  BY <1>1 DEF Shape
<1>5. dial[n] = None /\ pending[n] = None /\ offer[n] # s
  BY NoneIsNoStream DEF IInv, OneCallAtATime, Roles
<1>6. CASE n = c
  <2>1. wire'[s][c] = wire[s][c] /\ wire'[s][d] = wire[s][d] \o <<f>>
    BY <1>1, <1>2, <1>6 DEF d
  <2>2. Calling(s, c, d)'
    BY <1>2, <1>5, <1>6, NoneIsNoStream DEF Calling
  <2>3. ASSUME offer[d] = s \/ pending[d] = s PROVE Ringing(s, c, d)'
    <3>1. /\ Lacks(wire[s][c], {"K", "Q", "U"}) /\ Lacks(wire[s][d], {"Y", "U"})
          /\ Single(wire[s][d], {"Q"})
          /\ e2e[c].keys[d] = Unknown /\ e2e[c].kem \in {NoKem, Kem(d, s)}
          /\ pending[d] = s =>
               \/ e2e[d].kem = NoKem
               \/ e2e[d].kem = Kem(d, s) /\ Lacks(wire[s][d], {"Q"})
      BY <1>6, <2>3 DEF CallOK, Ringing, d
    <3>2. ~live[c]
      BY <3>1 DEF KeysOK, Ready, d
    <3>3. f.type \notin {"Y", "U"}
      BY <1>2, <1>6, <3>2
    <3>4. Lacks(wire'[s][d], {"Y", "U"})
      BY <1>4, <2>1, <3>1, <3>3, OneMore
    <3>5. Single(wire'[s][d], {"Q"})
      BY <1>3, <1>4, <2>1, <3>1, OneMore
    <3>6. Lacks(wire[s][d], {"Q"}) => Lacks(wire'[s][d], {"Q"})
      BY <1>3, <1>4, <2>1, OneMore
    <3> QED
      BY <1>2, <2>1, <3>1, <3>4, <3>5, <3>6 DEF Ringing
  <2>4. ASSUME s \notin early, pq = Nodes, conn[d] = s
        PROVE  Talking(s, c, d)' /\ Exchange(s, c, d)'
    <3>1. Talking(s, c, d) /\ Exchange(s, c, d)
      BY <1>2, <1>6, <2>4 DEF CallOK, Answered, d
    <3>2. f.type = "U" => f.e2e.kem = e2e[c].kem /\ e2e[c].kem # NoKem
      BY <1>2, <1>6, <2>4 DEF KeysOK, Ready
    <3>3. f.type = "U" =>
            f.e2e.kem = IF Has(wire[s][d], "Y") THEN Kem(c, s) ELSE e2e[d].kem
      BY <3>1, <3>2, HasLacks DEF Exchange
    <3>4. Spoken(wire[s][d], e2e[d].kem, Kem(c, s)) /\ Lacks(wire[s][d], {"Q"})
          /\ e2e[d].kem \in {Kem(d, s), Kem(c, s)}
      BY <3>1 DEF Talking
    <3>5. Spoken(wire'[s][d], e2e[d].kem, Kem(c, s))
      <4> DEFINE q == wire[s][d]
                 w == wire'[s][d]
                 mine == e2e[d].kem
                 his == Kem(c, s)
      <4>1. /\ q \in Seq(Frames) /\ w = q \o <<f>> /\ Spoken(q, mine, his)
            /\ f.type = "U" => f.e2e.kem = IF Has(q, "Y") THEN his ELSE mine
        BY <1>4, <2>1, <3>3, <3>4
      <4> HIDE DEF q, w, mine, his
      <4>2. Spoken(w, mine, his)
        BY <4>1, SpokenMore
      <4> QED
        BY <4>2 DEF w, mine, his
    <3>6. Lacks(wire'[s][d], {"Q"}) /\ (Lacks(wire[s][d], {"Y"}) => Lacks(wire'[s][d], {"Y"}))
      BY <1>3, <1>4, <2>1, <3>4, OneMore
    <3>7. Has(wire[s][d], "Y") => Has(wire'[s][d], "Y")
      BY <1>4, <2>1, OneMore
    <3>8. Talking(s, c, d)'
      BY <1>2, <3>4, <3>5, <3>6 DEF Talking
    <3>9. Exchange(s, c, d)'
      BY <1>2, <2>1, <3>1, <3>6, <3>7 DEF Exchange
    <3> QED
      BY <3>8, <3>9
  <2> QED
    BY <1>2, <2>2, <2>3, <2>4 DEF CallOK, Ringing, Answered, d
<1>7. CASE n = d
  <2>1. wire'[s][d] = wire[s][d] /\ wire'[s][c] = wire[s][c] \o <<f>>
    BY <1>1, <1>2, <1>7
  <2>2. Calling(s, c, d)'
    BY <1>2, <2>1 DEF CallOK, Calling, d
  <2>3. Ringing(s, c, d)'
    BY <1>2, <1>5, <1>7, NoneIsNoStream DEF Ringing
  <2>4. ASSUME s \notin early, pq = Nodes
        PROVE  Talking(s, c, d)' /\ (conn[c] = s => Exchange(s, c, d)')
    <3>1. Talking(s, c, d) /\ (conn[c] = s => Exchange(s, c, d))
      BY <1>2, <1>7, <2>4 DEF CallOK, Answered, d
    <3>2. Talking(s, c, d)'
      BY <1>2, <2>1, <3>1 DEF Talking
    <3>3. Has(wire[s][c], "Q") => Has(wire'[s][c], "Q")
      BY <1>4, <2>1, OneMore
    <3>4. Single(wire[s][c], {"Q", "Y"}) => Single(wire'[s][c], {"Q", "Y"})
      BY <1>3, <1>4, <2>1, OneMore
    <3>5. Lacks(wire[s][c], {"Q", "Y"}) => Lacks(wire'[s][c], {"Q", "Y"})
      BY <1>3, <1>4, <2>1, OneMore
    <3>6. ASSUME conn[c] = s PROVE Exchange(s, c, d)'
      BY <1>2, <2>1, <3>1, <3>3, <3>4, <3>5, <3>6 DEF Exchange
    <3> QED
      BY <3>2, <3>6
  <2> QED
    BY <1>2, <1>7, <2>2, <2>3, <2>4 DEF CallOK, Answered, d
<1> QED
  BY <1>1, <1>6, <1>7


(* What is left when the first frame is read. *)
LEMMA Taken ==
  ASSUME NEW q \in Seq(Frames), q # <<>>, NEW w, w = Tail(q)
  PROVE  /\ \A T : Lacks(q, T) => Lacks(w, T) /\ Head(q).type \notin T
         /\ \A T : Single(q, T) => Single(w, T) /\ (Head(q).type = "Q" => Lacks(w, T))
         /\ \A t : Has(q, t) /\ Head(q).type # t => Has(w, t)
<1>1. Head(q) = q[1] /\ 1 \in DOMAIN q
  BY TailIn
<1>2. ASSUME NEW T, Lacks(q, T) PROVE Lacks(w, T) /\ Head(q).type \notin T
  <2>1. Head(q).type \notin T
    BY <1>1, <1>2 DEF Lacks
  <2> QED
    BY <1>2, <2>1, TailOrder
<1>3. ASSUME NEW T, Single(q, T) PROVE Single(w, T) /\ (Head(q).type = "Q" => Lacks(w, T))
  BY <1>3, SingleTail
<1>4. ASSUME NEW t, Has(q, t), Head(q).type # t PROVE Has(w, t)
  BY <1>4, TailOrder
<1> QED
  BY <1>2, <1>3, <1>4

(* The caller reads a frame. *)
LEMMA CallerReads ==
  ASSUME Shape, IInv, Roles, KeysOK, FramesOK, Typed, NEW c \in Nodes, NEW s \in Streams,
         ReadsOther(c, s) \/ ReadsKey(c, s), c = caller[s], CallOK(s, c, Other(c))
  PROVE  CallOK(s, c, Other(c))'
<1> DEFINE d == Other(c)
           q == wire[s][c]
           w == wire'[s][c]
           y == Frame("Y", e2e'[c])
           t == Head(wire[s][c]).type
<1>1. d \in Nodes /\ d # c /\ Nodes = {c, d}
  BY Others
<1>2. /\ Reads(c, s) /\ q # <<>> /\ w = Tail(q) /\ e2e'[d] = e2e[d]
      /\ \/ wire'[s][d] = wire[s][d] /\ ~(up[s] = Nodes /\ t = "Q")
         \/ up[s] = Nodes /\ t = "Q" /\ wire'[s][d] = wire[s][d] \o <<y>>
  <2>1. CASE ReadsOther(c, s)
    <3>1. Takes(c, s) /\ wire'[s][Other(c)] = wire[s][Other(c)]
      BY <1>1, <2>1, OtherReadFacts
    <3>2. Reads(c, s) /\ e2e' = e2e /\ t # "Q"
      BY <2>1 DEF ReadsOther
    <3> QED
      BY <1>1, <3>1, <3>2 DEF Takes
  <2>2. CASE ReadsKey(c, s)
    <3>1. Takes(c, s)
          /\ \/ /\ wire'[s][Other(c)] = wire[s][Other(c)]
                /\ ~(up[s] = Nodes /\ t = "Q")
             \/ /\ up[s] = Nodes /\ t = "Q"
                /\ wire'[s][Other(c)] = wire[s][Other(c)] \o <<y>>
      BY <1>1, <2>2, KeyReadFacts
    <3>2. Reads(c, s) /\ e2e'[d] = e2e[d]
      BY <1>1, <2>2 DEF ReadsKey
    <3> QED
      BY <1>1, <3>1, <3>2 DEF Takes
  <2> QED
    BY <2>1, <2>2
<1>3. \/ e2e'[c] = e2e[c] /\ t \in {"U", "X", "REQUEST", "QUIT"}
      \/ t = "K" /\ e2e'[c].kem = e2e[c].kem
      \/ t = "Q" /\ pq = Nodes /\ e2e'[c].kem = Kem(c, s)
      \/ t = "Y" /\ pq = Nodes /\ e2e'[c].keys = e2e[c].keys /\ e2e'[c].kem = Kem(d, s)
  BY KeyReadKeys DEF ReadsOther
<1>4. y \in Frames /\ y.type = "Y"
  BY FrameTyped DEF Typed
<1>5. q \in Seq(Frames) /\ wire[s][d] \in Seq(Frames)
  BY <1>1 DEF Shape
<1> HIDE DEF d, q, w, y, t
<1>6. /\ UNCHANGED <<pq, conn, pending, dial, offer, up, early>>
      /\ conn[c] = s /\ dial[c] = None
  <2>1. UNCHANGED <<pq, conn, pending, dial, offer, up, early>> /\ Holds(c, s)
    BY <1>2 DEF Reads, Reading, Holds
  <2> QED
    BY <2>1, HoldsOne DEF Holds, Roles
<1>7. /\ \A T : Lacks(q, T) => Lacks(w, T) /\ t \notin T
      /\ \A T : Single(q, T) => Single(w, T) /\ (t = "Q" => Lacks(w, T))
      /\ \A u : Has(q, u) /\ t # u => Has(w, u)
  BY <1>2, <1>5, Taken DEF q, w, t
<1>8. Calling(s, c, d)'
  BY <1>6, NoneIsNoStream DEF Calling
<1>9. ASSUME offer[d] = s \/ pending[d] = s PROVE Ringing(s, c, d)'
  <2>1. /\ Lacks(q, {"K", "Q", "U"}) /\ Lacks(wire[s][d], {"Y", "U"})
        /\ Single(wire[s][d], {"Q"})
        /\ e2e[c].keys[d] = Unknown /\ e2e[c].kem \in {NoKem, Kem(d, s)}
        /\ pending[d] = s =>
             \/ e2e[d].kem = NoKem
             \/ e2e[d].kem = Kem(d, s) /\ Lacks(wire[s][d], {"Q"})
    BY <1>6, <1>9 DEF CallOK, Ringing, d, q
  <2>2. Lacks(w, {"K", "Q", "U"}) /\ t \notin {"K", "Q", "U"}
    BY <1>7, <2>1
  <2>3. /\ e2e'[c].keys[d] = Unknown /\ e2e'[c].kem \in {NoKem, Kem(d, s)}
        /\ wire'[s][d] = wire[s][d]
    BY <1>2, <1>3, <2>1, <2>2
  <2> QED
    BY <1>2, <1>6, <2>1, <2>2, <2>3 DEF Ringing, w
<1>10. ASSUME s \notin early, pq = Nodes, conn[d] = s
       PROVE  Talking(s, c, d)' /\ (up[s] = Nodes => Exchange(s, c, d)')
  <2>1. Talking(s, c, d) /\ (up[s] = Nodes => Exchange(s, c, d))
    BY <1>6, <1>10 DEF CallOK, Answered, d
  <2>2. /\ Lacks(wire[s][d], {"Q"}) /\ e2e[d].kem \in {Kem(d, s), Kem(c, s)}
        /\ Spoken(wire[s][d], e2e[d].kem, Kem(c, s))
    BY <2>1 DEF Talking
  <2> DEFINE p == wire[s][d]
             v == wire'[s][d]
             mine == e2e[d].kem
             his == Kem(c, s)
  <2>3. ASSUME v = p \o <<y>>
        PROVE  Lacks(v, {"Q"}) /\ Spoken(v, mine, his) /\ Has(v, "Y")
    <3>1. p \in Seq(Frames) /\ Lacks(p, {"Q"}) /\ Spoken(p, mine, his)
      BY <1>5, <2>2
    <3>2. y.type \notin {"Q"} /\ y.type # "U" /\ y.type = "Y"
      BY <1>4
    <3> HIDE DEF p, v, mine, his
    <3> QED
      BY <1>4, <2>3, <3>1, <3>2, OneMore, SpokenMore
  <2>4. Lacks(v, {"Q"}) /\ Spoken(v, mine, his)
    BY <1>2, <2>2, <2>3
  <2>5. Talking(s, c, d)'
    BY <1>2, <2>2, <2>4 DEF Talking
  <2>6. ASSUME up[s] = Nodes PROVE Exchange(s, c, d)'
    <3>1. CASE /\ e2e[c].kem \in {NoKem, Kem(d, s)} /\ e2e[d].kem = Kem(d, s)
               /\ Lacks(wire[s][d], {"Y"})
               /\ Has(q, "Q") /\ Single(q, {"Q", "Y"})
      <4>1. CASE t = "Q"
        <5>1. /\ Lacks(w, {"Q", "Y"}) /\ v = p \o <<y>>
              /\ e2e'[c].kem = Kem(c, s)
          BY <1>2, <1>3, <1>7, <2>6, <3>1, <4>1
        <5> QED
          BY <1>6, <2>3, <5>1 DEF Exchange, w
      <4>2. CASE t # "Q"
        <5>1. /\ Has(w, "Q") /\ Single(w, {"Q", "Y"}) /\ v = p
              /\ e2e'[c].kem \in {NoKem, Kem(d, s)}
          BY <1>2, <1>3, <1>7, <3>1, <4>2
        <5> QED
          BY <1>2, <1>6, <3>1, <5>1 DEF Exchange, w
      <4> QED
        BY <4>1, <4>2
    <3>2. CASE /\ e2e[c].kem = Kem(c, s)
               /\ Lacks(q, {"Q", "Y"})
               /\ e2e[d].kem = Kem(c, s) \/ Has(wire[s][d], "Y")
      <4>1. Lacks(w, {"Q", "Y"}) /\ t \notin {"Q", "Y"}
        BY <1>7, <3>2
      <4>2. e2e'[c].kem = Kem(c, s) /\ v = p
        BY <1>2, <1>3, <3>2, <4>1
      <4> QED
        BY <1>2, <1>6, <3>2, <4>1, <4>2 DEF Exchange, w
    <3> QED
      BY <2>1, <2>6, <3>1, <3>2 DEF Exchange, q
  <2> QED
    BY <2>5, <2>6
<1> QED
  BY <1>6, <1>8, <1>9, <1>10 DEF CallOK, Ringing, Answered, d

(* The callee reads a frame. *)
LEMMA CalleeReads ==
  ASSUME Shape, IInv, Roles, KeysOK, FramesOK, Typed, NEW c \in Nodes, NEW s \in Streams,
         ReadsOther(Other(c), s) \/ ReadsKey(Other(c), s), c = caller[s], CallOK(s, c, Other(c))
  PROVE  CallOK(s, c, Other(c))'
<1> DEFINE d == Other(c)
           q == wire[s][d]
           w == wire'[s][d]
           y == Frame("Y", e2e'[d])
           t == Head(wire[s][d]).type
<1>1. d \in Nodes /\ d # c /\ Nodes = {c, d} /\ Other(d) = c
  BY Others
<1>2. /\ Reads(d, s) /\ q # <<>> /\ w = Tail(q) /\ e2e'[c] = e2e[c]
      /\ \/ wire'[s][c] = wire[s][c]
         \/ t = "Q" /\ wire'[s][c] = wire[s][c] \o <<y>>
  <2>1. CASE ReadsOther(d, s)
    <3>1. Takes(d, s) /\ wire'[s][Other(d)] = wire[s][Other(d)]
      BY <1>1, <2>1, OtherReadFacts
    <3>2. Reads(d, s) /\ e2e' = e2e /\ t # "Q"
      BY <2>1 DEF ReadsOther
    <3> QED
      BY <1>1, <3>1, <3>2 DEF Takes
  <2>2. CASE ReadsKey(d, s)
    <3>1. Takes(d, s)
          /\ \/ /\ wire'[s][Other(d)] = wire[s][Other(d)]
                /\ ~(up[s] = Nodes /\ t = "Q")
             \/ /\ up[s] = Nodes /\ t = "Q"
                /\ wire'[s][Other(d)] = wire[s][Other(d)] \o <<y>>
      BY <1>1, <2>2, KeyReadFacts
    <3>2. Reads(d, s) /\ e2e'[c] = e2e[c]
      BY <1>1, <2>2 DEF ReadsKey
    <3> QED
      BY <1>1, <3>1, <3>2 DEF Takes
  <2> QED
    BY <2>1, <2>2
<1>3. \/ e2e'[d] = e2e[d] /\ t \in {"U", "X", "REQUEST", "QUIT"}
      \/ t = "K" /\ e2e'[d].kem = e2e[d].kem
      \/ t = "Q" /\ e2e'[d].kem = Kem(d, s)
      \/ t = "Y" /\ e2e'[d].kem = Kem(c, s)
  BY <1>1, KeyReadKeys, SMTT(30) DEF ReadsOther
<1>4. y \in Frames /\ y.type = "Y"
  BY <1>1, FrameTyped DEF Typed
<1>5. q \in Seq(Frames) /\ wire[s][c] \in Seq(Frames)
  BY <1>1 DEF Shape
<1> HIDE DEF d, q, w, y, t
<1>6. UNCHANGED <<pq, conn, pending, dial, offer, up, early>>
  BY <1>2 DEF Reads
<1>7. /\ \A T : Lacks(q, T) => Lacks(w, T) /\ t \notin T
      /\ \A T : Single(q, T) => Single(w, T) /\ (t = "Q" => Lacks(w, T))
      /\ \A u : Has(q, u) /\ t # u => Has(w, u)
  BY <1>2, <1>5, Taken DEF q, w, t
<1>8. Calling(s, c, d)'
  BY <1>2, <1>6 DEF CallOK, Calling, d, q
<1>9. ASSUME offer[d] = s \/ pending[d] = s PROVE Ringing(s, c, d)'
  <2>1. /\ Lacks(wire[s][c], {"K", "Q", "U"}) /\ Lacks(q, {"Y", "U"})
        /\ Single(q, {"Q"})
        /\ conn[c] = s => e2e[c].keys[d] = Unknown /\ e2e[c].kem \in {NoKem, Kem(d, s)}
        /\ pending[d] = s =>
             \/ e2e[d].kem = NoKem
             \/ e2e[d].kem = Kem(d, s) /\ Lacks(q, {"Q"})
    BY <1>9 DEF CallOK, Ringing, d, q
  <2>2. Lacks(w, {"Y", "U"}) /\ t \notin {"Y", "U"} /\ Single(w, {"Q"})
        /\ (t = "Q" => Lacks(w, {"Q"})) /\ (Lacks(q, {"Q"}) => Lacks(w, {"Q"}) /\ t # "Q")
    BY <1>7, <2>1
  <2>3. Lacks(wire'[s][c], {"K", "Q", "U"})
    <3>1. y.type \notin {"K", "Q", "U"}
      BY <1>4
    <3> DEFINE p == wire[s][c]
               v == wire'[s][c]
               T == {"K", "Q", "U"}
    <3>2. p \in Seq(Frames) /\ Lacks(p, T) /\ (v = p \/ v = p \o <<y>>) /\ y.type \notin T
      BY <1>2, <1>5, <2>1, <3>1
    <3> HIDE DEF p, v, T
    <3>3. ASSUME v = p \o <<y>> PROVE Lacks(v, T)
      BY <1>4, <3>2, <3>3, LacksMore
    <3> QED
      BY <3>2, <3>3 DEF v, T
  <2>4. pending[d] = s => e2e'[d].kem = NoKem
                          \/ (e2e'[d].kem = Kem(d, s) /\ Lacks(w, {"Q"}))
    BY <1>3, <2>1, <2>2
  <2> QED
    BY <1>2, <1>6, <2>1, <2>2, <2>3, <2>4 DEF Ringing, w
<1>10. ASSUME s \notin early, pq = Nodes, conn[d] = s
       PROVE  Talking(s, c, d)' /\ (conn[c] = s /\ up[s] = Nodes => Exchange(s, c, d)')
  <2>1. Talking(s, c, d) /\ (conn[c] = s /\ up[s] = Nodes => Exchange(s, c, d))
    BY <1>6, <1>10 DEF CallOK, Answered, d
  <2>2. /\ Lacks(q, {"Q"}) /\ e2e[d].kem \in {Kem(d, s), Kem(c, s)}
        /\ Spoken(q, e2e[d].kem, Kem(c, s))
    BY <2>1 DEF Talking, q
  <2>3. Lacks(w, {"Q"}) /\ t # "Q" /\ wire'[s][c] = wire[s][c]
    BY <1>2, <1>7, <2>2
  <2>4. e2e'[d].kem = (IF t = "Y" THEN Kem(c, s) ELSE e2e[d].kem)
    BY <1>3, <2>3
  <2>5. Spoken(w, e2e'[d].kem, Kem(c, s))
    <3>1. /\ t # "Y" => Spoken(w, e2e[d].kem, Kem(c, s))
          /\ t = "Y" => Spoken(w, Kem(c, s), Kem(c, s))
      BY <1>2, <1>5, <2>2, SpokenTail DEF t, q
    <3> QED
      BY <2>4, <3>1
  <2>6. Talking(s, c, d)'
    BY <2>2, <2>3, <2>4, <2>5 DEF Talking, w
  <2>7. ASSUME conn[c] = s, up[s] = Nodes PROVE Exchange(s, c, d)'
    <3>1. CASE /\ e2e[c].kem \in {NoKem, Kem(d, s)} /\ e2e[d].kem = Kem(d, s)
               /\ Lacks(q, {"Y"})
               /\ Has(wire[s][c], "Q") /\ Single(wire[s][c], {"Q", "Y"})
      <4>1. Lacks(w, {"Y"}) /\ t # "Y"
        BY <1>7, <3>1
      <4> QED
        BY <1>2, <1>6, <2>3, <2>4, <3>1, <4>1 DEF Exchange, w
    <3>2. CASE /\ e2e[c].kem = Kem(c, s)
               /\ Lacks(wire[s][c], {"Q", "Y"})
               /\ e2e[d].kem = Kem(c, s) \/ Has(q, "Y")
      <4>1. e2e'[d].kem = Kem(c, s) \/ Has(w, "Y")
        BY <1>7, <2>4, <3>2
      <4> QED
        BY <1>2, <1>6, <2>3, <3>2, <4>1 DEF Exchange, w
    <3> QED
      BY <2>1, <2>7, <3>1, <3>2 DEF Exchange, q
  <2> QED
    BY <2>6, <2>7
<1> QED
  BY <1>6, <1>8, <1>9, <1>10 DEF CallOK, Ringing, Answered, d


LEMMA CallsStep ==
  ASSUME Shape, IInv, Roles, Unused, FramesOK, KeysOK, CallsOK, Typed,
         Idle \/ \E n \in Nodes : StepOf(n)
  PROVE  CallsOK'
<1>0. ASSUME NEW s \in Streams PROVE CallOK(s, caller[s], Other(caller[s])) /\ caller[s] \in Nodes
  BY DEF CallsOK, Shape
<1>a. ASSUME NEW n \in Nodes, NEW s \in Streams, Withdraws(n, s)
      PROVE  CallOK(s, caller[s], Other(caller[s]))'
  <2>1. caller'[s] = caller[s]
    BY <1>a DEF Withdraws
  <2>2. ASSUME NEW c \in Nodes, c = caller[s] PROVE CallOK(s, c, Other(c))'
    BY <1>0, <1>a, <2>2, WithdrawsKeeps
  <2> QED
    BY <1>0, <2>1, <2>2
<1>b. ASSUME \A s \in Streams : CallOK(s, caller[s], Other(caller[s]))' PROVE CallsOK'
  BY <1>b DEF CallsOK
<1>c. ASSUME NEW s \in Streams, caller'[s] = caller[s],
             \A c \in Nodes : c = caller[s] => CallOK(s, c, Other(c))'
      PROVE  CallOK(s, caller[s], Other(caller[s]))'
  BY <1>0, <1>c
<1>1. CASE Idle
  <2>1. ASSUME NEW s \in Streams PROVE Withdraws(Low, s)
    BY <1>1 DEF Idle, callVars, Withdraws
  <2>2. Low \in Nodes
    BY DEF Nodes
  <2> QED
    BY <1>a, <1>b, <2>1, <2>2
<1>2. ASSUME NEW n \in Nodes, Dial(n) PROVE CallsOK'
  <2>1. /\ budget.calls \in Streams /\ Untouched(budget.calls)
        /\ dial' = [dial EXCEPT ![n] = budget.calls]
        /\ caller' = [caller EXCEPT ![budget.calls] = n]
        /\ UNCHANGED <<pq, conn, pending, offer, e2e, up, wire, early>>
    BY <1>2, DialFacts
  <2>2. /\ \A m \in Nodes : dial'[m] = IF m = n THEN budget.calls ELSE dial[m]
        /\ \A s \in Streams : caller'[s] = IF s = budget.calls THEN n ELSE caller[s]
    BY <2>1 DEF Shape, CallTypes
  <2>3. ASSUME NEW s \in Streams, s # budget.calls PROVE Withdraws(n, s)
    BY <2>1, <2>2, <2>3 DEF Withdraws
  <2>4. ASSUME NEW s \in Streams, s = budget.calls
        PROVE  CallOK(s, caller[s], Other(caller[s]))'
    <3>1. \A m \in Nodes : wire'[s][m] = <<>> /\ ~Holds(m, s)'
      BY <2>1, <2>4 DEF Untouched, Holds
    <3>2. caller'[s] \in Nodes
      BY <2>2, <2>4
    <3> QED
      BY <3>1, <3>2, NewCall
  <2> QED
    BY <1>a, <1>b, <2>3, <2>4
<1>3. ASSUME NEW n \in Nodes, Reach(n) PROVE CallsOK'
  <2>1. /\ dial[n] \in Streams /\ up[dial[n]] = {}
        /\ up' = [up EXCEPT ![dial[n]] = Nodes]
        /\ offer' = [offer EXCEPT ![Other(n)] = dial[n]]
        /\ UNCHANGED <<pq, conn, pending, dial, e2e, caller, wire, early>>
    BY <1>3, ReachFacts
  <2>2. Untouched(dial[n])
    BY <2>1 DEF Unused
  <2>3. /\ \A m \in Nodes : offer'[m] = IF m = Other(n) THEN dial[n] ELSE offer[m]
        /\ \A s \in Streams : s # dial[n] => up'[s] = up[s]
    BY <2>1, Others DEF Shape, CallTypes
  <2>4. ASSUME NEW s \in Streams, s # dial[n] PROVE Withdraws(n, s)
    BY <2>1, <2>3, <2>4 DEF Withdraws
  <2>5. ASSUME NEW s \in Streams, s = dial[n]
        PROVE  CallOK(s, caller[s], Other(caller[s]))'
    <3>1. \A m \in Nodes : wire'[s][m] = <<>> /\ ~Holds(m, s)'
      BY <2>1, <2>2, <2>5 DEF Untouched, Holds
    <3>2. caller'[s] \in Nodes
      BY <1>0, <2>1
    <3> QED
      BY <3>1, <3>2, NewCall
  <2> QED
    BY <1>a, <1>b, <2>4, <2>5
<1>4. ASSUME NEW n \in Nodes, Connected(n) PROVE CallsOK'
  <2>1. /\ dial[n] \in Streams /\ pending[n] = None
        /\ dial' = [dial EXCEPT ![n] = None] /\ conn' = [conn EXCEPT ![n] = dial[n]]
        /\ e2e' = [e2e EXCEPT ![n] = Fresh(n, dial[n])]
        /\ UNCHANGED <<pq, pending, offer, caller, up, early>>
        /\ \A r \in Streams : r # dial[n] => wire'[r] = wire[r]
    BY <1>4, ConnectedFacts
  <2>2. /\ \A m \in Nodes : dial'[m] = IF m = n THEN None ELSE dial[m]
        /\ \A m \in Nodes : conn'[m] = IF m = n THEN dial[n] ELSE conn[m]
        /\ \A m \in Nodes : m # n => e2e'[m] = e2e[m]
    BY <2>1 DEF Shape, CallTypes
  <2>3. ASSUME NEW s \in Streams, s # dial[n] PROVE Withdraws(n, s)
    BY <2>1, <2>2, <2>3, NoneIsNoStream DEF Withdraws
  <2>4. ASSUME NEW s \in Streams, s = dial[n]
        PROVE  CallOK(s, caller[s], Other(caller[s]))'
    <3>1. caller[s] = n /\ caller'[s] = n
      BY <2>1, <2>4 DEF Roles
    <3>2. CallOK(s, n, Other(n))'
      BY <1>0, <1>4, <2>4, <3>1, ConnectedKeeps
    <3> QED
      BY <3>1, <3>2
  <2> QED
    BY <1>a, <1>b, <2>3, <2>4
<1>5. ASSUME NEW n \in Nodes, LetsRing(n) PROVE CallsOK'
  <2>1. /\ offer[n] \in Streams /\ conn[n] = None
        /\ offer' = [offer EXCEPT ![n] = None] /\ dial' = [dial EXCEPT ![n] = None]
        /\ pending' = [pending EXCEPT ![n] = offer[n]]
        /\ e2e' = [e2e EXCEPT ![n] = Fresh(n, offer[n])]
        /\ UNCHANGED <<pq, conn, caller, early>>
    BY <1>5, RingFacts
  <2>2. \A r \in Streams :
              \/ up'[r] = up[r] /\ wire'[r] = wire[r]
              \/ /\ up'[r] = up[r] \ {n}
                 /\ wire'[r][n] = <<>> /\ wire'[r][Other(n)] = wire[r][Other(n)]
    BY <1>5, RingFacts
  <2>3. /\ \A m \in Nodes : dial'[m] = IF m = n THEN None ELSE dial[m]
        /\ \A m \in Nodes : offer'[m] = IF m = n THEN None ELSE offer[m]
        /\ \A m \in Nodes : pending'[m] = IF m = n THEN offer[n] ELSE pending[m]
        /\ \A m \in Nodes : m # n => e2e'[m] = e2e[m]
    BY <2>1 DEF Shape, CallTypes
  <2>4. ASSUME NEW s \in Streams, s # offer[n] PROVE Withdraws(n, s)
    <3>1. \A m \in Nodes :
            /\ conn'[m] = s => conn[m] = s /\ e2e'[m] = e2e[m]
            /\ pending'[m] = s => pending[m] = s /\ e2e'[m] = e2e[m]
            /\ dial'[m] = s => dial[m] = s
            /\ offer'[m] = s => offer[m] = s
      BY <2>1, <2>3, <2>4, NoneIsNoStream
    <3>2. \/ up'[s] = up[s] /\ wire'[s] = wire[s]
          \/ Shuts(n, s) /\ dial'[n] # s
      BY <2>2, <2>3, NoneIsNoStream DEF Shuts
    <3> QED
      BY <2>1, <3>1, <3>2 DEF Withdraws
  <2>5. ASSUME NEW s \in Streams, s = offer[n]
        PROVE  CallOK(s, caller[s], Other(caller[s]))'
    <3>1. ASSUME NEW c \in Nodes, c = caller[s] PROVE CallOK(s, c, Other(c))'
      BY <1>0, <1>5, <2>5, <3>1, RingKeeps
    <3> QED
      BY <1>c, <2>1, <3>1
  <2> QED
    BY <1>a, <1>b, <2>4, <2>5
<1>6. ASSUME NEW n \in Nodes, Accept(n) PROVE CallsOK'
  <2>1. /\ pending[n] \in Streams
        /\ conn' = [conn EXCEPT ![n] = pending[n]] /\ pending' = [pending EXCEPT ![n] = None]
        /\ UNCHANGED <<pq, dial, offer, e2e, caller, up>>
        /\ early' = IF n \in pq /\ e2e[n].kem = NoKem THEN early \cup {pending[n]} ELSE early
        /\ \A r \in Streams : r # pending[n] => wire'[r] = wire[r]
    BY <1>6, AcceptFacts
  <2>2. /\ \A m \in Nodes : conn'[m] = IF m = n THEN pending[n] ELSE conn[m]
        /\ \A m \in Nodes : pending'[m] = IF m = n THEN None ELSE pending[m]
    BY <2>1 DEF Shape, CallTypes
  <2>3. ASSUME NEW s \in Streams, s # pending[n] PROVE Withdraws(n, s)
    BY <2>1, <2>2, <2>3, NoneIsNoStream DEF Withdraws
  <2>4. ASSUME NEW s \in Streams, s = pending[n]
        PROVE  CallOK(s, caller[s], Other(caller[s]))'
    <3>1. ASSUME NEW c \in Nodes, c = caller[s] PROVE CallOK(s, c, Other(c))'
      BY <1>0, <1>6, <2>4, <3>1, AcceptKeeps
    <3> QED
      BY <1>c, <2>1, <3>1
  <2> QED
    BY <1>a, <1>b, <2>3, <2>4
<1>7. ASSUME NEW n \in Nodes, Retreats(n) PROVE CallsOK'
  <2>1. ASSUME NEW s \in Streams PROVE Withdraws(n, s)
    <3>1. ASSUME NEW m \in Nodes
          PROVE  /\ conn'[m] = s => conn[m] = s /\ e2e'[m] = e2e[m]
                 /\ pending'[m] = s => pending[m] = s /\ e2e'[m] = e2e[m]
                 /\ dial'[m] = s => dial[m] = s
                 /\ offer'[m] = s => offer[m] = s
      <4>1. CASE m = n
        BY <1>7, <4>1, NoneIsNoStream DEF Retreats
      <4>2. CASE m # n
        BY <1>7, <4>2 DEF Retreats, Alone
      <4> QED
        BY <4>1, <4>2
    <3>2. \/ up'[s] = up[s] /\ wire'[s] = wire[s]
          \/ Shuts(n, s) /\ (n \in up[s] => dial'[n] # s)
      <4>1. \/ up'[s] = up[s] /\ wire'[s] = wire[s]
            \/ Shuts(n, s)
        BY <1>7 DEF Retreats
      <4>2. n \in up[s] \ up'[s] => dial'[n] # s
        BY <1>7 DEF Retreats
      <4>3. Shuts(n, s) => n \notin up'[s]
        BY DEF Shuts
      <4> QED
        BY <4>1, <4>2, <4>3
    <3>3. UNCHANGED <<pq, caller, early>>
      BY <1>7 DEF Retreats
    <3> QED
      BY <3>1, <3>2, <3>3 DEF Withdraws
  <2> QED
    BY <1>a, <1>b, <2>1
<1>8. ASSUME NEW n \in Nodes, NEW f \in Frames, Tells(n, f) PROVE CallsOK'
  <2>1. /\ conn[n] \in Streams
        /\ UNCHANGED <<pq, conn, pending, dial, offer, e2e, caller, up, early>>
    BY <1>8 DEF Tells
  <2>2. \A r \in Streams : r # conn[n] => wire'[r] = wire[r]
    BY <1>8, TellFacts
  <2>3. ASSUME NEW s \in Streams, s # conn[n] PROVE Withdraws(n, s)
    BY <2>1, <2>2, <2>3 DEF Withdraws
  <2>4. ASSUME NEW s \in Streams, s = conn[n]
        PROVE  CallOK(s, caller[s], Other(caller[s]))'
    <3>1. ASSUME NEW c \in Nodes, c = caller[s] PROVE CallOK(s, c, Other(c))'
      BY <1>0, <1>8, <2>4, <3>1, TellsKeeps
    <3> QED
      BY <1>c, <2>1, <3>1
  <2> QED
    BY <1>a, <1>b, <2>3, <2>4
<1>9. ASSUME NEW n \in Nodes, NEW r \in Streams, ReadsOther(n, r) \/ ReadsKey(n, r)
      PROVE  CallsOK'
  <2>1. /\ Reads(n, r) /\ Takes(n, r) /\ \A m \in Nodes : m # n => e2e'[m] = e2e[m]
    BY <1>9, OtherReadFacts, KeyReadFacts DEF ReadsOther, ReadsKey
  <2>2. /\ UNCHANGED <<pq, conn, pending, dial, offer, caller, up, early>>
        /\ Holds(n, r)
        /\ \A s \in Streams : s # r => wire'[s] = wire[s]
    BY <2>1 DEF Reads, Reading, Holds, Takes
  <2>3. ASSUME NEW s \in Streams, s # r PROVE Withdraws(n, s)
    <3>1. ~Holds(n, s)
      BY <2>2, <2>3, HoldsOne
    <3> QED
      BY <2>1, <2>2, <2>3, <3>1 DEF Withdraws, Holds
  <2>4. CallOK(r, caller[r], Other(caller[r]))'
    <3>1. ASSUME NEW c \in Nodes, c = caller[r] PROVE CallOK(r, c, Other(c))'
      <4>1. CASE n = c
        BY <1>0, <1>9, <3>1, <4>1, CallerReads
      <4>2. CASE n = Other(c)
        BY <1>0, <1>9, <3>1, <4>2, CalleeReads
      <4> QED
        BY <4>1, <4>2, Others
    <3> QED
      BY <1>c, <2>2, <3>1
  <2> QED
    BY <1>a, <1>b, <2>3, <2>4
<1> QED
  BY <1>1, <1>2, <1>3, <1>4, <1>5, <1>6, <1>7, <1>8, <1>9 DEF StepOf


-----------------------------------------------------------------------------
(***************************************************************************)
(* Messages                                                                *)
(***************************************************************************)
(* The types of the rest. *)
RestTypes ==
  /\ locked \subseteq Nodes
  /\ todo \in [Nodes -> SUBSET {"sync", "send"}]
  /\ silent \subseteq Streams
  /\ refused \subseteq Streams \X {"no identity", "established", "preference"}
  /\ garbled \subseteq Streams \X Nodes

(* n reads a message on s with another key. *)
Garbles(n, s) ==
  /\ Reading(n, s) /\ wire[s][n] # <<>>
  /\ Head(wire[s][n]).type = "U"
  /\ ~(Head(wire[s][n]).e2e = e2e[n] /\ Ready(n, e2e[n]))
  /\ garbled' = garbled \cup {<<s, n>>}
  /\ UNCHANGED <<pq, caller, torn, early, budget>>

(* What reading does to the rest. *)
LEMMA ReceiveRest ==
  ASSUME Shape, RestTypes, NEW n \in Nodes, NEW s \in Streams, Receive(n, s)
  PROVE  RestTypes' /\ (garbled' = garbled \/ Garbles(n, s))
<1> DEFINE f == Head(wire[s][n])
           q == [wire EXCEPT ![s][n] = Tail(@)]
<1>1. CASE EndPending(n)
  BY <1>1 DEF EndPending, pairVars, histVars, RestTypes
<1>2. CASE /\ \/ f.type = "K" /\ GetK(n, s, f, q)
              \/ f.type = "Q" /\ GetQ(n, s, f, q)
              \/ f.type = "Y" /\ GetY(n, s, f, q)
              \/ f.type \in {"Q", "Y"} /\ GetUnwanted(n, s, f, q)
              \/ f.type = "U" /\ GetU(n, s, f, q)
              \/ f.type = "X" /\ GetX(n, s, f, q)
              \/ f.type = "REQUEST" /\ GetRequest(n, s, f, q)
              \/ f.type = "QUIT" /\ GetQuit(n, s, f, q)
           /\ UNCHANGED <<pq, locked, caller, silent, budget, refused, torn, early>>
  <2>1. Reading(n, s) /\ wire[s][n] # <<>>
    BY DEF Receive
  <2> HIDE DEF f, q
  <2>2. ASSUME NEW task \in {"sync", "send"}, Schedule(n, task)
        PROVE  todo' \in [Nodes -> SUBSET {"sync", "send"}]
    BY <2>2 DEF Schedule, RestTypes
  <2>3. ASSUME NEW e, NEW mark, NewKeys(n, e, mark)
        PROVE  todo' \in [Nodes -> SUBSET {"sync", "send"}]
    BY <2>2, <2>3 DEF NewKeys, RestTypes
  <2>4. CASE GetK(n, s, f, q) \/ GetQ(n, s, f, q) \/ GetY(n, s, f, q)
    BY <1>2, <2>3, <2>4 DEF GetK, GetQ, GetY, RestTypes
  <2>5. CASE GetUnwanted(n, s, f, q) \/ GetX(n, s, f, q) \/ GetQuit(n, s, f, q)
    BY <1>2, <2>5 DEF GetUnwanted, GetX, GetQuit, RestTypes
  <2>6. CASE GetRequest(n, s, f, q)
    BY <1>2, <2>2, <2>6 DEF GetRequest, RestTypes
  <2>7. CASE f.type = "U" /\ GetU(n, s, f, q)
    <3>1. garbled' = (IF f.e2e = e2e[n] /\ Ready(n, e2e[n]) THEN garbled
                      ELSE garbled \cup {<<s, n>>}) /\ todo' = todo
      BY <2>7 DEF GetU
    <3>2. garbled' = garbled \/ Garbles(n, s)
      BY <1>2, <2>1, <2>7, <3>1 DEF Garbles, f
    <3>3. <<s, n>> \in Streams \X Nodes
      OBVIOUS
    <3>4. garbled' \subseteq Streams \X Nodes
      BY <3>1, <3>3 DEF RestTypes
    <3> QED
      BY <1>2, <3>1, <3>2, <3>4 DEF RestTypes
  <2> QED
    BY <1>2, <2>4, <2>5, <2>6, <2>7
<1> QED
  BY <1>1, <1>2 DEF Receive

LEMMA RestStep ==
  ASSUME Shape, RestTypes, [Next]_vars
  PROVE  RestTypes' /\ (garbled' = garbled \/ \E n \in Nodes, s \in Streams : Garbles(n, s))
<1>1. CASE UNCHANGED <<locked, todo, silent, refused, garbled>>
  BY <1>1 DEF RestTypes
<1>2. ASSUME NEW n \in Nodes, Dial(n) \/ Reach(n) \/ DialFails(n) \/ Connected(n) \/ Listen(n)
      PROVE  UNCHANGED <<locked, todo, silent, refused, garbled>>
  BY <1>2 DEF Dial, Reach, DialFails, Connected, Listen, pairVars, netVars, histVars
<1>3. ASSUME NEW n \in Nodes, Identify(n) PROVE RestTypes' /\ garbled' = garbled
  <2>1. UNCHANGED <<locked, todo, silent, garbled>> /\ offer[n] \in Streams
    BY <1>3 DEF Identify, pairVars, Shape, CallTypes, Ends
  <2>2. \/ refused' = refused
        \/ \E why \in {"no identity", "established", "preference"} :
             refused' = refused \cup {<<offer[n], why>>}
    BY <1>3 DEF Identify, Refuse
  <2>3. ASSUME NEW why \in {"no identity", "established", "preference"}
        PROVE  <<offer[n], why>> \in Streams \X {"no identity", "established", "preference"}
    BY <2>1
  <2>4. refused' \subseteq Streams \X {"no identity", "established", "preference"}
    BY <2>2, <2>3 DEF RestTypes
  <2> QED
    BY <2>1, <2>4 DEF RestTypes
<1>4. ASSUME NEW n \in Nodes, Accept(n) \/ Decline(n) \/ PendingEnded(n)
      PROVE  UNCHANGED <<locked, todo, silent, refused, garbled>>
  BY <1>4 DEF Accept, Decline, PendingEnded, EndPending, pairVars, histVars
<1>5. ASSUME NEW n \in Nodes, Disconnect(n) \/ ReceiveLoopEnds(n) \/ HeartbeatTimeout(n) \/ Say(n)
      PROVE  UNCHANGED <<locked, todo, silent, refused, garbled>>
  BY <1>5 DEF Disconnect, ReceiveLoopEnds, HangUp, HeartbeatTimeout, Say, pairVars, histVars
<1>6. ASSUME NEW n \in Nodes, Exit(n) PROVE RestTypes' /\ garbled' = garbled
  BY <1>6 DEF Exit, histVars, RestTypes
<1>7. ASSUME NEW n \in Nodes, Lock(n) PROVE RestTypes' /\ garbled' = garbled
  BY <1>7 DEF Lock, netVars, histVars, RestTypes
<1>8. ASSUME NEW n \in Nodes, Unlock(n) PROVE RestTypes' /\ garbled' = garbled
  BY <1>8 DEF Unlock, netVars, histVars, RestTypes
<1>9. ASSUME NEW n \in Nodes, RunTask(n) PROVE RestTypes' /\ garbled' = garbled
  <2>1. PICK task \in todo[n] : todo' = [todo EXCEPT ![n] = @ \ {task}]
    BY <1>9 DEF RunTask
  <2>2. UNCHANGED <<locked, silent, refused, garbled>>
    BY <1>9 DEF RunTask, histVars
  <2> QED
    BY <2>1, <2>2 DEF RestTypes
<1>10. ASSUME NEW s \in Streams, Break(s) PROVE RestTypes' /\ garbled' = garbled
  BY <1>10 DEF Break, pairVars, histVars, RestTypes
<1>11. CASE UNCHANGED vars
  BY <1>1, <1>11 DEF vars, pairVars, netVars, histVars
<1>12. ASSUME NEW n \in Nodes, NEW s \in Streams, Receive(n, s)
       PROVE  RestTypes' /\ (garbled' = garbled \/ Garbles(n, s))
  BY <1>12, ReceiveRest
<1> QED
  BY <1>1, <1>2, <1>3, <1>4, <1>5, <1>6, <1>7, <1>8, <1>9, <1>10, <1>11, <1>12 DEF Next

(* A message that cannot be read came on a stream that was called. *)
GarbledUsed == \A s \in Streams, n \in Nodes : <<s, n>> \in garbled => ~(s <= budget.calls)

(* What makes a message readable: the keys of both, that a reader who gets a *)
(* message has.                                                              *)
LEMMA ReadsIt ==
  ASSUME Shape, IInv, Roles, FramesOK, KeysOK, HelloFirst, CallsOK,
         NEW n \in Nodes, NEW s \in Streams, Garbles(n, s), s \notin torn, pq # {n}
  PROVE  pq = Nodes /\ (n = caller[s] \/ s \in early)
<1> DEFINE m == Other(n)
           f == Head(wire[s][n])
<1>1. m \in Nodes /\ m # n /\ Nodes = {n, m} /\ Other(m) = n
  BY Others
<1>2. wire[s][n] \in Seq(Frames) /\ wire[s][n] # <<>> /\ Holds(n, s)
  BY DEF Garbles, Shape, Reading, Holds
<1>3. f = wire[s][n][1] /\ 1 \in DOMAIN wire[s][n] /\ f \in Frames /\ DOMAIN wire[s][n] = 1..Len(wire[s][n])
  BY <1>2, TailIn
<1>4. \A t : ~Before(wire[s][n], 1, t)
  BY <1>2, <1>3 DEF Before
<1>5. f.type = "U" /\ ~(f.e2e = e2e[n] /\ Ready(n, e2e[n]))
  BY DEF Garbles
<1>6. f.e2e \in E2Es /\ e2e[n] \in E2Es /\ pq \subseteq Nodes
  BY <1>3 DEF Frames, Shape
<1> HIDE DEF f, m
<1>7. Knows(n, s)
  BY <1>3, <1>4, <1>5 DEF HelloFirst, KeyFirst
<1>8. \A k \in Nodes : e2e[n].keys[k] = s
  BY <1>1, <1>7 DEF KeysOK, Knows, m
<1>9. /\ \A k \in Nodes : f.e2e.keys[k] = s
      /\ IF m \in pq THEN pq = Nodes ELSE f.e2e.kem = NoKem
  BY <1>3, <1>5 DEF FramesOK, FrameOK, m
<1>10. f.e2e.keys = e2e[n].keys
  BY <1>6, <1>8, <1>9 DEF E2Es
<1>11. f.e2e.kem = e2e[n].kem => f.e2e = e2e[n]
  BY <1>6, <1>10 DEF E2Es
<1>12. (n \in pq => e2e[n].kem # NoKem) => Ready(n, e2e[n])
  BY <1>1, <1>8, UnknownIsNoStream DEF Ready, m
<1>13. e2e[n].kem # NoKem => pq = Nodes
  BY <1>2 DEF KeysOK
<1>14. pq = Nodes
  <2>1. SUFFICES ASSUME pq # Nodes PROVE FALSE
    OBVIOUS
  <2>2. m \notin pq /\ f.e2e.kem = NoKem
    BY <1>9, <2>1
  <2>3. n \notin pq
    BY <1>1, <1>6, <2>2
  <2> QED
    BY <1>5, <1>11, <1>12, <1>13, <2>1, <2>2, <2>3
<1>15. ASSUME n # caller[s], s \notin early PROVE FALSE
  <2>1. caller[s] = m
    BY <1>1, <1>15 DEF Shape
  <2>2. CallOK(s, m, n)
    BY <1>1, <2>1 DEF CallsOK
  <2>3. conn[n] = s
    <3>1. pending[n] # s
      BY <1>3, <1>5, <2>2 DEF CallOK, Ringing, Lacks
    <3> QED
      BY <1>2, <3>1 DEF Holds
  <2>4. Talking(s, m, n)
    BY <1>14, <1>15, <2>2, <2>3 DEF CallOK, Answered
  <2>5. f.e2e.kem = e2e[n].kem
    BY <1>3, <1>4, <1>5, <2>4 DEF Talking, Spoken
  <2>6. e2e[n].kem # NoKem
    <3>1. e2e[n].kem \in {Kem(n, s), Kem(m, s)}
      BY <2>4 DEF Talking
    <3>2. Kem(n, s) # NoKem /\ Kem(m, s) # NoKem
      BY DEF Kem, NoKem
    <3> QED
      BY <3>1, <3>2
  <2> QED
    BY <1>5, <1>11, <1>12, <2>5, <2>6
<1> QED
  BY <1>14, <1>15


(* What a step never takes back. *)
LEMMA HistoryStep ==
  ASSUME Shape, IInv, Unused, Idle \/ \E n \in Nodes : StepOf(n)
  PROVE  /\ torn \subseteq torn' /\ early \subseteq early' /\ pq' = pq
         /\ \A s \in Streams :
              /\ s <= budget'.calls => s <= budget.calls
              /\ ~(s <= budget.calls) => caller'[s] = caller[s]
<1>1. CASE UNCHANGED <<pq, caller, torn, early>> /\ budget'.calls = budget.calls
  BY <1>1
<1>2. ASSUME NEW n \in Nodes, Dial(n)
      PROVE  /\ UNCHANGED <<pq, torn, early>>
             /\ \A s \in Streams :
                  /\ s <= budget'.calls => s <= budget.calls
                  /\ ~(s <= budget.calls) => caller'[s] = caller[s]
  <2>1. /\ UNCHANGED <<pq, torn, early>> /\ budget.calls \in Nat
        /\ budget'.calls = budget.calls - 1
        /\ caller' = [caller EXCEPT ![budget.calls] = n]
    BY <1>2, DialFacts
  <2>2. \A s \in Streams : s \in Int
    BY DEF Streams
  <2> QED
    BY <2>1, <2>2 DEF Shape
<1>3. ASSUME NEW n \in Nodes, Accept(n)
      PROVE  /\ UNCHANGED <<pq, caller, budget>> /\ torn \subseteq torn' /\ early \subseteq early'
  BY <1>3, AcceptFacts
<1>4. ASSUME NEW n \in Nodes,
             \/ Reach(n) \/ Connected(n) \/ LetsRing(n) \/ Retreats(n)
             \/ \E f \in Frames : Tells(n, f)
             \/ \E s \in Streams : ReadsOther(n, s) \/ ReadsKey(n, s)
      PROVE  UNCHANGED <<pq, caller, torn, early>> /\ budget'.calls = budget.calls
  BY <1>4, ReachFacts, ConnectedFacts
     DEF LetsRing, Retreats, Tells, ReadsOther, ReadsKey, Reads
<1>5. CASE Idle
  BY <1>1, <1>5 DEF Idle, callVars
<1> QED
  BY <1>1, <1>2, <1>3, <1>4, <1>5 DEF StepOf

LEMMA ReadStep ==
  ASSUME Shape, IInv, Roles, Unused, FramesOK, KeysOK, HelloFirst, CallsOK,
         GarbledUsed, MessagesAreRead,
         Idle \/ \E n \in Nodes : StepOf(n),
         garbled' = garbled \/ \E n \in Nodes, s \in Streams : Garbles(n, s)
  PROVE  GarbledUsed' /\ MessagesAreRead'
<1>1. /\ torn \subseteq torn' /\ early \subseteq early' /\ pq' = pq
      /\ \A s \in Streams :
           /\ s <= budget'.calls => s <= budget.calls
           /\ ~(s <= budget.calls) => caller'[s] = caller[s]
  BY HistoryStep
<1>2. ASSUME NEW s \in Streams, NEW n \in Nodes, <<s, n>> \in garbled
      PROVE  /\ ~(s <= budget'.calls)
             /\ \/ s \in torn'
                \/ pq' = Nodes /\ (n = caller'[s] \/ s \in early')
                \/ pq' = {n}
  <2>1. ~(s <= budget.calls)
    BY <1>2 DEF GarbledUsed
  <2>2. \/ s \in torn
        \/ pq = Nodes /\ (n = caller[s] \/ s \in early)
        \/ pq = {n}
    BY <1>2 DEF MessagesAreRead
  <2> QED
    BY <1>1, <2>1, <2>2
<1>3. ASSUME NEW s \in Streams, NEW n \in Nodes, Garbles(n, s)
      PROVE  /\ ~(s <= budget'.calls)
             /\ \/ s \in torn'
                \/ pq' = Nodes /\ (n = caller'[s] \/ s \in early')
                \/ pq' = {n}
  <2>1. Holds(n, s)
    BY <1>3 DEF Garbles, Reading, Holds
  <2>2. ~(s <= budget.calls)
    BY <2>1 DEF Unused, Untouched
  <2>3. UNCHANGED <<pq, caller, torn, early>>
    BY <1>3 DEF Garbles
  <2> QED
    BY <1>1, <1>3, <2>2, <2>3, ReadsIt
<1>4. ASSUME NEW s \in Streams, NEW n \in Nodes, <<s, n>> \in garbled'
      PROVE  <<s, n>> \in garbled \/ Garbles(n, s)
  BY <1>4 DEF Garbles
<1> QED
  BY <1>2, <1>3, <1>4 DEF GarbledUsed, MessagesAreRead

-----------------------------------------------------------------------------
(***************************************************************************)
(* The session                                                             *)
(***************************************************************************)
SessionInv ==
  /\ Shape /\ IInv /\ Roles /\ Unused
  /\ FramesOK /\ KeysOK /\ HelloFirst /\ CallsOK
  /\ SecretsOK /\ RestTypes /\ GarbledUsed /\ MessagesAreRead

LEMMA InitSession == Init => SessionInv
<1> SUFFICES ASSUME Init PROVE SessionInv
  OBVIOUS
<1>1. IInv
  BY InitInv
<1>2. /\ \A s \in Streams, n \in Nodes : wire[s][n] = <<>>
      /\ \A n \in Nodes : ~live[n]
      /\ \A n \in Nodes, s \in Streams : dial[n] # s /\ conn[n] # s /\ pending[n] # s /\ offer[n] # s
      /\ torn = {} /\ early = {} /\ garbled = {} /\ renewed = FALSE /\ secrets = 0
      /\ \A s \in Streams : up[s] = {}
  BY NoneIsNoStream DEF Init
<1>3. \A n \in Nodes : Fresh(n, None) \in E2Es
  BY FreshTyped DEF Ids
<1>4. Shape
  <2>1. e2e \in [Nodes -> E2Es]
    BY <1>3 DEF Init
  <2>2. wire \in [Streams -> [Nodes -> Seq(Frames)]]
    BY DEF Init
  <2>3. /\ pq \subseteq Nodes /\ live \in [Nodes -> BOOLEAN] /\ caller \in [Streams -> Nodes]
        /\ secrets \in Nat /\ secret \in [Nodes -> 0..secrets]
    BY DEF Init, Nodes, None
  <2> QED
    BY <1>1, <1>2, <2>1, <2>2, <2>3 DEF Shape, IInv
<1>5. Roles
  BY <1>2 DEF Roles
<1>6. Unused
  BY <1>2 DEF Unused, Untouched, Holds
<1>7. FramesOK
  BY <1>2 DEF FramesOK
<1>8. KeysOK
  BY <1>2 DEF KeysOK, Holds
<1>9. HelloFirst
  <2>1. \A n \in Nodes : Other(n) \in Nodes
    BY Others
  <2> QED
    BY <1>2, <2>1 DEF HelloFirst, KeyFirst
<1>10. CallsOK
  <2>1. \A c \in Nodes : Other(c) \in Nodes
    BY Others
  <2> QED
    BY <1>2, <2>1 DEF CallsOK, CallOK, Calling, Ringing, Answered
<1>11. SecretsOK
  <2>1. secrets \in Nat /\ secret \in [Nodes -> 0..secrets]
    BY <1>4 DEF Shape
  <2>2. \A n \in Nodes : secret[n] = None
    BY DEF Init
  <2>3. Low \in Nodes /\ High \in Nodes
    BY DEF Nodes
  <2>4. \A s \in Streams, n \in Nodes : DOMAIN wire[s][n] = {}
    BY <1>2
  <2>5. \A s \in Streams, n \in Nodes : \A i \in DOMAIN wire[s][n] : SecretOK(n, wire[s][n][i])
    BY <2>4
  <2>6. renewed = FALSE
    BY <1>2
  <2> QED
    BY <2>1, <2>2, <2>3, <2>5, <2>6 DEF SecretsOK
<1>12. RestTypes
  BY DEF RestTypes, Init
<1>13. GarbledUsed /\ MessagesAreRead
  BY <1>2 DEF GarbledUsed, MessagesAreRead
<1> QED
  BY <1>1, <1>4, <1>5, <1>6, <1>7, <1>8, <1>9, <1>10, <1>11, <1>12, <1>13 DEF SessionInv

LEMMA SessionStep == SessionInv /\ [Next]_vars => SessionInv'
<1> SUFFICES ASSUME SessionInv, [Next]_vars PROVE SessionInv'
  OBVIOUS
<1>1. /\ Shape /\ IInv /\ Roles /\ Unused
      /\ FramesOK /\ KeysOK /\ HelloFirst /\ CallsOK
      /\ SecretsOK /\ RestTypes /\ GarbledUsed /\ MessagesAreRead
  BY DEF SessionInv
<1>2. Typed
  BY <1>1, TypesStep
<1>3. Idle \/ \E n \in Nodes : StepOf(n)
  BY <1>1, StepCases
<1>4. IInv'
  BY <1>1, CallTypesStep, OneOfferStep, OneCallStep DEF IInv
<1>5. SecretsOK'
  BY <1>1, <1>2, SecretsStep
<1>6. Shape'
  BY <1>2, <1>4, <1>5 DEF Shape, IInv, SecretsOK, Typed, Wires
<1>7. Roles' /\ Unused'
  BY <1>1, <1>2, <1>3, <1>4, <1>6, UnusedStep
<1>8. FramesOK'
  BY <1>1, <1>2, <1>3, FramesStep
<1>9. KeysOK'
  BY <1>1, <1>2, <1>3, KeysStep
<1>10. HelloFirst'
  BY <1>1, <1>2, <1>3, HelloStep
<1>11. CallsOK'
  BY <1>1, <1>2, <1>3, CallsStep
<1>12. RestTypes' /\ (garbled' = garbled \/ \E n \in Nodes, s \in Streams : Garbles(n, s))
  BY <1>1, RestStep
<1>13. GarbledUsed' /\ MessagesAreRead'
  BY <1>1, <1>3, <1>12, ReadStep
<1> QED
  BY <1>4, <1>5, <1>6, <1>7, <1>8, <1>9, <1>10, <1>11, <1>12, <1>13 DEF SessionInv

(* Both ready, and no key on its way. *)
LEMMA BothReady ==
  ASSUME SessionInv, NEW s \in Streams, Talk(s), ~Handshaking(s),
         pq = Nodes => s \notin early
  PROVE  e2e[Low] = e2e[High]
<1> DEFINE c == caller[s]
           d == Other(c)
<1>1. /\ Shape /\ IInv /\ KeysOK /\ CallsOK
  BY DEF SessionInv
<1>2. c \in Nodes /\ d \in Nodes /\ d # c /\ Nodes = {c, d} /\ Other(d) = c
  BY <1>1, Others DEF Shape
<1>3. \A n \in Nodes : conn[n] = s /\ live[n] /\ n \in up[s] /\ Holds(n, s)
  BY DEF Talk, Holds
<1>4. up[s] = Nodes
  BY <1>1, <1>3 DEF Shape, CallTypes
<1>5. CallOK(s, c, d)
  BY <1>1, <1>2 DEF CallsOK
<1> HIDE DEF c, d
<1>6. \A n \in Nodes :
        /\ e2e[n].keys[n] = s /\ e2e[n].keys[Other(n)] = s
        /\ e2e[n].kem # NoKem => pq = Nodes
  BY <1>1, <1>3 DEF KeysOK, Ready
<1>7. /\ \A k \in Nodes : e2e[c].keys[k] = s
      /\ \A k \in Nodes : e2e[d].keys[k] = s
  BY <1>2, <1>6 DEF d
<1>8. e2e[c] \in E2Es /\ e2e[d] \in E2Es
  BY <1>1, <1>2 DEF Shape
<1>9. e2e[c].keys = e2e[d].keys
  BY <1>7, <1>8 DEF E2Es
<1>10. e2e[c].kem = e2e[d].kem
  <2>1. CASE pq = Nodes
    <3>1. Exchange(s, c, d)
      BY <1>2, <1>3, <1>4, <1>5, <2>1 DEF CallOK, Answered
    <3>2. ~Has(wire[s][c], "Q") /\ ~Has(wire[s][d], "Y")
      BY <1>2 DEF Handshaking, Has
    <3> QED
      BY <3>1, <3>2 DEF Exchange
  <2>2. CASE pq # Nodes
    BY <1>2, <1>6, <2>2
  <2> QED
    BY <2>1, <2>2
<1>11. e2e[c] = e2e[d]
  BY <1>8, <1>9, <1>10 DEF E2Es
<1> QED
  BY <1>2, <1>11 DEF Nodes

(* What a program knows of its calls, its keys and its peer has its type,     *)
(* and so has every frame on its way.                                        *)
THEOREM TypeCorrectness == Spec => []TypeOK
<1>1. SessionInv => TypeOK
  <2> SUFFICES ASSUME SessionInv PROVE TypeOK
    OBVIOUS
  <2>1. Shape /\ RestTypes /\ renewed \in BOOLEAN
    BY DEF SessionInv, SecretsOK
  <2>2. /\ {conn, pending, dial, offer, hb} \subseteq [Nodes -> Streams \cup {None}]
        /\ {listening, live} \subseteq [Nodes -> BOOLEAN]
    BY <2>1 DEF Shape, CallTypes, Ends
  <2>3. \A s \in Streams, n \in Nodes : wire[s][n] \in Seq(Frames)
    BY <2>1 DEF Shape
  <2> QED
    BY <2>1, <2>2, <2>3 DEF TypeOK, Shape, CallTypes, RestTypes
<1> QED
  BY InitSession, SessionStep, <1>1, PTL DEF Spec

(* When both programs of a call are ready and no key is on its way, they have *)
(* the same session key, whoever called, whatever was lost in accepting and   *)
(* whatever calls were there before.  Nothing is said of a hybrid call that   *)
(* was accepted before the Q of the caller had come: there the code leaves    *)
(* the two with different keys (e2e.py, accept_pending_incoming,              *)
(* handle_parsed_frame: K, Q and Y).                                          *)
THEOREM KeyAgreement == Spec => []KeysAgree
<1>1. SessionInv => KeysAgree
  BY BothReady DEF KeysAgree
<1> QED
  BY InitSession, SessionStep, <1>1, PTL DEF Spec

(* A message is read with the key it was written with, in every call but     *)
(* those the property names: a frame was lost in accepting, a hybrid callee  *)
(* speaks before the last secret has come to the caller, or only the reader  *)
(* has --pq (send_direct_message, handle_parsed_frame: U).                   *)
THEOREM MessagesRead == Spec => []MessagesAreRead
<1>1. SessionInv => MessagesAreRead
  BY DEF SessionInv
<1> QED
  BY InitSession, SessionStep, <1>1, PTL DEF Spec

(* Two locked peers have the same offline secret, unless the one that makes  *)
(* it forgot it while the other kept it or was about to get it               *)
(* (send_offline_secret_if_needed, handle_parsed_frame: X).                  *)
THEOREM OneSecret == Spec => []SecretsAgree
<1>1. SessionInv => SecretsAgree
  <2> SUFFICES ASSUME SessionInv PROVE SecretsAgree
    OBVIOUS
  <2>1. renewed \in BOOLEAN
        /\ (~renewed /\ secret[Low] # None => secret[High] \in {None, secret[Low]})
    BY DEF SessionInv, SecretsOK
  <2>2. Low \in Nodes /\ High \in Nodes
    BY DEF Nodes
  <2> QED
    BY <2>1, <2>2 DEF SecretsAgree
<1> QED
  BY InitSession, SessionStep, <1>1, PTL DEF Spec
=============================================================================
