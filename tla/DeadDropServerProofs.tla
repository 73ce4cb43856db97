------------------------- MODULE DeadDropServerProofs -------------------------
(***************************************************************************)
(* Proofs about DeadDropServer, for any connections, keys, blobs, limits    *)
(* and clock, and both implementations: what the answers say of the store,  *)
(* what becomes of the files, and how many PUTs a window of the rate limit  *)
(* can hold.                                                                *)
(***************************************************************************)
EXTENDS DeadDropServer, TLAPS, FiniteSetTheorems, SequenceTheorems, WellFoundedInduction

Places == {"idle", "line", "rate", "body", "stat", "write", "rename", "read", "remove",
           "reply", "closing"}
Codes == {"none", "OK", "EXISTS", "MISS", "ERR"}

(* The types, but for the rate limit, which the files do not depend on. *)
Typed ==
  /\ impl \in {"python", "rust"}
  /\ now \in Nat
  /\ store \in [Keys -> [blob: Blobs \cup {NoBlob}, mtime: Nat]]
  /\ pc \in [Conns -> Places]
  /\ req \in [Conns -> Requests \cup {NoRequest}]
  /\ stamp \in [Conns -> Nat]
  /\ answer \in [Conns -> [code: Codes, blob: Blobs \cup {NoBlob}]]
  /\ gc \in Keys \cup {NoBlob}
  /\ acked \subseteq Keys \X Blobs \X Nat

(* What a connection has been asked, by where its handler is; only the Rust   *)
(* server ever waits between two looks at the files.                          *)
Placed ==
  /\ \A c \in Conns :
       /\ pc[c] \in {"rate", "body", "write", "rename"} =>
            req[c] \in Requests /\ req[c].blob \in Blobs
       /\ pc[c] \in {"stat", "read", "remove"} => req[c] \in Requests
       /\ pc[c] \in {"rate", "stat", "write", "rename", "read", "remove"} => impl = "rust"
       /\ pc[c] = "rename" => now - stamp[c] <= 1
       /\ answer[c].code \in {"OK", "MISS"} => pc[c] = "reply" /\ req[c] \in Requests
  /\ gc # NoBlob => impl = "rust"

(* What the Python server has acknowledged is still there and not old. *)
AckedKept ==
  impl = "python" =>
    \A a \in acked : store[a[1]] = [blob |-> a[2], mtime |-> a[3]] /\ now - a[3] <= TTL

-----------------------------------------------------------------------------
(* The handler has an answer. *)
LEMMA ReplyTyped ==
  ASSUME Typed, NEW c \in Conns, NEW code \in Codes, NEW b \in Blobs \cup {NoBlob},
         Reply(c, code, b)
  PROVE  /\ pc' \in [Conns -> Places]
         /\ answer' \in [Conns -> [code: Codes, blob: Blobs \cup {NoBlob}]]
BY DEF Typed, Reply, Places

(* The handler waits. *)
LEMMA WaitTyped ==
  ASSUME Typed, NEW c \in Conns, NEW where \in Places, WaitAt(c, where)
  PROVE  /\ pc' \in [Conns -> Places]
         /\ answer' \in [Conns -> [code: Codes, blob: Blobs \cup {NoBlob}]]
BY DEF Typed, WaitAt

(* The connection closes. *)
LEMMA CloseTyped ==
  ASSUME Typed, NEW c \in Conns, NEW where \in Places, Close(c, where)
  PROVE  /\ pc' \in [Conns -> Places]
         /\ req' \in [Conns -> Requests \cup {NoRequest}]
         /\ stamp' \in [Conns -> Nat]
         /\ answer' \in [Conns -> [code: Codes, blob: Blobs \cup {NoBlob}]]
BY DEF Typed, Close, NoAnswer, Codes

(* A blob is stored. *)
LEMMA StoredTyped ==
  ASSUME Typed, NEW c \in Conns, req[c] \in Requests, req[c].blob \in Blobs,
         NEW t \in Nat, Stored(c, t)
  PROVE  /\ store' \in [Keys -> [blob: Blobs \cup {NoBlob}, mtime: Nat]]
         /\ acked' \subseteq Keys \X Blobs \X Nat
         /\ Reply(c, "OK", req[c].blob)
BY DEF Typed, Stored, Requests

-----------------------------------------------------------------------------
(* What the handler of c holds against what its request has seen. *)
SeenBy(c) ==
  /\ answer[c].code = "OK" => answer[c].blob \in seen[c]
  /\ answer[c].code = "MISS" => NoBlob \in seen[c]
  /\ pc[c] = "read" /\ Present(req[c].key) => store[req[c].key].blob \in seen[c]
  /\ pc[c] \in {"write", "rename", "remove"} => NoBlob \in seen[c]

AllSeen == \A c \in Conns : SeenBy(c)

(* A step leaves a file as it was, removes it, or writes a young one. *)
Fresh(k) ==
  \/ store'[k] = store[k]
  \/ store'[k] = Nothing
  \/ store'[k].mtime \in Nat /\ now' - store'[k].mtime <= 1

(* A request that goes on keeps what it has seen and sees its key before and  *)
(* after the step.                                                            *)
LEMMA Sees ==
  ASSUME Observe, NEW c \in Conns, req'[c] # NoRequest
  PROVE  /\ seen[c] \subseteq seen'[c]
         /\ Sight(store[req'[c].key], now) \in seen'[c]
         /\ Sight(store'[req'[c].key], now') \in seen'[c]
BY DEF Observe

(* What a young or missing file looks like. *)
LEMMA SightOfFresh ==
  ASSUME Typed, Typed', NEW k \in Keys
  PROVE  /\ ~Live(k) => Sight(store[k], now) = NoBlob
         /\ Live(k) => Sight(store[k], now) = store[k].blob
         /\ store'[k].mtime \in Nat /\ now' - store'[k].mtime <= 1 =>
              Sight(store'[k], now') = store'[k].blob
         /\ store'[k] = Nothing => Sight(store'[k], now') = NoBlob
<1>1. store[k].blob \in Blobs \cup {NoBlob} /\ store[k].mtime \in Nat /\ now \in Nat
  BY DEF Typed
<1>2. TTL \in Nat \ {0} /\ now' \in Nat
  BY ServerAssumption DEF Typed
<1>3. ~Live(k) => Sight(store[k], now) = NoBlob
  BY DEF Sight, Old, Live, Present, Expired
<1>4. Live(k) => Sight(store[k], now) = store[k].blob
  BY DEF Sight, Live, Expired
<1>5. ASSUME store'[k].mtime \in Nat, now' - store'[k].mtime <= 1
      PROVE  Sight(store'[k], now') = store'[k].blob
  <2>1. ~(now' - store'[k].mtime > TTL)
    BY <1>2, <1>5
  <2> QED
    BY <2>1 DEF Sight, Old
<1>6. ASSUME store'[k] = Nothing PROVE Sight(store'[k], now') = NoBlob
  BY <1>6 DEF Sight, Old, Nothing
<1> QED
  BY <1>3, <1>4, <1>5, <1>6

(* The other connections only see more. *)
LEMMA OthersSee ==
  ASSUME Typed, Placed, AllSeen, Typed', Observe, \A k \in Keys : Fresh(k),
         NEW c \in Conns, pc'[c] = pc[c], req'[c] = req[c], answer'[c] = answer[c]
  PROVE  SeenBy(c)'
<1>1. CASE req[c] = NoRequest
  BY <1>1, ServerAssumption DEF SeenBy, AllSeen, Placed, Requests, NoRequest
<1>2. CASE req[c] # NoRequest
  <2>1. req[c] \in Requests /\ req[c].key \in Keys
    BY <1>2 DEF Typed, Requests
  <2>2. seen[c] \subseteq seen'[c] /\ Sight(store'[req[c].key], now') \in seen'[c]
    BY <1>2, Sees
  <2>3. CASE store'[req[c].key] = store[req[c].key]
    BY <2>2, <2>3 DEF SeenBy, AllSeen, Present
  <2>4. CASE store'[req[c].key] = Nothing
    BY <2>2, <2>4 DEF SeenBy, AllSeen, Present, Nothing
  <2>5. CASE store'[req[c].key].mtime \in Nat /\ now' - store'[req[c].key].mtime <= 1
    BY <2>1, <2>2, <2>5, SightOfFresh DEF SeenBy, AllSeen, Present
  <2> QED
    BY <2>1, <2>3, <2>4, <2>5 DEF Fresh
<1> QED
  BY <1>1, <1>2

(* What an acknowledged PUT consists of. *)
LEMMA AckedTyped ==
  ASSUME Typed, NEW a \in acked
  PROVE  a[1] \in Keys /\ a[2] \in Blobs /\ a[3] \in Nat
<1>1. a \in Keys \X Blobs \X Nat
  BY DEF Typed
<1> QED
  BY <1>1

(* The file of an acknowledged PUT is there and not old. *)
LEMMA AckedLive ==
  ASSUME Typed, AckedKept, impl = "python", NEW a \in acked
  PROVE  Present(a[1]) /\ ~Expired(a[1])
<1>1. a[1] \in Keys /\ a[2] \in Blobs /\ a[3] \in Nat
  BY AckedTyped
<1>2. store[a[1]] = [blob |-> a[2], mtime |-> a[3]] /\ now - a[3] <= TTL
  BY DEF AckedKept
<1>3. store[a[1]].blob = a[2] /\ store[a[1]].mtime = a[3]
  BY <1>2
<1>4. now \in Nat /\ TTL \in Nat
  BY ServerAssumption DEF Typed
<1>5. ~(now - a[3] > TTL)
  BY <1>1, <1>2, <1>4
<1> QED
  BY <1>1, <1>3, <1>5, ServerAssumption DEF Present, Expired, Old

(* Every step keeps the types. *)
LEMMA TypedStep ==
  ASSUME Typed, Placed, [Next]_vars
  PROVE  Typed'
<1>1. ASSUME NEW c \in Conns, Connect(c) PROVE Typed'
  <2>1. /\ pc' \in [Conns -> Places]
        /\ answer' \in [Conns -> [code: Codes, blob: Blobs \cup {NoBlob}]]
    BY <1>1, ReplyTyped, WaitTyped DEF Connect, Places, Codes
  <2> QED
    BY <1>1, <2>1 DEF Connect, Typed, Rest, fileVars
<1>2. ASSUME NEW c \in Conns, BadLine(c) PROVE Typed'
  <2>1. /\ pc' \in [Conns -> Places]
        /\ answer' \in [Conns -> [code: Codes, blob: Blobs \cup {NoBlob}]]
    BY <1>2, ReplyTyped, WaitTyped DEF BadLine, Places, Codes
  <2> QED
    BY <1>2, <2>1 DEF BadLine, Typed, Rest, fileVars
<1>3. ASSUME NEW c \in Conns, PutLine(c) PROVE Typed'
  <2>1. /\ pc' \in [Conns -> Places]
        /\ answer' \in [Conns -> [code: Codes, blob: Blobs \cup {NoBlob}]]
    BY <1>3, ReplyTyped, WaitTyped DEF PutLine, AllowPut, Places, Codes
  <2>2. req' \in [Conns -> Requests \cup {NoRequest}] /\ stamp' \in [Conns -> Nat]
    BY <1>3 DEF PutLine, Typed
  <2> QED
    BY <1>3, <2>1, <2>2 DEF PutLine, Typed, Rest, fileVars
<1>4. ASSUME NEW c \in Conns, PutBody(c) PROVE Typed'
  <2>1. req[c] \in Requests /\ req[c].blob \in Blobs
    BY <1>4 DEF PutBody, Placed
  <2>2. CASE Stored(c, now)
    <3>1. now \in Nat
      BY DEF Typed
    <3>2. /\ store' \in [Keys -> [blob: Blobs \cup {NoBlob}, mtime: Nat]]
          /\ acked' \subseteq Keys \X Blobs \X Nat
          /\ Reply(c, "OK", req[c].blob)
      BY <2>1, <2>2, <3>1, StoredTyped
    <3>3. /\ pc' \in [Conns -> Places]
          /\ answer' \in [Conns -> [code: Codes, blob: Blobs \cup {NoBlob}]]
      BY <2>1, <3>2, ReplyTyped DEF Codes
    <3> QED
      BY <1>4, <3>2, <3>3 DEF PutBody, Typed, Rest
  <2>3. CASE UNCHANGED <<store, acked>>
    <3>1. \/ Reply(c, "ERR", NoBlob) \/ Reply(c, "EXISTS", NoBlob) \/ WaitAt(c, "stat")
          \/ Stored(c, now)
      BY <1>4 DEF PutBody
    <3>2. CASE ~Stored(c, now)
      <4>1. /\ pc' \in [Conns -> Places]
            /\ answer' \in [Conns -> [code: Codes, blob: Blobs \cup {NoBlob}]]
        BY <3>1, <3>2, ReplyTyped, WaitTyped DEF Places, Codes
      <4> QED
        BY <1>4, <2>3, <4>1 DEF PutBody, Typed, Rest
    <3> QED
      BY <2>2, <3>2
  <2> QED
    BY <1>4, <2>2, <2>3 DEF PutBody
<1>5. ASSUME NEW c \in Conns, GetLine(c) PROVE Typed'
  <2>1. PICK k \in Keys :
          /\ req' = [req EXCEPT ![c] = [key |-> k, blob |-> NoBlob]]
          /\ \/ WaitAt(c, "stat") /\ UNCHANGED store
             \/ /\ store' = IF Expired(k) THEN [store EXCEPT ![k] = Nothing] ELSE store
                /\ Reply(c, "OK", store[k].blob) \/ Reply(c, "MISS", NoBlob)
    BY <1>5 DEF GetLine
  <2>2. store[k].blob \in Blobs \cup {NoBlob}
    BY DEF Typed
  <2>3. /\ pc' \in [Conns -> Places]
        /\ answer' \in [Conns -> [code: Codes, blob: Blobs \cup {NoBlob}]]
    BY <2>1, <2>2, ReplyTyped, WaitTyped DEF Places, Codes
  <2>4. req' \in [Conns -> Requests \cup {NoRequest}]
    BY <2>1 DEF Typed, Requests
  <2>5. store' \in [Keys -> [blob: Blobs \cup {NoBlob}, mtime: Nat]]
    BY <2>1 DEF Typed, Nothing
  <2> QED
    BY <1>5, <2>3, <2>4, <2>5 DEF GetLine, Typed, Rest
<1>6. ASSUME NEW c \in Conns, Deliver(c) PROVE Typed'
  <2>1. Close(c, "idle") \/ Close(c, "closing")
    BY <1>6 DEF Deliver
  <2> QED
    BY <1>6, <2>1, CloseTyped DEF Deliver, Typed, Rest, Places, fileVars
<1>7. ASSUME NEW c \in Conns, PutRate(c) PROVE Typed'
  <2>1. /\ pc' \in [Conns -> Places]
        /\ answer' \in [Conns -> [code: Codes, blob: Blobs \cup {NoBlob}]]
    BY <1>7, ReplyTyped, WaitTyped DEF PutRate, Places, Codes, AllowPut
  <2> QED
    BY <1>7, <2>1 DEF PutRate, Typed, Rest, fileVars
<1>8. ASSUME NEW c \in Conns, PutStat(c) PROVE Typed'
  <2>1. /\ pc' \in [Conns -> Places]
        /\ answer' \in [Conns -> [code: Codes, blob: Blobs \cup {NoBlob}]]
    BY <1>8, ReplyTyped, WaitTyped DEF PutStat, Places, Codes
  <2> QED
    BY <1>8, <2>1 DEF PutStat, Typed, Rest, fileVars
<1>9. ASSUME NEW c \in Conns, PutWrite(c) PROVE Typed'
  <2>1. /\ pc' \in [Conns -> Places]
        /\ answer' \in [Conns -> [code: Codes, blob: Blobs \cup {NoBlob}]]
    BY <1>9, ReplyTyped, WaitTyped DEF PutWrite, Places, Codes
  <2> QED
    BY <1>9, <2>1 DEF PutWrite, Typed, Rest, fileVars
<1>10. ASSUME NEW c \in Conns, PutRename(c) PROVE Typed'
  <2>1. req[c] \in Requests /\ req[c].blob \in Blobs /\ stamp[c] \in Nat
    BY <1>10 DEF PutRename, Placed, Typed
  <2>2. /\ store' \in [Keys -> [blob: Blobs \cup {NoBlob}, mtime: Nat]]
        /\ acked' \subseteq Keys \X Blobs \X Nat
        /\ Reply(c, "OK", req[c].blob)
    BY <1>10, <2>1, StoredTyped DEF PutRename
  <2>3. /\ pc' \in [Conns -> Places]
        /\ answer' \in [Conns -> [code: Codes, blob: Blobs \cup {NoBlob}]]
    BY <2>1, <2>2, ReplyTyped DEF Codes
  <2> QED
    BY <1>10, <2>2, <2>3 DEF PutRename, Typed, Rest
<1>11. ASSUME NEW c \in Conns, GetStat(c) PROVE Typed'
  <2>1. /\ pc' \in [Conns -> Places]
        /\ answer' \in [Conns -> [code: Codes, blob: Blobs \cup {NoBlob}]]
    BY <1>11, ReplyTyped, WaitTyped DEF GetStat, Places, Codes
  <2> QED
    BY <1>11, <2>1 DEF GetStat, Typed, Rest, fileVars
<1>12. ASSUME NEW c \in Conns, GetRemove(c) PROVE Typed'
  <2>1. /\ pc' \in [Conns -> Places]
        /\ answer' \in [Conns -> [code: Codes, blob: Blobs \cup {NoBlob}]]
    BY <1>12, ReplyTyped, WaitTyped DEF GetRemove, Places, Codes
  <2> QED
    BY <1>12, <2>1 DEF GetRemove, Typed, Rest, fileVars, Nothing
<1>13. ASSUME NEW c \in Conns, GetRead(c) PROVE Typed'
  <2>1. store[req[c].key].blob \in Blobs \cup {NoBlob}
    BY <1>13 DEF GetRead, Placed, Typed, Requests
  <2>2. CASE Reply(c, "OK", store[req[c].key].blob) /\ UNCHANGED <<req, stamp>>
    BY <1>13, <2>1, <2>2, ReplyTyped DEF GetRead, Typed, Rest, Codes, fileVars
  <2>3. CASE Close(c, "idle")
    BY <1>13, <2>3, CloseTyped DEF GetRead, Typed, Rest, Places, fileVars
  <2> QED
    BY <1>13, <2>2, <2>3 DEF GetRead
<1>14. ASSUME NEW c \in Conns, ReadTimeout(c) PROVE Typed'
  <2>1. Close(c, "idle") \/ Close(c, "closing")
    BY <1>14 DEF ReadTimeout
  <2> QED
    BY <1>14, <2>1, CloseTyped DEF ReadTimeout, Typed, Rest, Places, fileVars
<1>15. ASSUME NEW c \in Conns, WriteTimeout(c) PROVE Typed'
  <2>1. Close(c, "idle") \/ Close(c, "closing")
    BY <1>15 DEF WriteTimeout
  <2> QED
    BY <1>15, <2>1, CloseTyped DEF WriteTimeout, Typed, Rest, Places, fileVars
<1>16. ASSUME NEW c \in Conns, ClientLeaves(c) PROVE Typed'
  <2>1. Close(c, "idle") \/ Close(c, "closing")
    BY <1>16 DEF ClientLeaves
  <2> QED
    BY <1>16, <2>1, CloseTyped DEF ClientLeaves, Typed, Rest, Places, fileVars
<1>17. CASE Collect
  BY <1>17 DEF Collect, Typed, Nothing, Rest, connVars
<1>18. ASSUME NEW k \in Keys, CollectStat(k) PROVE Typed'
  BY <1>18 DEF CollectStat, Typed, Rest, connVars
<1>19. CASE CollectRemove
  BY <1>19 DEF CollectRemove, Typed, Nothing, Rest, connVars
<1>20. CASE Tick
  BY <1>20 DEF Tick, Typed, fileVars, connVars
<1>21. CASE Restart
  BY <1>21 DEF Restart, Typed, Places, NoAnswer, Codes
<1>22. CASE UNCHANGED vars
  BY <1>22 DEF vars, Typed, fileVars, connVars
<1> QED
  BY <1>1, <1>2, <1>3, <1>4, <1>5, <1>6, <1>7, <1>8, <1>9, <1>10, <1>11, <1>12,
     <1>13, <1>14, <1>15, <1>16, <1>17, <1>18, <1>19, <1>20, <1>21, <1>22 DEF Next,
     ClientStep, HandlerStep

(* Where a handler waits says what it was asked. *)
LEMMA PlacedStep ==
  ASSUME Typed, Placed, [Next]_vars
  PROVE  Placed'
<1> USE ServerAssumption DEF Typed, Placed, Requests, NoRequest, NoAnswer, Rest,
    Places, fileVars, rateVars, connVars
<1>1. ASSUME NEW c \in Conns, Connect(c) PROVE Placed'
  BY <1>1 DEF Connect, WaitAt
<1>2. ASSUME NEW c \in Conns, BadLine(c) PROVE Placed'
  BY <1>2 DEF BadLine, Reply
<1>3. ASSUME NEW c \in Conns, PutLine(c) PROVE Placed'
  BY <1>3 DEF PutLine, AllowPut, WaitAt, Reply
<1>4. ASSUME NEW c \in Conns, PutBody(c) PROVE Placed'
  BY <1>4 DEF PutBody, WaitAt, Reply, Stored
<1>5. ASSUME NEW c \in Conns, GetLine(c) PROVE Placed'
  BY <1>5 DEF GetLine, WaitAt, Reply
<1>6. ASSUME NEW c \in Conns, Deliver(c) PROVE Placed'
  BY <1>6 DEF Deliver, Close
<1>7. ASSUME NEW c \in Conns, PutRate(c) PROVE Placed'
  BY <1>7 DEF PutRate, AllowPut, WaitAt, Reply
<1>8. ASSUME NEW c \in Conns, PutStat(c) PROVE Placed'
  BY <1>8 DEF PutStat, Reply, WaitAt
<1>9. ASSUME NEW c \in Conns, PutWrite(c) PROVE Placed'
  BY <1>9 DEF PutWrite, WaitAt
<1>10. ASSUME NEW c \in Conns, PutRename(c) PROVE Placed'
  BY <1>10 DEF PutRename, Stored, Reply
<1>11. ASSUME NEW c \in Conns, GetStat(c) PROVE Placed'
  BY <1>11 DEF GetStat, Reply, WaitAt
<1>12. ASSUME NEW c \in Conns, GetRemove(c) PROVE Placed'
  BY <1>12 DEF GetRemove, Reply
<1>13. ASSUME NEW c \in Conns, GetRead(c) PROVE Placed'
  BY <1>13 DEF GetRead, Reply, Close
<1>14. ASSUME NEW c \in Conns, ReadTimeout(c) PROVE Placed'
  BY <1>14 DEF ReadTimeout, Close
<1>15. ASSUME NEW c \in Conns, WriteTimeout(c) PROVE Placed'
  BY <1>15 DEF WriteTimeout, Close
<1>16. ASSUME NEW c \in Conns, ClientLeaves(c) PROVE Placed'
  BY <1>16 DEF ClientLeaves, Close
<1>17. CASE Collect
  BY <1>17 DEF Collect
<1>18. ASSUME NEW k \in Keys, CollectStat(k) PROVE Placed'
  BY <1>18 DEF CollectStat
<1>19. CASE CollectRemove
  BY <1>19 DEF CollectRemove
<1>20. CASE Tick
  BY <1>20 DEF Tick, Placed, fileVars, connVars
<1>21. CASE Restart
  BY <1>21 DEF Restart, Placed, NoAnswer
<1>22. CASE UNCHANGED vars
  BY <1>22 DEF vars, fileVars, rateVars, connVars
<1> QED
  BY <1>1, <1>2, <1>3, <1>4, <1>5, <1>6, <1>7, <1>8, <1>9, <1>10, <1>11, <1>12,
     <1>13, <1>14, <1>15, <1>16, <1>17, <1>18, <1>19, <1>20, <1>21, <1>22 DEF Next,
     ClientStep, HandlerStep

(* Every answer was true while its request ran. *)
LEMMA SeenStep ==
  ASSUME Typed, Placed, AllSeen, Typed', [Next]_vars
  PROVE  AllSeen'
<1>1. ASSUME NEW c \in Conns, Connect(c) PROVE AllSeen'
  <2>1. \A d \in Conns \ {c} : pc'[d] = pc[d] /\ req'[d] = req[d] /\ answer'[d] = answer[d]
    BY <1>1 DEF Connect, WaitAt, Typed
  <2>2. Observe /\ now' = now
    BY <1>1 DEF Connect, Rest
  <2>3. \A k \in Keys : Fresh(k)
    BY <1>1 DEF Connect, Fresh, fileVars
  <2>4. SeenBy(c)'
    BY <1>1 DEF Connect, WaitAt, SeenBy, Typed, Placed, Codes
  <2> QED
    BY <2>1, <2>2, <2>3, <2>4, OthersSee DEF AllSeen
<1>2. ASSUME NEW c \in Conns, BadLine(c) PROVE AllSeen'
  <2>1. \A d \in Conns \ {c} : pc'[d] = pc[d] /\ req'[d] = req[d] /\ answer'[d] = answer[d]
    BY <1>2 DEF BadLine, Reply, Typed
  <2>2. Observe /\ now' = now
    BY <1>2 DEF BadLine, Rest
  <2>3. \A k \in Keys : Fresh(k)
    BY <1>2 DEF BadLine, Fresh, fileVars
  <2>4. SeenBy(c)'
    BY <1>2 DEF BadLine, Reply, SeenBy, Typed, Placed, Codes
  <2> QED
    BY <2>1, <2>2, <2>3, <2>4, OthersSee DEF AllSeen
<1>3. ASSUME NEW c \in Conns, PutLine(c) PROVE AllSeen'
  <2>1. \A d \in Conns \ {c} : pc'[d] = pc[d] /\ req'[d] = req[d] /\ answer'[d] = answer[d]
    BY <1>3 DEF PutLine, AllowPut, WaitAt, Reply, Typed
  <2>2. Observe /\ now' = now
    BY <1>3 DEF PutLine, Rest
  <2>3. \A k \in Keys : Fresh(k)
    BY <1>3 DEF PutLine, Fresh, fileVars
  <2>4. SeenBy(c)'
    BY <1>3 DEF PutLine, AllowPut, WaitAt, Reply, SeenBy, Typed, Placed
  <2> QED
    BY <2>1, <2>2, <2>3, <2>4, OthersSee DEF AllSeen
<1>4. ASSUME NEW c \in Conns, PutBody(c) PROVE AllSeen'
  <2>1. \A d \in Conns \ {c} : pc'[d] = pc[d] /\ req'[d] = req[d] /\ answer'[d] = answer[d]
    BY <1>4 DEF PutBody, WaitAt, Reply, Stored, Typed
  <2>2. Observe /\ now' = now
    BY <1>4 DEF PutBody, Rest
  <2>3. \A k \in Keys : Fresh(k)
    <3>1. CASE UNCHANGED store
      BY <3>1 DEF Fresh
    <3>2. CASE Stored(c, now)
      BY <1>4, <2>2, <3>2 DEF PutBody, Placed, Stored, Typed, Fresh
    <3> QED
      BY <1>4, <3>1, <3>2 DEF PutBody
  <2>4. SeenBy(c)'
    <3>1. req'[c] = req[c] /\ req[c] \in Requests /\ req[c] # NoRequest /\ req[c].blob \in Blobs
      BY <1>4, ServerAssumption DEF PutBody, Placed, Requests, NoRequest
    <3>2. CASE Reply(c, "ERR", NoBlob) \/ Reply(c, "EXISTS", NoBlob) \/ WaitAt(c, "stat")
      BY <1>4, <3>2 DEF PutBody, Reply, WaitAt, SeenBy, Typed, Placed
    <3>3. CASE Stored(c, now)
      <4>1. store'[req[c].key] = [blob |-> req[c].blob, mtime |-> now]
        BY <3>1, <3>3 DEF Stored, Typed, Requests
      <4>2. req[c].blob \in seen'[c]
        <5>1. req[c].key \in Keys /\ now \in Nat /\ now' - now <= 1
          BY <2>2, <3>1 DEF Typed, Requests
        <5>2. Sight(store'[req[c].key], now') = req[c].blob
          BY <2>2, <4>1, <5>1, SightOfFresh
        <5> QED
          BY <2>2, <3>1, <5>2, Sees
      <4> QED
        BY <3>3, <4>2 DEF Stored, Reply, SeenBy, Typed
    <3> QED
      BY <1>4, <3>2, <3>3 DEF PutBody
  <2> QED
    BY <2>1, <2>2, <2>3, <2>4, OthersSee DEF AllSeen
<1>5. ASSUME NEW c \in Conns, GetLine(c) PROVE AllSeen'
  <2>1. \A d \in Conns \ {c} : pc'[d] = pc[d] /\ req'[d] = req[d] /\ answer'[d] = answer[d]
    BY <1>5 DEF GetLine, WaitAt, Reply, Typed
  <2>2. Observe /\ now' = now
    BY <1>5 DEF GetLine, Rest
  <2>3. \A k \in Keys : Fresh(k)
    BY <1>5 DEF GetLine, Typed, Fresh
  <2>4. SeenBy(c)'
    <3>1. PICK k \in Keys :
            /\ req' = [req EXCEPT ![c] = [key |-> k, blob |-> NoBlob]]
            /\ \/ WaitAt(c, "stat")
               \/ Live(k) /\ Reply(c, "OK", store[k].blob)
               \/ ~Live(k) /\ Reply(c, "MISS", NoBlob)
      BY <1>5 DEF GetLine
    <3>2. req'[c].key = k /\ req'[c] # NoRequest
      BY <3>1, ServerAssumption DEF Typed, NoRequest
    <3>3. Sight(store[k], now) \in seen'[c]
      BY <2>2, <3>2, Sees
    <3>4. CASE WaitAt(c, "stat")
      BY <1>5, <3>4 DEF GetLine, WaitAt, SeenBy, Typed, Placed
    <3>5. CASE Live(k) /\ Reply(c, "OK", store[k].blob)
      BY <3>3, <3>5, SightOfFresh DEF Reply, SeenBy, Typed
    <3>6. CASE ~Live(k) /\ Reply(c, "MISS", NoBlob)
      BY <3>3, <3>6, SightOfFresh DEF Reply, SeenBy, Typed
    <3> QED
      BY <3>1, <3>4, <3>5, <3>6
  <2> QED
    BY <2>1, <2>2, <2>3, <2>4, OthersSee DEF AllSeen
<1>6. ASSUME NEW c \in Conns, Deliver(c) PROVE AllSeen'
  <2>1. \A d \in Conns \ {c} : pc'[d] = pc[d] /\ req'[d] = req[d] /\ answer'[d] = answer[d]
    BY <1>6 DEF Deliver, Close, Typed
  <2>2. Observe /\ now' = now
    BY <1>6 DEF Deliver, Rest
  <2>3. \A k \in Keys : Fresh(k)
    BY <1>6 DEF Deliver, Fresh, fileVars
  <2>4. SeenBy(c)'
    BY <1>6 DEF Deliver, Close, SeenBy, Typed, NoAnswer
  <2> QED
    BY <2>1, <2>2, <2>3, <2>4, OthersSee DEF AllSeen
<1>7. ASSUME NEW c \in Conns, PutRate(c) PROVE AllSeen'
  <2>1. \A d \in Conns \ {c} : pc'[d] = pc[d] /\ req'[d] = req[d] /\ answer'[d] = answer[d]
    BY <1>7 DEF PutRate, AllowPut, WaitAt, Reply, Typed
  <2>2. Observe /\ now' = now
    BY <1>7 DEF PutRate, Rest
  <2>3. \A k \in Keys : Fresh(k)
    BY <1>7 DEF PutRate, Fresh, fileVars
  <2>4. SeenBy(c)'
    BY <1>7 DEF PutRate, AllowPut, WaitAt, Reply, SeenBy, Typed, Placed
  <2> QED
    BY <2>1, <2>2, <2>3, <2>4, OthersSee DEF AllSeen
<1>8. ASSUME NEW c \in Conns, PutStat(c) PROVE AllSeen'
  <2>1. \A d \in Conns \ {c} : pc'[d] = pc[d] /\ req'[d] = req[d] /\ answer'[d] = answer[d]
    BY <1>8 DEF PutStat, Reply, WaitAt, Typed
  <2>2. Observe /\ now' = now
    BY <1>8 DEF PutStat, Rest
  <2>3. \A k \in Keys : Fresh(k)
    BY <1>8 DEF PutStat, Fresh, fileVars
  <2>4. SeenBy(c)'
    <3>1. /\ req'[c] = req[c] /\ req[c] # NoRequest /\ req[c].key \in Keys
          /\ ~Present(req[c].key) => NoBlob \in seen'[c]
      BY <1>8, <2>2, ServerAssumption, Sees, SightOfFresh
         DEF PutStat, Placed, Requests, NoRequest, Live
    <3> QED
      BY <1>8, <3>1 DEF PutStat, Reply, WaitAt, SeenBy, Typed, Placed
  <2> QED
    BY <2>1, <2>2, <2>3, <2>4, OthersSee DEF AllSeen
<1>9. ASSUME NEW c \in Conns, PutWrite(c) PROVE AllSeen'
  <2>1. \A d \in Conns \ {c} : pc'[d] = pc[d] /\ req'[d] = req[d] /\ answer'[d] = answer[d]
    BY <1>9 DEF PutWrite, WaitAt, Typed
  <2>2. Observe /\ now' = now
    BY <1>9 DEF PutWrite, Rest
  <2>3. \A k \in Keys : Fresh(k)
    BY <1>9 DEF PutWrite, Fresh, fileVars
  <2>4. SeenBy(c)'
    <3>1. req'[c] = req[c] /\ req[c] # NoRequest /\ seen[c] \subseteq seen'[c]
      BY <1>9, <2>2, ServerAssumption, Sees DEF PutWrite, Placed, Requests, NoRequest
    <3> QED
      BY <1>9, <3>1 DEF PutWrite, WaitAt, SeenBy, AllSeen, Typed, Placed
  <2> QED
    BY <2>1, <2>2, <2>3, <2>4, OthersSee DEF AllSeen
<1>10. ASSUME NEW c \in Conns, PutRename(c) PROVE AllSeen'
  <2>1. \A d \in Conns \ {c} : pc'[d] = pc[d] /\ req'[d] = req[d] /\ answer'[d] = answer[d]
    BY <1>10 DEF PutRename, Stored, Reply, Typed
  <2>2. Observe /\ now' = now
    BY <1>10 DEF PutRename, Rest
  <2>3. \A k \in Keys : Fresh(k)
    BY <1>10, <2>2 DEF PutRename, Placed, Stored, Typed, Fresh
  <2>4. SeenBy(c)'
    <3>1. req'[c] = req[c] /\ req[c] \in Requests /\ req[c] # NoRequest /\ req[c].blob \in Blobs
      BY <1>10, ServerAssumption DEF PutRename, Placed, Requests, NoRequest
    <3>2. store'[req[c].key] = [blob |-> req[c].blob, mtime |-> stamp[c]]
      BY <1>10, <3>1 DEF PutRename, Stored, Typed, Requests
    <3>3. req[c].blob \in seen'[c]
      BY <1>10, <2>2, <3>1, <3>2, Sees, SightOfFresh DEF PutRename, Typed, Placed, Requests
    <3> QED
      BY <1>10, <3>3 DEF PutRename, Stored, Reply, SeenBy, Typed
  <2> QED
    BY <2>1, <2>2, <2>3, <2>4, OthersSee DEF AllSeen
<1>11. ASSUME NEW c \in Conns, GetStat(c) PROVE AllSeen'
  <2>1. \A d \in Conns \ {c} : pc'[d] = pc[d] /\ req'[d] = req[d] /\ answer'[d] = answer[d]
    BY <1>11 DEF GetStat, Reply, WaitAt, Typed
  <2>2. Observe /\ now' = now
    BY <1>11 DEF GetStat, Rest
  <2>3. \A k \in Keys : Fresh(k)
    BY <1>11 DEF GetStat, Fresh, fileVars
  <2>4. SeenBy(c)'
    <3>1. /\ req'[c] = req[c] /\ req[c] # NoRequest /\ req[c].key \in Keys
          /\ Sight(store[req[c].key], now) \in seen'[c]
      BY <1>11, <2>2, ServerAssumption, Sees DEF GetStat, Placed, Requests, NoRequest
    <3>2. /\ ~Live(req[c].key) => NoBlob \in seen'[c]
          /\ Live(req[c].key) => store[req[c].key].blob \in seen'[c]
      BY <3>1, SightOfFresh
    <3> QED
      BY <1>11, <3>1, <3>2 DEF GetStat, Reply, WaitAt, SeenBy, Typed, Placed, Live, fileVars
  <2> QED
    BY <2>1, <2>2, <2>3, <2>4, OthersSee DEF AllSeen
<1>12. ASSUME NEW c \in Conns, GetRemove(c) PROVE AllSeen'
  <2>1. \A d \in Conns \ {c} : pc'[d] = pc[d] /\ req'[d] = req[d] /\ answer'[d] = answer[d]
    BY <1>12 DEF GetRemove, Reply, Typed
  <2>2. Observe /\ now' = now
    BY <1>12 DEF GetRemove, Rest
  <2>3. \A k \in Keys : Fresh(k)
    BY <1>12 DEF GetRemove, Typed, Fresh
  <2>4. SeenBy(c)'
    <3>1. req'[c] = req[c] /\ req[c] # NoRequest /\ seen[c] \subseteq seen'[c]
      BY <1>12, <2>2, ServerAssumption, Sees DEF GetRemove, Placed, Requests, NoRequest
    <3> QED
      BY <1>12, <3>1 DEF GetRemove, Reply, SeenBy, AllSeen, Typed, Placed
  <2> QED
    BY <2>1, <2>2, <2>3, <2>4, OthersSee DEF AllSeen
<1>13. ASSUME NEW c \in Conns, GetRead(c) PROVE AllSeen'
  <2>1. \A d \in Conns \ {c} : pc'[d] = pc[d] /\ req'[d] = req[d] /\ answer'[d] = answer[d]
    BY <1>13 DEF GetRead, Reply, Close, Typed
  <2>2. Observe /\ now' = now
    BY <1>13 DEF GetRead, Rest
  <2>3. \A k \in Keys : Fresh(k)
    BY <1>13 DEF GetRead, Fresh, fileVars
  <2>4. SeenBy(c)'
    <3>1. CASE Present(req[c].key) /\ Reply(c, "OK", store[req[c].key].blob) /\ req' = req
      <4>1. req[c] # NoRequest /\ seen[c] \subseteq seen'[c]
        BY <1>13, <2>2, <3>1, ServerAssumption, Sees DEF GetRead, Placed, Requests, NoRequest
      <4> QED
        BY <1>13, <3>1, <4>1 DEF GetRead, Reply, SeenBy, AllSeen, Typed
    <3>2. CASE Close(c, "idle")
      BY <3>2 DEF Close, SeenBy, Typed, NoAnswer
    <3> QED
      BY <1>13, <3>1, <3>2 DEF GetRead
  <2> QED
    BY <2>1, <2>2, <2>3, <2>4, OthersSee DEF AllSeen
<1>14. ASSUME NEW c \in Conns, ReadTimeout(c) PROVE AllSeen'
  <2>1. \A d \in Conns \ {c} : pc'[d] = pc[d] /\ req'[d] = req[d] /\ answer'[d] = answer[d]
    BY <1>14 DEF ReadTimeout, Close, Typed
  <2>2. Observe /\ now' = now
    BY <1>14 DEF ReadTimeout, Rest
  <2>3. \A k \in Keys : Fresh(k)
    BY <1>14 DEF ReadTimeout, Fresh, fileVars
  <2>4. SeenBy(c)'
    BY <1>14 DEF ReadTimeout, Close, SeenBy, Typed, NoAnswer
  <2> QED
    BY <2>1, <2>2, <2>3, <2>4, OthersSee DEF AllSeen
<1>15. ASSUME NEW c \in Conns, WriteTimeout(c) PROVE AllSeen'
  <2>1. \A d \in Conns \ {c} : pc'[d] = pc[d] /\ req'[d] = req[d] /\ answer'[d] = answer[d]
    BY <1>15 DEF WriteTimeout, Close, Typed
  <2>2. Observe /\ now' = now
    BY <1>15 DEF WriteTimeout, Rest
  <2>3. \A k \in Keys : Fresh(k)
    BY <1>15 DEF WriteTimeout, Fresh, fileVars
  <2>4. SeenBy(c)'
    BY <1>15 DEF WriteTimeout, Close, SeenBy, Typed, NoAnswer
  <2> QED
    BY <2>1, <2>2, <2>3, <2>4, OthersSee DEF AllSeen
<1>16. ASSUME NEW c \in Conns, ClientLeaves(c) PROVE AllSeen'
  <2>1. \A d \in Conns \ {c} : pc'[d] = pc[d] /\ req'[d] = req[d] /\ answer'[d] = answer[d]
    BY <1>16 DEF ClientLeaves, Close, Typed
  <2>2. Observe /\ now' = now
    BY <1>16 DEF ClientLeaves, Rest
  <2>3. \A k \in Keys : Fresh(k)
    BY <1>16 DEF ClientLeaves, Fresh, fileVars
  <2>4. SeenBy(c)'
    BY <1>16 DEF ClientLeaves, Close, SeenBy, Typed, NoAnswer
  <2> QED
    BY <2>1, <2>2, <2>3, <2>4, OthersSee DEF AllSeen
<1>17. CASE Collect
  <2>1. Observe /\ pc' = pc /\ req' = req /\ answer' = answer
    BY <1>17 DEF Collect, Rest, connVars
  <2>2. \A k \in Keys : Fresh(k)
    BY <1>17 DEF Collect, Fresh, Nothing
  <2> QED
    BY <2>1, <2>2, OthersSee DEF AllSeen
<1>18. ASSUME NEW k \in Keys, CollectStat(k) PROVE AllSeen'
  <2>1. Observe /\ pc' = pc /\ req' = req /\ answer' = answer
    BY <1>18 DEF CollectStat, Rest, connVars
  <2>2. \A l \in Keys : Fresh(l)
    BY <1>18 DEF CollectStat, Fresh, Nothing
  <2> QED
    BY <2>1, <2>2, OthersSee DEF AllSeen
<1>19. CASE CollectRemove
  <2>1. Observe /\ pc' = pc /\ req' = req /\ answer' = answer
    BY <1>19 DEF CollectRemove, Rest, connVars
  <2>2. \A k \in Keys : Fresh(k)
    BY <1>19 DEF CollectRemove, Fresh, Typed
  <2> QED
    BY <2>1, <2>2, OthersSee DEF AllSeen
<1>20. CASE Tick
  <2>1. Observe /\ pc' = pc /\ req' = req /\ answer' = answer
    BY <1>20 DEF Tick, Rest, connVars
  <2>2. \A k \in Keys : Fresh(k)
    BY <1>20 DEF Tick, Fresh, fileVars
  <2> QED
    BY <2>1, <2>2, OthersSee DEF AllSeen
<1>21. CASE Restart
  BY <1>21 DEF Restart, AllSeen, SeenBy, NoAnswer
<1>22. CASE UNCHANGED vars
  <2>1. /\ pc' = pc /\ req' = req /\ answer' = answer /\ seen' = seen /\ store' = store
    BY <1>22 DEF vars, fileVars, connVars
  <2> QED
    BY <2>1 DEF AllSeen, SeenBy, Present
<1> QED
  BY <1>1, <1>2, <1>3, <1>4, <1>5, <1>6, <1>7, <1>8, <1>9, <1>10, <1>11, <1>12,
     <1>13, <1>14, <1>15, <1>16, <1>17, <1>18, <1>19, <1>20, <1>21, <1>22 DEF Next,
     ClientStep, HandlerStep

(* What the Python server has acknowledged is still there. *)
LEMMA KeptStep ==
  ASSUME Typed, Placed, AckedKept, [Next]_vars
  PROVE  AckedKept'
<1>1. ASSUME NEW c \in Conns, Connect(c) PROVE AckedKept'
  BY <1>1 DEF Connect, WaitAt, AckedKept, Rest, fileVars
<1>2. ASSUME NEW c \in Conns, BadLine(c) PROVE AckedKept'
  BY <1>2 DEF BadLine, Reply, AckedKept, Rest, fileVars
<1>3. ASSUME NEW c \in Conns, PutLine(c) PROVE AckedKept'
  BY <1>3 DEF PutLine, AllowPut, WaitAt, Reply, AckedKept, Rest, fileVars
<1>4. ASSUME NEW c \in Conns, PutBody(c) PROVE AckedKept'
  <2>1. CASE UNCHANGED <<store, acked>>
    BY <1>4, <2>1 DEF PutBody, AckedKept, Rest
  <2>2. CASE ~Present(req[c].key) /\ Stored(c, now)
    <3>1. req[c].key \in Keys /\ req[c].blob \in Blobs /\ now \in Nat
      BY <1>4 DEF PutBody, Placed, Typed, Requests
    <3>2. \A a \in acked : impl = "python" => a[1] # req[c].key
      BY <2>2, AckedLive
    <3>3. /\ store' = [store EXCEPT ![req[c].key] = [blob |-> req[c].blob, mtime |-> now]]
          /\ acked' = acked \cup {<<req[c].key, req[c].blob, now>>}
          /\ impl' = impl /\ now' = now
      BY <1>4, <2>2 DEF PutBody, Stored, Rest
    <3>4. SUFFICES ASSUME impl = "python", NEW a \in acked'
                PROVE  store'[a[1]] = [blob |-> a[2], mtime |-> a[3]] /\ now - a[3] <= TTL
      BY <3>3 DEF AckedKept
    <3>5. CASE a \in acked
      <4>1. a[1] \in Keys /\ a[1] # req[c].key
        BY <3>2, <3>3, <3>4, <3>5, AckedTyped
      <4>2. store'[a[1]] = store[a[1]]
        BY <3>3, <4>1 DEF Typed
      <4> QED
        BY <3>3, <3>4, <3>5, <4>2 DEF AckedKept
    <3>6. CASE a = <<req[c].key, req[c].blob, now>>
      <4>1. store'[req[c].key] = [blob |-> req[c].blob, mtime |-> now]
        BY <3>1, <3>3 DEF Typed
      <4>2. now - now <= TTL
        BY <3>1, ServerAssumption
      <4> QED
        BY <3>6, <4>1, <4>2
    <3> QED
      BY <3>3, <3>4, <3>5, <3>6
  <2> QED
    BY <1>4, <2>1, <2>2 DEF PutBody
<1>5. ASSUME NEW c \in Conns, GetLine(c) PROVE AckedKept'
  <2>1. PICK k \in Keys :
          \/ Expired(k) /\ store' = [store EXCEPT ![k] = Nothing]
          \/ store' = store
    BY <1>5 DEF GetLine
  <2>2. Expired(k) /\ impl = "python" => \A a \in acked : a[1] # k
    <3>1. SUFFICES ASSUME Expired(k), impl = "python", NEW a \in acked PROVE a[1] # k
      OBVIOUS
    <3> QED
      BY <3>1, AckedLive
  <2>3. acked' = acked /\ impl' = impl /\ now' = now
    BY <1>5 DEF GetLine, Rest
  <2> QED
    BY <2>1, <2>2, <2>3, AckedTyped DEF AckedKept, Typed
<1>6. ASSUME NEW c \in Conns, Deliver(c) PROVE AckedKept'
  BY <1>6 DEF Deliver, Close, AckedKept, Rest, fileVars
<1>7. ASSUME NEW c \in Conns, PutRate(c) PROVE AckedKept'
  BY <1>7 DEF PutRate, AllowPut, WaitAt, Reply, AckedKept, Rest, fileVars
<1>8. ASSUME NEW c \in Conns, PutStat(c) PROVE AckedKept'
  BY <1>8 DEF PutStat, Reply, WaitAt, AckedKept, Rest, fileVars
<1>9. ASSUME NEW c \in Conns, PutWrite(c) PROVE AckedKept'
  BY <1>9 DEF PutWrite, WaitAt, AckedKept, Rest, fileVars
<1>10. ASSUME NEW c \in Conns, PutRename(c) PROVE AckedKept'
  BY <1>10 DEF PutRename, Placed, AckedKept, Rest
<1>11. ASSUME NEW c \in Conns, GetStat(c) PROVE AckedKept'
  BY <1>11 DEF GetStat, Reply, WaitAt, AckedKept, Rest, fileVars
<1>12. ASSUME NEW c \in Conns, GetRemove(c) PROVE AckedKept'
  BY <1>12 DEF GetRemove, Placed, AckedKept, Rest
<1>13. ASSUME NEW c \in Conns, GetRead(c) PROVE AckedKept'
  BY <1>13 DEF GetRead, Reply, Close, AckedKept, Rest, fileVars
<1>14. ASSUME NEW c \in Conns, ReadTimeout(c) PROVE AckedKept'
  BY <1>14 DEF ReadTimeout, Close, AckedKept, Rest, fileVars
<1>15. ASSUME NEW c \in Conns, WriteTimeout(c) PROVE AckedKept'
  BY <1>15 DEF WriteTimeout, Close, AckedKept, Rest, fileVars
<1>16. ASSUME NEW c \in Conns, ClientLeaves(c) PROVE AckedKept'
  BY <1>16 DEF ClientLeaves, Close, AckedKept, Rest, fileVars
<1>17. CASE Collect
  <2>1. \A a \in acked : a[1] \in Keys /\ ~Expired(a[1])
    <3>1. SUFFICES ASSUME NEW a \in acked PROVE a[1] \in Keys /\ ~Expired(a[1])
      OBVIOUS
    <3> QED
      BY <1>17, <3>1, AckedTyped, AckedLive DEF Collect
  <2>2. \A a \in acked : store'[a[1]] = store[a[1]]
    BY <1>17, <2>1 DEF Collect
  <2> QED
    BY <1>17, <2>2 DEF Collect, AckedKept, Rest
<1>18. ASSUME NEW k \in Keys, CollectStat(k) PROVE AckedKept'
  BY <1>18 DEF CollectStat, AckedKept, Rest
<1>19. CASE CollectRemove
  BY <1>19 DEF CollectRemove, Placed, AckedKept, Rest
<1>20. CASE Tick
  <2>1. \A a \in acked' : a \in acked /\ now' - a[3] <= TTL
    <3>1. now' = now + 1 /\ acked' = {a \in acked : now + 1 - a[3] <= TTL}
      BY <1>20 DEF Tick
    <3>2. now \in Nat
      BY DEF Typed
    <3>3. \A a \in acked' : a \in acked /\ now + 1 - a[3] <= TTL
      BY <3>1
    <3>4. \A a \in acked' : a[3] \in Nat
      BY <3>3, AckedTyped
    <3> QED
      BY <3>1, <3>2, <3>3, <3>4
  <2> QED
    BY <1>20, <2>1 DEF Tick, AckedKept, fileVars
<1>21. CASE Restart
  BY <1>21 DEF Restart, AckedKept
<1>22. CASE UNCHANGED vars
  BY <1>22 DEF vars, fileVars, AckedKept
<1> QED
  BY <1>1, <1>2, <1>3, <1>4, <1>5, <1>6, <1>7, <1>8, <1>9, <1>10, <1>11, <1>12,
     <1>13, <1>14, <1>15, <1>16, <1>17, <1>18, <1>19, <1>20, <1>21, <1>22 DEF Next,
     ClientStep, HandlerStep

-----------------------------------------------------------------------------
IInv == Typed /\ Placed /\ AllSeen /\ AckedKept

(* No request, no answer and no file at first. *)
LEMMA InitInv == Init => IInv
<1> SUFFICES ASSUME Init PROVE IInv
  OBVIOUS
<1>1. Typed
  BY ServerAssumption DEF Init, Typed, Nothing, NoAnswer, Places, Codes
<1>2. Placed /\ AllSeen /\ AckedKept
  BY DEF Init, Placed, AllSeen, SeenBy, AckedKept, NoAnswer
<1> QED
  BY <1>1, <1>2 DEF IInv

(* The types, where handlers are, what their requests have seen and what was  *)
(* acknowledged fit together in both servers (handle_client, the collectors). *)
THEOREM Invariance == Spec => []IInv
<1>1. IInv /\ [Next]_vars => IInv'
  BY TypedStep, PlacedStep, SeenStep, KeptStep DEF IInv
<1> QED
  BY InitInv, <1>1, PTL DEF Spec

(* Every answer was true at some moment while its request ran, in both       *)
(* servers, whatever runs between two awaits (handle_client).                 *)
THEOREM TrueAnswers == Spec => []AnswersWereTrue
<1>1. IInv => AnswersWereTrue
  BY DEF IInv, AllSeen, SeenBy, AnswersWereTrue
<1> QED
  BY Invariance, <1>1, PTL

(* The Python server keeps what it has answered OK until it expires, across   *)
(* other requests, the collector and restarts (handle_client, gc_loop).       *)
THEOREM AcceptedKept == Spec => []AcceptedIsKept
<1>1. IInv => AcceptedIsKept
  BY DEF IInv, AckedKept, AcceptedIsKept
<1> QED
  BY Invariance, <1>1, PTL

(* A live file changes only in the Rust server, and only where two of its     *)
(* steps overlap (main.rs:477, main.rs:328).                                  *)
THEOREM LiveFilesStay == Spec => LiveFileStays
<1> DEFINE Overlap(k) ==
      /\ impl = "rust"
      /\ \/ gc = k
         \/ \E c \in Conns : /\ pc[c] \in {"rename", "remove"}
                             /\ req[c].key = k /\ NoBlob \in seen[c]
<1>1. ASSUME IInv, [Next]_vars, NEW k \in Keys, Live(k), store'[k] # store[k]
      PROVE  Overlap(k)
  <2>1. \A c \in Conns : ~PutLine(c) /\ ~PutRate(c) /\ ~Connect(c) /\ ~BadLine(c)
                         /\ ~Deliver(c) /\ ~ReadTimeout(c) /\ ~WriteTimeout(c)
                         /\ ~ClientLeaves(c)
    BY <1>1 DEF PutLine, PutRate, Connect, BadLine, Deliver, ReadTimeout, WriteTimeout,
       ClientLeaves, fileVars
  <2>2. \A c \in Conns : ~PutStat(c) /\ ~PutWrite(c) /\ ~GetStat(c) /\ ~GetRead(c)
    BY <1>1 DEF PutStat, PutWrite, GetStat, GetRead, fileVars
  <2>3. ASSUME NEW c \in Conns, PutBody(c) PROVE FALSE
    BY <1>1, <2>3 DEF PutBody, Stored, IInv, Typed, Live
  <2>4. ASSUME NEW c \in Conns, GetLine(c) PROVE FALSE
    BY <1>1, <2>4 DEF GetLine, IInv, Typed, Live
  <2>5. ASSUME NEW c \in Conns, PutRename(c) PROVE Overlap(k)
    BY <1>1, <2>5 DEF PutRename, Stored, IInv, Typed, Placed, AllSeen, SeenBy
  <2>6. ASSUME NEW c \in Conns, GetRemove(c) PROVE Overlap(k)
    BY <1>1, <2>6 DEF GetRemove, IInv, Typed, Placed, AllSeen, SeenBy
  <2>7. ~Collect /\ ~Tick /\ ~Restart /\ vars' # vars /\ \A l \in Keys : ~CollectStat(l)
    BY <1>1 DEF Collect, Tick, Restart, CollectStat, Live, fileVars, vars
  <2>8. CASE CollectRemove
    BY <1>1, <2>8 DEF CollectRemove, IInv, Typed, Placed
  <2> QED
    BY <1>1, <2>1, <2>2, <2>3, <2>4, <2>5, <2>6, <2>7, <2>8 DEF Next, ClientStep, HandlerStep
<1>2. IInv /\ [Next]_vars =>
        [\A k \in Keys : Live(k) /\ store'[k] # store[k] => Overlap(k)]_vars
  BY <1>1
<1> QED
  BY Invariance, <1>2, PTL DEF Spec, LiveFileStays

-----------------------------------------------------------------------------
(***************************************************************************)
(* The limits: slots and the rate of PUTs                                  *)
(***************************************************************************)
Times == 0..MaxTime

(* The types that Typed leaves open. *)
RateTyped ==
  /\ impl \in Impls
  /\ now \in Times
  /\ \A k \in Keys : store[k].mtime \in Times
  /\ \A c \in Conns : stamp[c] \in Times
  /\ \A a \in acked : a[3] \in Times
  /\ puts \in Seq(Times) /\ Len(puts) <= MaxPuts
  /\ charged \in Seq(Times)
  /\ seen \in [Conns -> SUBSET (Blobs \cup {NoBlob})]

(* The semaphore is never overdrawn. *)
Slots == IsFiniteSet(Holding) /\ Cardinality(Holding) <= MaxActive

(* The Rust handlers that have noted a time and wait for the lock over the    *)
(* next tick: one tick, as Tick waits for them.                               *)
Late == {c \in Conns : pc[c] = "rate" /\ stamp[c] # now}
Punctual == \A c \in Conns : pc[c] = "rate" => stamp[c] \in {now, now - 1}

(* drop_put_times is what the charges end with; what was dropped of them is   *)
(* older than a window.                                                       *)
Gone == Len(charged) - Len(puts)
PutsAreLast ==
  /\ Len(puts) <= Len(charged)
  /\ \A i \in 1..Len(puts) : puts[i] = charged[Gone + i]
  /\ \A i \in 1..Gone : charged[i] < now - Window
  /\ \A i \in 1..Len(charged) : charged[i] <= now

(* The charges in the window that begins at t, and whether they all still     *)
(* count.                                                                    *)
In(t) == {i \in DOMAIN charged : charged[i] \in t..(t + Window)}
Whole(t) == \A i \in 1..Gone : charged[i] < t

Slack == IF impl = "rust" THEN MaxActive - 1 ELSE 0

(* The window that has just ended may still be charged by those who are late,  *)
(* and who no longer see all that counts.                                     *)
Closing ==
  \A t \in Int : t = now - Window - 1 =>
    Whole(t) \/ Cardinality(In(t)) + Cardinality(Late) <= MaxPuts + Slack
Closed ==
  \A t \in Int : t < now - Window - 1 => Cardinality(In(t)) <= MaxPuts + Slack

(* A nonempty set of natural numbers has a least member, and Min is it. *)
LEMMA MinOfNat ==
  ASSUME NEW T \in SUBSET Nat, T # {}
  PROVE  Min(T) \in T /\ \A y \in T : Min(T) <= y
<1> DEFINE R == OpToRel(<, Nat)
<1>1. IsWellFoundedOn(R, Nat)
  BY NatLessThanWellFounded
<1>2. \A x, y \in Nat : y < x => <<y, x>> \in R
  BY Zenon DEF OpToRel
<1> HIDE DEF R
<1>3. PICK x \in T : \A y \in T : ~ (<<y, x>> \in R)
  BY <1>1, WFMin
<1>4. \A y \in T : x <= y
  <2>1. x \in Nat /\ \A y \in T : y \in Nat
    OBVIOUS
  <2>2. \A y \in T : ~ (y < x)
    BY <1>2, <1>3, <2>1, Zenon
  <2> QED
    BY <2>1, <2>2
<1> QED
  BY <1>4, Zenon DEF Min

(* Kept takes times off the front, all of them older than a window. *)
LEMMA KeptFacts ==
  ASSUME puts \in Seq(Times), NEW t \in Int
  PROVE  /\ Kept(t) \in Seq(Times)
         /\ \E d \in 0..Len(puts) :
              /\ Len(Kept(t)) = Len(puts) - d
              /\ \A i \in 1..Len(Kept(t)) : Kept(t)[i] = puts[d + i]
              /\ \A i \in 1..d : puts[i] < t - Window
<1> DEFINE recent == {i \in 1..Len(puts) : puts[i] >= t - Window}
<1>1. Len(puts) \in Nat /\ \A i \in 1..Len(puts) : puts[i] \in Times /\ puts[i] \in Int
  BY ServerAssumption DEF Times
<1>2. t - Window \in Int
  BY ServerAssumption
<1>3. CASE recent = {}
  <2>1. Kept(t) = <<>>
    BY <1>3 DEF Kept
  <2>2. \A i \in 1..Len(puts) : puts[i] < t - Window
    BY <1>1, <1>2, <1>3
  <2>3. Len(puts) \in 0..Len(puts) /\ Len(Kept(t)) = Len(puts) - Len(puts)
    BY <1>1, <2>1
  <2> QED
    BY <2>1, <2>2, <2>3
<1>4. CASE recent # {}
  <2>1. recent \in SUBSET Nat
    OBVIOUS
  <2>2. PICK m : m = Min(recent)
    OBVIOUS
  <2>3. m \in recent /\ \A y \in recent : m <= y
    BY <1>4, <2>1, <2>2, MinOfNat
  <2>4. Kept(t) = SubSeq(puts, m, Len(puts))
    BY <1>4, <2>2 DEF Kept
  <2>5. m \in 1..Len(puts) /\ \A i \in m..Len(puts) : puts[i] \in Times
    BY <1>1, <2>3
  <2>6. /\ Kept(t) \in Seq(Times) /\ Len(Kept(t)) = Len(puts) - m + 1
        /\ \A i \in 1..(Len(puts) - m + 1) : Kept(t)[i] = puts[m + i - 1]
    BY <1>1, <2>4, <2>5, SubSeqProperties
  <2>7. \A i \in 1..(m - 1) : puts[i] < t - Window
    <3> SUFFICES ASSUME NEW i \in 1..(m - 1) PROVE puts[i] < t - Window
      OBVIOUS
    <3>1. i \in 1..Len(puts) /\ ~(m <= i)
      BY <1>1, <2>5
    <3>2. i \notin recent
      BY <2>3, <3>1
    <3> QED
      BY <1>1, <1>2, <3>1, <3>2
  <2>8. m - 1 \in 0..Len(puts) /\ Len(Kept(t)) = Len(puts) - (m - 1)
    BY <1>1, <2>5, <2>6
  <2>9. \A i \in 1..Len(Kept(t)) : Kept(t)[i] = puts[(m - 1) + i]
    <3> SUFFICES ASSUME NEW i \in 1..Len(Kept(t)) PROVE Kept(t)[i] = puts[(m - 1) + i]
      OBVIOUS
    <3>1. i \in 1..(Len(puts) - m + 1) /\ m + i - 1 = (m - 1) + i
      BY <1>1, <2>5, <2>6
    <3> QED
      BY <2>6, <3>1
  <2> QED
    BY <2>6, <2>7, <2>8, <2>9
<1> QED
  BY <1>3, <1>4

(* Counting a window. *)
LEMMA WindowFinite ==
  ASSUME RateTyped, NEW t \in Int
  PROVE  IsFiniteSet(In(t)) /\ Cardinality(In(t)) \in Nat
<1>1. Len(charged) \in Nat /\ DOMAIN charged = 1..Len(charged)
  BY DEF RateTyped
<1>2. IsFiniteSet(1..Len(charged))
  BY <1>1, FS_Interval
<1>3. In(t) \subseteq 1..Len(charged)
  BY <1>1 DEF In
<1>4. IsFiniteSet(In(t))
  BY <1>2, <1>3, FS_Subset
<1> QED
  BY <1>4, FS_CardinalityType

(* As long as all that was charged in a window still counts, the limit holds. *)
LEMMA WholeCount ==
  ASSUME RateTyped, PutsAreLast, NEW t \in Int, Whole(t)
  PROVE  Cardinality(In(t)) <= MaxPuts
<1>1. /\ Len(charged) \in Nat /\ DOMAIN charged = 1..Len(charged)
      /\ Len(puts) \in Nat /\ Len(puts) <= MaxPuts /\ MaxPuts \in Nat
      /\ \A i \in 1..Len(charged) : charged[i] \in Int
  BY ServerAssumption DEF RateTyped, Times
<1>2. Gone \in Nat /\ Gone = Len(charged) - Len(puts)
  BY <1>1 DEF Gone, PutsAreLast
<1> DEFINE last == (Gone + 1)..Len(charged)
<1>3. IsFiniteSet(last) /\ Cardinality(last) = Len(puts)
  <2>1. Gone + 1 \in Int /\ Len(charged) \in Int
    BY <1>1, <1>2
  <2>2. /\ IsFiniteSet(last)
        /\ Cardinality(last) = IF Gone + 1 > Len(charged) THEN 0 ELSE Len(charged) - (Gone + 1) + 1
    BY <2>1, FS_Interval
  <2> QED
    BY <1>1, <1>2, <2>2
<1>4. In(t) \subseteq last
  <2> SUFFICES ASSUME NEW i \in In(t) PROVE i \in last
    OBVIOUS
  <2>1. i \in 1..Len(charged) /\ charged[i] \in Int /\ charged[i] \in t..(t + Window)
    BY <1>1 DEF In
  <2>2. ~(charged[i] < t)
    BY <2>1
  <2>3. i \notin 1..Gone
    BY <2>2 DEF Whole
  <2> QED
    BY <1>1, <1>2, <2>1, <2>3
<1>5. Cardinality(In(t)) <= Len(puts)
  BY <1>3, <1>4, FS_Subset
<1>6. Cardinality(In(t)) \in Nat
  BY WindowFinite
<1> QED
  BY <1>1, <1>5, <1>6

(* One more charge. *)
LEMMA OneMore ==
  ASSUME RateTyped, NEW t \in Int, NEW u \in Int, charged' = Append(charged, u)
  PROVE  /\ u \notin t..(t + Window) => Cardinality(In(t))' = Cardinality(In(t))
         /\ Cardinality(In(t))' <= Cardinality(In(t)) + 1
<1>1. /\ Len(charged) \in Nat /\ DOMAIN charged = 1..Len(charged)
      /\ DOMAIN charged' = 1..(Len(charged) + 1)
      /\ charged'[Len(charged) + 1] = u
      /\ \A i \in 1..Len(charged) : charged'[i] = charged[i]
  BY DEF RateTyped
<1> DEFINE n == Len(charged) + 1
<1>2. CASE u \notin t..(t + Window)
  <2>1. In(t)' = In(t)
    <3>1. \A i : i \in In(t)' <=> i \in 1..n /\ charged'[i] \in t..(t + Window)
      BY <1>1 DEF In
    <3>2. \A i : i \in In(t) <=> i \in 1..(n - 1) /\ charged[i] \in t..(t + Window)
      BY <1>1 DEF In
    <3>3. \A i \in 1..n : i = n \/ i \in 1..(n - 1)
      BY <1>1
    <3>4. \A i \in 1..(n - 1) : i \in 1..n /\ charged'[i] = charged[i]
      BY <1>1
    <3>5. charged'[n] = u
      BY <1>1
    <3> HIDE DEF n
    <3>6. \A i : i \in In(t)' <=> i \in In(t)
      BY <1>2, <3>1, <3>2, <3>3, <3>4, <3>5
    <3> QED
      BY <3>6
  <2> QED
    BY <2>1, WindowFinite
<1>3. CASE u \in t..(t + Window)
  <2>1. In(t)' = In(t) \cup {n}
    <3>1. \A i : i \in In(t)' <=> i \in 1..n /\ charged'[i] \in t..(t + Window)
      BY <1>1 DEF In
    <3>2. \A i : i \in In(t) <=> i \in 1..(n - 1) /\ charged[i] \in t..(t + Window)
      BY <1>1 DEF In
    <3>3. n \in 1..n /\ \A i \in 1..n : i = n \/ i \in 1..(n - 1)
      BY <1>1
    <3>4. \A i \in 1..(n - 1) : i \in 1..n /\ charged'[i] = charged[i]
      BY <1>1
    <3>5. charged'[n] = u
      BY <1>1
    <3> HIDE DEF n
    <3>6. \A i : i \in In(t)' <=> i \in In(t) \cup {n}
      BY <1>3, <3>1, <3>2, <3>3, <3>4, <3>5
    <3> QED
      BY <3>6
  <2>2. n \notin In(t) /\ IsFiniteSet(In(t))
    BY <1>1, WindowFinite DEF In
  <2>3. Cardinality(In(t) \cup {n}) = Cardinality(In(t)) + 1
    BY <2>2, FS_AddElement
  <2>4. Cardinality(In(t)) \in Nat
    BY WindowFinite
  <2> QED
    BY <1>3, <2>1, <2>3, <2>4
<1> QED
  BY <1>2, <1>3, WindowFinite

(* allow_put, for the charges: what it drops is old, and what it charges goes  *)
(* last.                                                                      *)
LEMMA AllowFacts ==
  ASSUME RateTyped, PutsAreLast, NEW c \in Conns, NEW u \in Times, u <= now, now' = now,
         AllowPut(c, u)
  PROVE  /\ puts' \in Seq(Times) /\ Len(puts') <= MaxPuts
         /\ charged' \in Seq(Times)
         /\ charged' = charged \/ charged' = Append(charged, u)
         /\ PutsAreLast'
         /\ \A i \in 1..Gone' :
              /\ i \in 1..Len(charged) /\ charged'[i] = charged[i]
              /\ i \in 1..Gone \/ charged[i] < u - Window
         /\ \A i \in 1..Gone : charged'[i] = charged[i] /\ i \in 1..Gone'
<1>1. /\ puts \in Seq(Times) /\ Len(puts) \in Nat
      /\ charged \in Seq(Times) /\ Len(charged) \in Nat
      /\ MaxPuts \in Nat /\ Window \in Nat /\ now \in Int /\ u \in Int
      /\ Len(puts) <= MaxPuts
  BY ServerAssumption DEF RateTyped, Times
<1>2. PICK d \in 0..Len(puts) :
        /\ Len(Kept(u)) = Len(puts) - d
        /\ \A i \in 1..Len(Kept(u)) : Kept(u)[i] = puts[d + i]
        /\ \A i \in 1..d : puts[i] < u - Window
  BY <1>1, KeptFacts
<1>3. PICK k : k = Kept(u)
  OBVIOUS
<1>4. k \in Seq(Times) /\ Len(k) = Len(puts) - d /\ \A i \in 1..Len(k) : k[i] = puts[d + i]
  BY <1>1, <1>2, <1>3, KeptFacts
<1>5. /\ Len(puts) <= Len(charged)
      /\ \A i \in 1..Len(puts) : puts[i] = charged[Gone + i]
      /\ \A i \in 1..Gone : charged[i] < now - Window
      /\ \A i \in 1..Len(charged) : charged[i] <= now
      /\ Gone = Len(charged) - Len(puts)
  BY DEF PutsAreLast, Gone
<1> DEFINE g == Gone + d
<1>6. g \in Nat /\ d \in Nat /\ g = Len(charged) - Len(k) /\ Gone \in Nat /\ g <= Len(charged)
  BY <1>1, <1>2, <1>4, <1>5
<1>7. \A i \in 1..g : /\ i \in 1..Len(charged)
                      /\ i \in 1..Gone \/ charged[i] < u - Window
  <2> SUFFICES ASSUME NEW i \in 1..g, i \notin 1..Gone
               PROVE  charged[i] < u - Window
    BY <1>1, <1>6
  <2>1. i - Gone \in 1..d /\ i - Gone \in 1..Len(puts) /\ Gone + (i - Gone) = i
    BY <1>1, <1>2, <1>6
  <2> QED
    BY <1>2, <1>5, <2>1
<1>8. \A i \in 1..Len(charged) : charged[i] \in Int
  <2>1. \A x \in Times : x \in Int
    BY DEF Times
  <2>2. \A i \in 1..Len(charged) : charged[i] \in Times
    BY <1>1
  <2> QED
    BY <2>1, <2>2
<1>9. \A i \in 1..g : charged[i] < now - Window
  BY <1>1, <1>5, <1>7, <1>8
<1>10. \A i \in 1..Len(k) : k[i] = charged[g + i]
  <2> SUFFICES ASSUME NEW i \in 1..Len(k) PROVE k[i] = charged[g + i]
    OBVIOUS
  <2>1. d + i \in 1..Len(puts) /\ Gone + (d + i) = g + i
    BY <1>1, <1>4, <1>6
  <2> QED
    BY <1>4, <1>5, <2>1
<1>11. \A i \in 1..Gone : i \in 1..g
  BY <1>6
<1> HIDE DEF g
<1>12. CASE puts' = k /\ charged' = charged
  <2>1. Gone' = g
    BY <1>6, <1>12 DEF Gone
  <2>2. Len(k) <= MaxPuts /\ Len(k) <= Len(charged)
    BY <1>1, <1>2, <1>4, <1>5
  <2>3. PutsAreLast'
    BY <1>5, <1>9, <1>10, <1>12, <2>1, <2>2 DEF PutsAreLast
  <2> QED
    BY <1>1, <1>4, <1>7, <1>11, <1>12, <2>1, <2>2, <2>3
<1>13. CASE puts' = Append(k, u) /\ charged' = Append(charged, u) /\ Len(k) < MaxPuts
  <2>1. /\ puts' \in Seq(Times) /\ Len(puts') = Len(k) + 1
        /\ \A i \in 1..Len(k) : puts'[i] = k[i]
        /\ puts'[Len(k) + 1] = u
    <3>1. k \in Seq(Times)
      BY <1>4
    <3> QED
      BY <1>13, <3>1, AppendProperties
  <2>2. /\ charged' \in Seq(Times) /\ Len(charged') = Len(charged) + 1
        /\ \A i \in 1..Len(charged) : charged'[i] = charged[i]
        /\ charged'[Len(charged) + 1] = u
    BY <1>1, <1>13, AppendProperties
  <2>3. Gone' = g
    BY <1>1, <1>4, <1>6, <2>1, <2>2 DEF Gone
  <2>4. \A i \in 1..Len(puts') : puts'[i] = charged'[g + i]
    <3> SUFFICES ASSUME NEW i \in 1..Len(puts') PROVE puts'[i] = charged'[g + i]
      OBVIOUS
    <3>1. CASE i \in 1..Len(k)
      <4>1. g + i \in 1..Len(charged)
        BY <1>1, <1>4, <1>6, <3>1
      <4> QED
        BY <1>10, <2>1, <2>2, <3>1, <4>1
    <3>2. CASE i = Len(k) + 1
      <4>1. g + i = Len(charged) + 1
        BY <1>1, <1>4, <1>6, <3>2
      <4> QED
        BY <2>1, <2>2, <3>2, <4>1
    <3> QED
      BY <1>1, <1>4, <2>1, <3>1, <3>2
  <2>5. Len(puts') <= Len(charged') /\ Len(puts') <= MaxPuts
    BY <1>1, <1>2, <1>4, <1>5, <1>13, <2>1, <2>2
  <2>6. \A i \in 1..g : charged'[i] = charged[i]
    BY <1>7, <2>2
  <2>7. \A i \in 1..Len(charged') : charged'[i] <= now
    <3>1. \A i \in 1..Len(charged') : i \in 1..Len(charged) \/ i = Len(charged) + 1
      BY <1>1, <2>2
    <3> QED
      BY <1>5, <2>2, <3>1
  <2>8. PutsAreLast'
    BY <1>9, <2>3, <2>4, <2>5, <2>6, <2>7 DEF PutsAreLast
  <2> QED
    BY <1>7, <1>11, <1>13, <2>1, <2>2, <2>3, <2>5, <2>6, <2>8
<1>14. \/ puts' = k /\ charged' = charged
       \/ puts' = Append(k, u) /\ charged' = Append(charged, u) /\ ~(Len(k) >= MaxPuts)
  BY <1>3 DEF AllowPut
<1> QED
  BY <1>1, <1>4, <1>12, <1>13, <1>14

(* The steps, as the limits see them. *)
Judged(c, u) ==
  /\ AllowPut(c, u)
  /\ c \in Holding /\ impl' = impl /\ now' = now
  /\ \/ u = now /\ c \notin Late
     \/ u = now - 1 /\ c \in Late
  /\ Late' \subseteq Late \ {c}

Calm == UNCHANGED <<impl, now, puts, charged>> /\ Late' \subseteq Late

Ticks ==
  /\ now' = now + 1
  /\ \A c \in Conns : pc[c] = "rate" => stamp[c] = now
  /\ UNCHANGED <<impl, puts, charged>>

Fresher == puts' = <<>> /\ charged' = <<>> /\ Late' = {} /\ UNCHANGED <<impl, now>>

LEMMA RateSteps ==
  ASSUME Typed, Placed, Punctual, RateTyped, [Next]_vars
  PROVE  Calm \/ Ticks \/ Fresher \/ \E c \in Conns, u \in Times : Judged(c, u)
<1> USE DEF Calm, Rest, fileVars, rateVars, connVars
<1>1. ASSUME NEW c \in Conns, PutLine(c)
      PROVE  Calm \/ \E u \in Times : Judged(c, u)
  <2>1. CASE impl = "python"
    <3>1. c \in Holding /\ c \notin Late /\ now \in Times
      BY <1>1 DEF PutLine, Holding, Late, RateTyped
    <3>2. Late' \subseteq Late \ {c}
      <4>1. /\ pc' = [pc EXCEPT ![c] = "body"] \/ pc' = [pc EXCEPT ![c] = "reply"]
            /\ stamp' = stamp /\ now' = now /\ pc \in [Conns -> Places]
        BY <1>1, <2>1 DEF PutLine, AllowPut, WaitAt, Reply, Typed
      <4> QED
        BY <4>1 DEF Late
    <3> QED
      BY <1>1, <2>1, <3>1, <3>2 DEF PutLine, Judged
  <2>2. CASE impl # "python"
    BY <1>1, <2>2 DEF PutLine, WaitAt, Late, Typed
  <2> QED
    BY <2>1, <2>2
<1>2. ASSUME NEW c \in Conns, PutRate(c) PROVE Judged(c, stamp[c]) /\ stamp[c] \in Times
  <2>1. c \in Holding /\ (c \in Late <=> stamp[c] # now) /\ stamp[c] \in {now, now - 1}
    BY <1>2 DEF PutRate, Holding, Late, Punctual
  <2>2. Late' \subseteq Late \ {c}
    <3>1. /\ pc' = [pc EXCEPT ![c] = "body"] \/ pc' = [pc EXCEPT ![c] = "reply"]
          /\ stamp' = [stamp EXCEPT ![c] = 0] /\ now' = now
          /\ pc \in [Conns -> Places] /\ stamp \in [Conns -> Nat]
      BY <1>2 DEF PutRate, AllowPut, WaitAt, Reply, Typed
    <3> QED
      BY <3>1 DEF Late
  <2> QED
    BY <1>2, <2>1, <2>2 DEF PutRate, Judged, RateTyped
<1>3. ASSUME NEW c \in Conns, Connect(c) \/ BadLine(c) \/ PutBody(c) \/ GetLine(c)
             \/ PutStat(c) \/ PutWrite(c) \/ PutRename(c) \/ GetStat(c) \/ GetRemove(c)
      PROVE  Calm
  BY <1>3 DEF Connect, BadLine, PutBody, GetLine, PutStat, PutWrite, PutRename, GetStat, GetRemove,
     Stored, WaitAt, Reply, Late, Typed
<1>4. ASSUME NEW c \in Conns, Deliver(c) \/ GetRead(c) \/ ReadTimeout(c) \/ WriteTimeout(c)
             \/ ClientLeaves(c)
      PROVE  Calm
  BY <1>4 DEF Deliver, GetRead, ReadTimeout, WriteTimeout, ClientLeaves, Close, Reply, Late, Typed
<1>5. ASSUME Collect \/ CollectRemove \/ (\E k \in Keys : CollectStat(k)) \/ UNCHANGED vars
      PROVE  Calm
  BY <1>5 DEF Collect, CollectRemove, CollectStat, Late, vars
<1>6. CASE Tick
  BY <1>6 DEF Tick, Ticks
<1>7. CASE Restart
  BY <1>7 DEF Restart, Fresher, Late
<1> QED
  BY <1>1, <1>2, <1>3, <1>4, <1>5, <1>6, <1>7 DEF Next, ClientStep, HandlerStep

(* Who is late is so by one tick. *)
LEMMA PunctualStep ==
  ASSUME Typed, Placed, Punctual, [Next]_vars
  PROVE  Punctual'
<1> USE DEF Punctual, Rest, fileVars, rateVars, connVars
<1>0. now \in Nat
  BY DEF Typed
<1>1. ASSUME NEW c \in Conns, PutLine(c) PROVE Punctual'
  BY <1>1 DEF PutLine, AllowPut, WaitAt, Reply, Typed
<1>2. ASSUME NEW c \in Conns, PutRate(c) PROVE Punctual'
  BY <1>2 DEF PutRate, AllowPut, WaitAt, Reply, Typed
<1>3. ASSUME NEW c \in Conns, Connect(c) \/ BadLine(c) \/ PutBody(c) \/ GetLine(c)
             \/ PutStat(c) \/ PutWrite(c) \/ PutRename(c) \/ GetStat(c) \/ GetRemove(c)
      PROVE  Punctual'
  BY <1>3 DEF Connect, BadLine, PutBody, GetLine, PutStat, PutWrite, PutRename, GetStat, GetRemove,
     Stored, WaitAt, Reply, Typed
<1>4. ASSUME NEW c \in Conns, Deliver(c) \/ GetRead(c) \/ ReadTimeout(c) \/ WriteTimeout(c)
             \/ ClientLeaves(c)
      PROVE  Punctual'
  BY <1>4 DEF Deliver, GetRead, ReadTimeout, WriteTimeout, ClientLeaves, Close, Reply, Typed
<1>5. ASSUME Collect \/ CollectRemove \/ (\E k \in Keys : CollectStat(k)) \/ UNCHANGED vars
      PROVE  Punctual'
  BY <1>5 DEF Collect, CollectRemove, CollectStat, vars
<1>6. CASE Tick
  BY <1>0, <1>6 DEF Tick
<1>7. CASE Restart
  BY <1>7 DEF Restart
<1> QED
  BY <1>1, <1>2, <1>3, <1>4, <1>5, <1>6, <1>7 DEF Next, ClientStep, HandlerStep

(* A slot is taken in Connect alone, when one is free. *)
LEMMA SlotsStep ==
  ASSUME Typed, Slots, [Next]_vars
  PROVE  Slots'
<1> USE DEF Rest, fileVars, rateVars, connVars
<1>1. ASSUME NEW c \in Conns, Connect(c) PROVE Slots'
  <2>1. Holding' = Holding \cup {c}
    BY <1>1 DEF Connect, WaitAt, Holding, Typed
  <2>2. IsFiniteSet(Holding) /\ Cardinality(Holding) < MaxActive
    BY <1>1 DEF Connect, Slots
  <2>3. Cardinality(Holding) \in Nat /\ MaxActive \in Nat
    BY <2>2, FS_CardinalityType, ServerAssumption
  <2>4. /\ IsFiniteSet(Holding \cup {c})
        /\ Cardinality(Holding \cup {c}) <= Cardinality(Holding) + 1
    BY <2>2, <2>3, FS_AddElement
  <2>5. Cardinality(Holding \cup {c}) \in Nat
    BY <2>4, FS_CardinalityType
  <2> QED
    BY <2>1, <2>2, <2>3, <2>4, <2>5 DEF Slots
<1>2. ASSUME Holding' \subseteq Holding PROVE Slots'
  <2>1. IsFiniteSet(Holding') /\ Cardinality(Holding') <= Cardinality(Holding)
    BY <1>2, FS_Subset DEF Slots
  <2>2. Cardinality(Holding) \in Nat /\ Cardinality(Holding') \in Nat /\ MaxActive \in Nat
    BY <2>1, FS_CardinalityType, ServerAssumption DEF Slots
  <2> QED
    BY <2>1, <2>2 DEF Slots
<1>3. ASSUME NEW c \in Conns, PutLine(c) \/ PutRate(c)
      PROVE  Holding' \subseteq Holding
  BY <1>3 DEF PutLine, PutRate, AllowPut, WaitAt, Reply, Typed, Holding
<1>4. ASSUME NEW c \in Conns, BadLine(c) \/ PutBody(c) \/ GetLine(c)
             \/ PutStat(c) \/ PutWrite(c) \/ PutRename(c) \/ GetStat(c) \/ GetRemove(c)
      PROVE  Holding' \subseteq Holding
  BY <1>4 DEF BadLine, PutBody, GetLine, PutStat, PutWrite, PutRename, GetStat, GetRemove,
     Stored, WaitAt, Reply, Typed, Holding
<1>5. ASSUME NEW c \in Conns, Deliver(c) \/ GetRead(c) \/ ReadTimeout(c) \/ WriteTimeout(c)
             \/ ClientLeaves(c)
      PROVE  Holding' \subseteq Holding
  BY <1>5 DEF Deliver, GetRead, ReadTimeout, WriteTimeout, ClientLeaves, Close, Reply, Typed, Holding
<1>6. ASSUME Collect \/ CollectRemove \/ (\E k \in Keys : CollectStat(k)) \/ Tick \/ Restart
             \/ UNCHANGED vars
      PROVE  Holding' \subseteq Holding
  BY <1>6 DEF Collect, CollectRemove, CollectStat, Tick, Restart, vars, Holding
<1> QED
  BY <1>1, <1>2, <1>3, <1>4, <1>5, <1>6 DEF Next, ClientStep, HandlerStep

(* How many are late leaves room for one who is not. *)
LEMMA LateFew ==
  ASSUME Placed, Slots
  PROVE  /\ IsFiniteSet(Late) /\ Cardinality(Late) \in Nat
         /\ impl # "rust" => Cardinality(Late) = 0
         /\ \A c \in Holding \ Late : Cardinality(Late) <= MaxActive - 1
<1>1. Late \subseteq Holding
  BY DEF Late, Holding
<1>2. IsFiniteSet(Late) /\ Cardinality(Late) \in Nat
  BY <1>1, FS_Subset, FS_CardinalityType DEF Slots
<1>3. ASSUME impl # "rust" PROVE Cardinality(Late) = 0
  <2>1. Late = {}
    BY <1>3 DEF Placed, Late
  <2> QED
    BY <2>1, FS_EmptySet
<1>4. ASSUME NEW c \in Holding \ Late PROVE Cardinality(Late) <= MaxActive - 1
  <2>1. IsFiniteSet(Late \cup {c}) /\ Cardinality(Late \cup {c}) = Cardinality(Late) + 1
    BY <1>2, <1>4, FS_AddElement
  <2>2. Late \cup {c} \subseteq Holding /\ IsFiniteSet(Holding)
    BY <1>1, <1>4 DEF Slots
  <2>3. Cardinality(Late \cup {c}) <= Cardinality(Holding) /\ Cardinality(Holding) \in Nat
    BY <2>2, FS_Subset, FS_CardinalityType
  <2>4. Cardinality(Holding) <= MaxActive /\ MaxActive \in Nat
    BY ServerAssumption DEF Slots
  <2> QED
    BY <1>2, <2>1, <2>3, <2>4
<1> QED
  BY <1>2, <1>3, <1>4

(* Fewer are late after a step. *)
LEMMA FewerLate ==
  ASSUME Placed, Slots, Slots', Placed'
  PROVE  /\ Cardinality(Late)' \in Nat
         /\ Late' \subseteq Late => Cardinality(Late)' <= Cardinality(Late)
         /\ \A c \in Late : Late' \subseteq Late \ {c} => Cardinality(Late)' <= Cardinality(Late) - 1
<1>1. IsFiniteSet(Late) /\ Cardinality(Late) \in Nat
  BY LateFew
<1>2. ASSUME NEW S, S \subseteq Late PROVE Cardinality(S) \in Nat /\ Cardinality(S) <= Cardinality(Late)
  BY <1>1, <1>2, FS_Subset, FS_CardinalityType
<1>3. Cardinality(Late') \in Nat
  <2>1. Late' \subseteq Holding' /\ IsFiniteSet(Holding')
    BY DEF Late, Holding, Slots
  <2> QED
    BY <2>1, FS_Subset, FS_CardinalityType
<1>4. ASSUME NEW c \in Late, Late' \subseteq Late \ {c}
      PROVE  Cardinality(Late') <= Cardinality(Late) - 1
  <2>1. IsFiniteSet(Late \ {c}) /\ Cardinality(Late \ {c}) = Cardinality(Late) - 1
    BY <1>1, <1>4, FS_RemoveElement
  <2> QED
    BY <1>4, <2>1, FS_Subset
<1> QED
  BY <1>2, <1>3, <1>4

LEMMA RateTypes ==
  ASSUME RateTyped
  PROVE  /\ now \in Nat /\ Window \in Nat \ {0} /\ MaxPuts \in Nat /\ Slack \in Nat
         /\ Len(charged) \in Nat /\ Len(puts) \in Nat
         /\ \A i \in 1..Len(charged) : charged[i] \in Nat
<1>1. \A x \in Times : x \in Nat
  BY DEF Times
<1>2. Slack \in Nat
  BY ServerAssumption DEF Slack
<1>3. \A i \in 1..Len(charged) : charged[i] \in Times
  BY DEF RateTyped
<1> QED
  BY <1>1, <1>2, <1>3, ServerAssumption DEF RateTyped

(* The limit after one more request has been judged: *)
LEMMA JudgedStep ==
  ASSUME RateTyped, Placed, Slots, Slots', Placed', PutsAreLast, Closing, Closed,
         NEW c \in Conns, NEW u \in Times, Judged(c, u)
  PROVE  PutsAreLast' /\ Closing' /\ Closed'
<1>1. /\ now \in Nat /\ Window \in Nat \ {0} /\ MaxPuts \in Nat /\ Slack \in Nat
      /\ Len(charged) \in Nat
      /\ \A i \in 1..Len(charged) : charged[i] \in Nat
  BY RateTypes
<1>2. u \in Nat /\ u <= now
  BY <1>1 DEF Judged, Times
<1>3. /\ charged' = charged \/ charged' = Append(charged, u)
      /\ PutsAreLast'
      /\ \A i \in 1..Gone' :
           /\ i \in 1..Len(charged) /\ charged'[i] = charged[i]
           /\ i \in 1..Gone \/ charged[i] < u - Window
  BY <1>2, AllowFacts DEF Judged
<1>4. now' = now /\ Slack' = Slack
  BY DEF Judged, Slack
<1>5. ASSUME NEW t \in Int
      PROVE  /\ Cardinality(In(t)) \in Nat /\ Cardinality(In(t))' \in Nat
             /\ u > t + Window => Cardinality(In(t))' = Cardinality(In(t))
             /\ Cardinality(In(t))' <= Cardinality(In(t)) + 1
  <2>1. Cardinality(In(t)) \in Nat
    BY WindowFinite
  <2>2. CASE charged' = charged
    BY <2>1, <2>2 DEF In
  <2>3. CASE charged' = Append(charged, u)
    <3>1. u > t + Window => u \notin t..(t + Window)
      BY <1>1, <1>2
    <3>2. /\ u > t + Window => Cardinality(In(t))' = Cardinality(In(t))
          /\ Cardinality(In(t))' <= Cardinality(In(t)) + 1
      BY <1>2, <2>3, <3>1, OneMore
    <3>3. Cardinality(In(t))' \in Nat
      <4>1. charged' \in Seq(Times)
        BY <1>2, AllowFacts DEF Judged
      <4>2. Len(charged') \in Nat /\ DOMAIN charged' = 1..Len(charged')
        BY <4>1
      <4>3. In(t)' \subseteq 1..Len(charged') /\ IsFiniteSet(1..Len(charged'))
        BY <4>2, FS_Interval DEF In
      <4> QED
        BY <4>3, FS_Subset, FS_CardinalityType
    <3> QED
      BY <2>1, <3>2, <3>3
  <2> QED
    BY <1>3, <2>2, <2>3
<1>6. Closed'
  <2> SUFFICES ASSUME NEW t \in Int, t < now - Window - 1
               PROVE  Cardinality(In(t))' <= MaxPuts + Slack
    BY <1>4 DEF Closed
  <2>1. u > t + Window
    BY <1>1, <1>2 DEF Judged
  <2> QED
    BY <1>5, <2>1 DEF Closed
<1>7. Closing'
  <2> SUFFICES ASSUME NEW t \in Int, t = now - Window - 1
               PROVE  \/ Whole(t)'
                      \/ Cardinality(In(t))' + Cardinality(Late)' <= MaxPuts + Slack
    BY <1>4 DEF Closing
  <2>1. /\ Cardinality(In(t)) \in Nat /\ Cardinality(In(t))' \in Nat
        /\ Cardinality(Late) \in Nat /\ Cardinality(Late)' \in Nat
    BY <1>5, LateFew, FewerLate
  <2>2. Whole(t) \/ Cardinality(In(t)) + Cardinality(Late) <= MaxPuts + Slack
    BY DEF Closing
  <2>3. CASE u = now /\ c \notin Late
    <3>1. Cardinality(In(t))' = Cardinality(In(t))
      BY <1>1, <1>5, <2>3
    <3>2. Cardinality(Late)' <= Cardinality(Late)
      BY FewerLate DEF Judged
    <3>3. ASSUME Whole(t) PROVE Cardinality(In(t)) + Cardinality(Late) <= MaxPuts + Slack
      <4>1. Cardinality(In(t)) <= MaxPuts
        BY <3>3, WholeCount
      <4>2. Cardinality(Late) <= Slack
        BY <2>3, LateFew DEF Slack, Judged
      <4> QED
        BY <1>1, <2>1, <4>1, <4>2
    <3> QED
      BY <1>1, <2>1, <2>2, <3>1, <3>2, <3>3
  <2>4. CASE u = now - 1 /\ c \in Late
    <3>1. ASSUME Whole(t) PROVE Whole(t)'
      <4>1. \A i \in 1..Gone : charged[i] < t
        BY <3>1 DEF Whole
      <4>2. \A i \in 1..Gone' : charged'[i] < t
        BY <1>1, <1>3, <2>4, <4>1
      <4> QED
        BY <4>2 DEF Whole
    <3>2. Cardinality(Late)' <= Cardinality(Late) - 1
      BY <2>4, FewerLate DEF Judged
    <3>3. Cardinality(In(t))' <= Cardinality(In(t)) + 1
      BY <1>5
    <3>4. CASE Whole(t)
      BY <3>1, <3>4
    <3>5. CASE Cardinality(In(t)) + Cardinality(Late) <= MaxPuts + Slack
      <4>1. MaxPuts + Slack \in Nat
        BY <1>1
      <4> QED
        BY <2>1, <3>2, <3>3, <3>5, <4>1
    <3> QED
      BY <2>2, <3>4, <3>5
  <2> QED
    BY <2>3, <2>4 DEF Judged
<1> QED
  BY <1>3, <1>6, <1>7

(* The types of the history of requests, the files, and the times noted. *)
LEMMA SeenTyped ==
  ASSUME Typed, Typed', Observe, seen \in [Conns -> SUBSET (Blobs \cup {NoBlob})]
  PROVE  seen' \in [Conns -> SUBSET (Blobs \cup {NoBlob})]
<1>1. ASSUME NEW c \in Conns, req'[c] # NoRequest
      PROVE  /\ Sight(store[req'[c].key], now) \in Blobs \cup {NoBlob}
             /\ Sight(store'[req'[c].key], now') \in Blobs \cup {NoBlob}
  <2>1. req'[c].key \in Keys
    BY <1>1 DEF Typed, Requests
  <2>2. store[req'[c].key].blob \in Blobs \cup {NoBlob} /\ store'[req'[c].key].blob \in Blobs \cup {NoBlob}
    BY <2>1 DEF Typed
  <2> QED
    BY <2>2 DEF Sight
<1>2. \A c \in Conns : seen[c] \subseteq Blobs \cup {NoBlob}
  OBVIOUS
<1> QED
  BY <1>1, <1>2 DEF Observe

TimesTyped ==
  /\ \A k \in Keys : store[k].mtime \in Times
  /\ \A c \in Conns : stamp[c] \in Times
  /\ \A a \in acked : a[3] \in Times

LEMMA TimesStep ==
  ASSUME Typed, Placed, now \in Times, TimesTyped, [Next]_vars
  PROVE  TimesTyped'
<1> USE DEF TimesTyped, Rest, fileVars, rateVars, connVars
<1>0. /\ 0 \in Times /\ stamp \in [Conns -> Nat] /\ Nothing.mtime \in Times
      /\ store \in [Keys -> [blob: Blobs \cup {NoBlob}, mtime: Nat]]
  BY ServerAssumption DEF Times, Typed, Nothing
<1>1. ASSUME NEW c \in Conns,
             PutLine(c) \/ PutRate(c) \/ PutWrite(c) \/ Connect(c) \/ BadLine(c)
             \/ PutStat(c) \/ GetStat(c)
      PROVE  TimesTyped'
  BY <1>0, <1>1 DEF PutLine, PutRate, PutWrite, Connect, BadLine, PutStat, GetStat
<1>2. ASSUME NEW c \in Conns, GetLine(c) \/ GetRemove(c) PROVE TimesTyped'
  BY <1>0, <1>2 DEF GetLine, GetRemove
<1>3. ASSUME NEW c \in Conns, PutBody(c) \/ PutRename(c) PROVE TimesTyped'
  <2>1. CASE UNCHANGED <<store, acked>>
    BY <1>3, <2>1 DEF PutBody, PutRename
  <2>2. ASSUME NEW t \in Times, Stored(c, t), stamp' = stamp PROVE TimesTyped'
    <3>1. \A k \in Keys : store'[k].mtime \in Times
      BY <1>0, <2>2 DEF Stored
    <3>2. \A a \in acked' : a[3] \in Times
      BY <2>2 DEF Stored
    <3> QED
      BY <2>2, <3>1, <3>2
  <2>3. UNCHANGED <<store, acked>> \/ \E t \in Times : Stored(c, t) /\ stamp' = stamp
    BY <1>3 DEF PutBody, PutRename
  <2> QED
    BY <2>1, <2>2, <2>3
<1>4. ASSUME NEW c \in Conns, Deliver(c) \/ GetRead(c) \/ ReadTimeout(c) \/ WriteTimeout(c)
             \/ ClientLeaves(c)
      PROVE  TimesTyped'
  BY <1>0, <1>4 DEF Deliver, GetRead, ReadTimeout, WriteTimeout, ClientLeaves, Close, Reply
<1>5. ASSUME Collect \/ CollectRemove \/ (\E k \in Keys : CollectStat(k)) \/ Tick \/ Restart
             \/ UNCHANGED vars
      PROVE  TimesTyped'
  BY <1>0, <1>5 DEF Collect, CollectRemove, CollectStat, Tick, Restart, vars
<1> QED
  BY <1>1, <1>2, <1>3, <1>4, <1>5 DEF Next, ClientStep, HandlerStep

RateInv ==
  /\ Typed /\ Placed /\ Punctual /\ RateTyped /\ Slots
  /\ PutsAreLast /\ Closing /\ Closed

LEMMA RateTypedStep ==
  ASSUME RateInv, Typed', [Next]_vars
  PROVE  RateTyped'
<1>0. Typed /\ Placed /\ Punctual /\ RateTyped /\ PutsAreLast
  BY DEF RateInv
<1>1. TimesTyped'
  BY <1>0, TimesStep DEF TimesTyped, RateTyped
<1>2. impl' = impl /\ (now' = now \/ (now' = now + 1 /\ now < MaxTime))
      /\ (Observe \/ UNCHANGED vars)
  BY DEF Next, ClientStep, HandlerStep, Connect, BadLine, PutLine, PutBody, GetLine, Deliver,
     PutRate, PutStat, PutWrite, PutRename, GetStat, GetRemove, GetRead, ReadTimeout,
     WriteTimeout, ClientLeaves, Collect, CollectStat, CollectRemove, Tick, Restart, Rest, vars
<1>3. impl' \in Impls /\ now' \in Times
  BY <1>0, <1>2, ServerAssumption DEF RateTyped, Times
<1>4. seen' \in [Conns -> SUBSET (Blobs \cup {NoBlob})]
  <2>1. seen \in [Conns -> SUBSET (Blobs \cup {NoBlob})]
    BY <1>0 DEF RateTyped
  <2>2. CASE Observe
    BY <1>0, <2>1, <2>2, SeenTyped
  <2>3. CASE UNCHANGED vars
    BY <2>1, <2>3 DEF vars
  <2> QED
    BY <1>2, <2>2, <2>3
<1>5. puts' \in Seq(Times) /\ Len(puts') <= MaxPuts /\ charged' \in Seq(Times)
  <2>1. CASE UNCHANGED <<puts, charged>>
    BY <1>0, <2>1 DEF RateTyped
  <2>2. ASSUME NEW c \in Conns, NEW u \in Times, Judged(c, u)
        PROVE  puts' \in Seq(Times) /\ Len(puts') <= MaxPuts /\ charged' \in Seq(Times)
    <3>1. u <= now
      BY <1>0, <2>2, RateTypes DEF Judged
    <3> QED
      BY <1>0, <2>2, <3>1, AllowFacts DEF Judged
  <2>3. CASE puts' = <<>> /\ charged' = <<>>
    BY <2>3, ServerAssumption
  <2> QED
    BY <1>0, <2>1, <2>2, <2>3, RateSteps DEF Calm, Ticks, Fresher
<1> QED
  BY <1>1, <1>3, <1>4, <1>5 DEF TimesTyped, RateTyped

(* The limit holds in every window, in each step. *)
LEMMA RateStep ==
  ASSUME RateInv, Typed', Placed', Slots', [Next]_vars
  PROVE  PutsAreLast' /\ Closing' /\ Closed'
<1>0. /\ Typed /\ Placed /\ Punctual /\ RateTyped /\ Slots
      /\ PutsAreLast /\ Closing /\ Closed
  BY DEF RateInv
<1>1. /\ now \in Nat /\ Window \in Nat \ {0} /\ MaxPuts \in Nat /\ Slack \in Nat
      /\ Len(charged) \in Nat /\ Len(puts) \in Nat
      /\ \A i \in 1..Len(charged) : charged[i] \in Nat
  BY <1>0, RateTypes
<1>2. \A t \in Int : Cardinality(In(t)) \in Nat
  BY <1>0, WindowFinite
<1>3. Cardinality(Late) \in Nat /\ Cardinality(Late)' \in Nat
  BY <1>0, LateFew, FewerLate
<1>4. CASE Calm
  <2>1. PutsAreLast' /\ Gone' = Gone /\ Slack' = Slack /\ now' = now
    BY <1>0, <1>4 DEF Calm, PutsAreLast, Gone, Slack
  <2>2. \A t \in Int : In(t)' = In(t) /\ (Whole(t) => Whole(t)')
    BY <1>4 DEF Calm, In, Whole, Gone
  <2>3. Cardinality(Late)' <= Cardinality(Late)
    BY <1>0, <1>4, FewerLate DEF Calm
  <2>4. Closed'
    BY <1>0, <2>1, <2>2 DEF Closed
  <2>5. Closing'
    <3> SUFFICES ASSUME NEW t \in Int, t = now - Window - 1
                 PROVE  \/ Whole(t)'
                        \/ Cardinality(In(t))' + Cardinality(Late)' <= MaxPuts + Slack
      BY <2>1 DEF Closing
    <3>1. Whole(t) \/ Cardinality(In(t)) + Cardinality(Late) <= MaxPuts + Slack
      BY <1>0 DEF Closing
    <3>2. Cardinality(In(t))' = Cardinality(In(t)) /\ Cardinality(In(t)) \in Nat
      BY <1>2, <2>2
    <3> QED
      BY <1>1, <1>3, <2>2, <2>3, <3>1, <3>2
  <2> QED
    BY <2>1, <2>4, <2>5
<1>5. CASE Ticks
  <2>1. Gone' = Gone /\ Slack' = Slack /\ now' = now + 1
    BY <1>5 DEF Ticks, Gone, Slack
  <2>2. \A t \in Int : In(t)' = In(t) /\ (Whole(t) => Whole(t)')
    BY <1>5 DEF Ticks, In, Whole, Gone
  <2>3. \A i \in 1..Gone : i \in 1..Len(charged) /\ charged[i] < now - Window
    BY <1>0, <1>1 DEF PutsAreLast, Gone
  <2>4. PutsAreLast'
    <3>1. \A i \in 1..Gone : charged[i] < now' - Window
      BY <1>1, <2>1, <2>3
    <3>2. \A i \in 1..Len(charged) : charged[i] <= now'
      BY <1>0, <1>1, <2>1 DEF PutsAreLast
    <3> QED
      BY <1>0, <1>5, <2>1, <3>1, <3>2 DEF PutsAreLast, Ticks
  <2>5. Closing'
    <3>1. ASSUME NEW t \in Int, t = now' - Window - 1 PROVE Whole(t)'
      <4>1. t = now - Window
        BY <1>1, <2>1, <3>1
      <4>2. Whole(t)
        BY <1>1, <2>3, <4>1 DEF Whole
      <4> QED
        BY <2>2, <4>2
    <3> QED
      BY <3>1 DEF Closing
  <2>6. Closed'
    <3> SUFFICES ASSUME NEW t \in Int, t < now' - Window - 1
                 PROVE  Cardinality(In(t))' <= (MaxPuts + Slack)'
      BY DEF Closed
    <3>0. t < now - Window /\ Cardinality(In(t))' = Cardinality(In(t)) /\ (MaxPuts + Slack)' = MaxPuts + Slack
      BY <1>1, <2>1, <2>2
    <3>1. CASE t < now - Window - 1
      BY <1>0, <3>0, <3>1 DEF Closed
    <3>2. CASE t = now - Window - 1
      <4>1. CASE Whole(t)
        <5>1. Cardinality(In(t)) <= MaxPuts
          BY <1>0, <4>1, WholeCount
        <5> QED
          BY <1>1, <1>2, <3>0, <5>1
      <4>2. CASE Cardinality(In(t)) + Cardinality(Late) <= MaxPuts + Slack
        <5>1. Cardinality(In(t)) \in Nat /\ MaxPuts + Slack \in Nat
          BY <1>1, <1>2
        <5>2. Cardinality(In(t)) <= MaxPuts + Slack
          BY <1>3, <4>2, <5>1
        <5> QED
          BY <3>0, <5>2
      <4> QED
        BY <1>0, <3>2, <4>1, <4>2 DEF Closing
    <3> QED
      BY <1>1, <3>0, <3>1, <3>2
  <2> QED
    BY <2>4, <2>5, <2>6
<1>6. CASE Fresher
  <2>1. charged' = <<>> /\ puts' = <<>> /\ Gone' = 0 /\ DOMAIN charged' = {}
    BY <1>6 DEF Fresher, Gone
  <2>2. PutsAreLast'
    BY <2>1 DEF PutsAreLast
  <2>3. \A t \in Int : In(t)' = {} /\ Whole(t)'
    BY <2>1 DEF In, Whole
  <2>4. Slack' = Slack
    BY <1>6 DEF Fresher, Slack
  <2>5. Cardinality({}) = 0 /\ 0 <= MaxPuts + Slack
    BY <1>1, FS_EmptySet
  <2>6. Closing' /\ Closed'
    BY <2>3, <2>4, <2>5 DEF Closing, Closed
  <2> QED
    BY <2>2, <2>6
<1>7. ASSUME NEW c \in Conns, NEW u \in Times, Judged(c, u)
      PROVE  PutsAreLast' /\ Closing' /\ Closed'
  BY <1>0, <1>7, JudgedStep
<1> QED
  BY <1>0, <1>4, <1>5, <1>6, <1>7, RateSteps

LEMMA InitRate == Init => RateInv
<1> SUFFICES ASSUME Init PROVE RateInv
  OBVIOUS
<1>1. Typed /\ Placed
  BY InitInv DEF IInv
<1>2. Punctual /\ RateTyped
  BY ServerAssumption DEF Init, Punctual, RateTyped, Times, Nothing
<1>3. Slots
  <2>1. Holding = {}
    BY DEF Init, Holding
  <2> QED
    BY <2>1, FS_EmptySet, ServerAssumption DEF Slots
<1>4. PutsAreLast
  BY DEF Init, PutsAreLast, Gone
<1>5. \A t \in Int : In(t) = {} /\ Whole(t)
  BY DEF Init, In, Whole, Gone
<1>6. Cardinality({}) = 0 /\ 0 <= MaxPuts + Slack
  BY <1>2, RateTypes, FS_EmptySet
<1>7. Closing /\ Closed
  BY <1>5, <1>6 DEF Closing, Closed
<1> QED
  BY <1>1, <1>2, <1>3, <1>4, <1>7 DEF RateInv

LEMMA RateInvariance == Spec => []RateInv
<1>1. RateInv /\ [Next]_vars => RateInv'
  <2> SUFFICES ASSUME RateInv, [Next]_vars PROVE RateInv'
    OBVIOUS
  <2>1. Typed' /\ Placed'
    BY TypedStep, PlacedStep DEF RateInv
  <2>2. Punctual' /\ Slots'
    BY PunctualStep, SlotsStep DEF RateInv
  <2>3. RateTyped'
    BY <2>1, RateTypedStep
  <2>4. PutsAreLast' /\ Closing' /\ Closed'
    BY <2>1, <2>2, RateStep
  <2> QED
    BY <2>1, <2>2, <2>3, <2>4 DEF RateInv
<1> QED
  BY InitRate, <1>1, PTL DEF Spec

(* Every variable of the server keeps its type: no more PUTs are remembered   *)
(* than are allowed, and no time beyond the clock (both servers).             *)
THEOREM TypeCorrectness == Spec => []TypeOK
<1>1. RateInv => TypeOK
  <2> SUFFICES ASSUME RateInv PROVE TypeOK
    OBVIOUS
  <2>1. Typed /\ RateTyped
    BY DEF RateInv
  <2>2. store \in [Keys -> [blob: Blobs \cup {NoBlob}, mtime: 0..MaxTime]]
    BY <2>1 DEF Typed, RateTyped, Times
  <2>3. stamp \in [Conns -> 0..MaxTime]
    BY <2>1 DEF Typed, RateTyped, Times
  <2>4. acked \subseteq Keys \X Blobs \X (0..MaxTime)
    BY <2>1 DEF Typed, RateTyped, Times
  <2>5. /\ pc \in [Conns -> {"idle", "line", "rate", "body", "stat", "write", "rename",
                             "read", "remove", "reply", "closing"}]
        /\ req \in [Conns -> Requests \cup {NoRequest}]
        /\ answer \in [Conns -> [code: {"none", "OK", "EXISTS", "MISS", "ERR"},
                                blob: Blobs \cup {NoBlob}]]
        /\ gc \in Keys \cup {NoBlob}
    BY <2>1 DEF Typed, Places, Codes
  <2>6. /\ impl \in Impls /\ now \in 0..MaxTime
        /\ puts \in Seq(0..MaxTime) /\ Len(puts) <= MaxPuts
        /\ charged \in Seq(0..MaxTime)
        /\ seen \in [Conns -> SUBSET (Blobs \cup {NoBlob})]
    BY <2>1 DEF RateTyped, Times
  <2> QED
    BY <2>2, <2>3, <2>4, <2>5, <2>6 DEF TypeOK
<1> QED
  BY RateInvariance, <1>1, PTL

(* No window holds more PUTs than allowed, in the Rust server no more than    *)
(* the slots less one above it, whatever number of clients come to the lock   *)
(* with a time that has passed (allow_put in both servers).                   *)
THEOREM RateLimited == Spec => []PutsWithinRate
<1>1. RateInv => PutsWithinRate
  <2> SUFFICES ASSUME RateInv, NEW t \in 0..MaxTime
               PROVE  Cardinality(In(t)) <= MaxPuts + Slack
    BY DEF PutsWithinRate, In, Slack
  <2>0. /\ Placed /\ RateTyped /\ Slots /\ PutsAreLast /\ Closing /\ Closed /\ t \in Int
    BY DEF RateInv
  <2>1. /\ now \in Nat /\ Window \in Nat \ {0} /\ MaxPuts \in Nat /\ Slack \in Nat
        /\ Len(charged) \in Nat /\ Len(puts) \in Nat
        /\ \A i \in 1..Len(charged) : charged[i] \in Nat
    BY <2>0, RateTypes
  <2>2. Cardinality(In(t)) \in Nat /\ Cardinality(Late) \in Nat
    BY <2>0, WindowFinite, LateFew
  <2>3. CASE t < now - Window - 1
    BY <2>0, <2>3 DEF Closed
  <2>4. CASE Whole(t)
    <3>1. Cardinality(In(t)) <= MaxPuts
      BY <2>0, <2>4, WholeCount
    <3> QED
      BY <2>1, <2>2, <3>1
  <2>5. CASE t = now - Window - 1
    <3>1. CASE Cardinality(In(t)) + Cardinality(Late) <= MaxPuts + Slack
      BY <2>1, <2>2, <3>1
    <3> QED
      BY <2>0, <2>4, <2>5, <3>1 DEF Closing
  <2>6. CASE t >= now - Window
    <3>1. \A i \in 1..Gone : i \in 1..Len(charged) /\ charged[i] < now - Window
      BY <2>0, <2>1 DEF PutsAreLast, Gone
    <3>2. Whole(t)
      BY <2>0, <2>1, <2>6, <3>1 DEF Whole
    <3> QED
      BY <2>4, <3>2
  <2> QED
    BY <2>0, <2>1, <2>3, <2>5, <2>6
<1> QED
  BY RateInvariance, <1>1, PTL
=============================================================================
