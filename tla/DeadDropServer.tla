---------------------------- MODULE DeadDropServer ----------------------------
(***************************************************************************)
(* One drop of a dead drop server, in both implementations of it:          *)
(* SERVER/deaddrop-server.py and SERVER/main.rs.                           *)
(*                                                                         *)
(* A step is what an implementation does between two awaits.  The Python   *)
(* server runs in one thread and touches the files without awaiting, so a  *)
(* request meets the store in one step.  The Rust server awaits every file *)
(* operation: between looking at a file and writing, reading or removing   *)
(* it, the handlers of other connections and the collector run.            *)
(***************************************************************************)
EXTENDS Integers, Sequences, FiniteSets, FiniteSetsExt

CONSTANTS
  Conns,       \* connections that may be open at the same time
  Keys,
  Blobs,
  Impls,       \* the implementations to consider, of {"python", "rust"}
  NoBlob,      \* no file under a key
  MaxActive,   \* MAX_ACTIVE_CLIENTS_PER_DROP
  MaxPuts,     \* MAX_PUTS_PER_WINDOW_PER_DROP
  Window,      \* PUT_RATE_WINDOW_SECONDS, in ticks
  TTL,         \* BLOB_TTL_SECONDS, in ticks
  MaxTime      \* bound: the clock stops here

ASSUME ServerAssumption ==
  /\ Impls \subseteq {"python", "rust"}
  /\ NoBlob \notin Blobs \cup Keys
  /\ MaxActive \in Nat \ {0}
  /\ MaxPuts \in Nat \ {0}
  /\ Window \in Nat \ {0}
  /\ TTL \in Nat \ {0}
  /\ MaxTime \in Nat

VARIABLES
  impl,     \* the implementation that runs
  now,      \* the clock
  store,    \* the file of each key: its blob and modification time
  puts,     \* drop_put_times
  pc,       \* where the handler of each connection waits
  req,      \* the request of each connection
  stamp,    \* the time a handler has noted: for the rate, or as the age of its file
  answer,   \* what a handler is about to send
  gc,       \* the key whose file the collector is about to remove, or NoBlob
  charged,  \* history: the times charged to the rate since the start, in order
  acked,    \* history: what was answered OK and has not expired, as <<key, blob, time>>
  seen      \* history: what each request could see under its key while it ran

fileVars == <<store, gc>>
rateVars == <<puts, charged>>
connVars == <<pc, req, stamp, answer>>
vars == <<impl, now, fileVars, rateVars, connVars, acked, seen>>

(* A request carries the blob of a PUT; NoBlob stands for a GET. *)
Requests == [key: Keys, blob: Blobs \cup {NoBlob}]
NoRequest == [key |-> NoBlob, blob |-> NoBlob]
Nothing  == [blob |-> NoBlob, mtime |-> 0]
NoAnswer == [code |-> "none", blob |-> NoBlob]

(* mutant: a file of exactly the allowed age is old *)
OldEarly(f, t) == f.blob # NoBlob /\ t - f.mtime >= TTL

(* The age of a file decides, not whether the collector has come by. *)
Old(f, t)  == f.blob # NoBlob /\ t - f.mtime > TTL
Present(k) == store[k].blob # NoBlob
Expired(k) == Old(store[k], now)
Live(k)    == Present(k) /\ ~Expired(k)
Sight(f, t) == IF Old(f, t) THEN NoBlob ELSE f.blob

(* The connections that hold a slot of the semaphore. *)
Holding == {c \in Conns : pc[c] # "idle"}

Init ==
  /\ impl \in Impls
  /\ now = 0
  /\ store = [k \in Keys |-> Nothing]
  /\ puts = <<>>
  /\ pc = [c \in Conns |-> "idle"]
  /\ req = [c \in Conns |-> NoRequest]
  /\ stamp = [c \in Conns |-> 0]
  /\ answer = [c \in Conns |-> NoAnswer]
  /\ gc = NoBlob
  /\ charged = <<>>
  /\ acked = {}
  /\ seen = [c \in Conns |-> {}]

-----------------------------------------------------------------------------
(* What a request that is running after the step can see under its key. *)
Observe ==
  seen' = [c \in Conns |->
             IF req'[c] = NoRequest THEN {}
             ELSE seen[c] \cup LET before == store[req'[c].key]
                                   after  == store'[req'[c].key]
                               IN  {Sight(before, now), Sight(after, now')}]

(* The clock and the program go on as they are. *)
Rest == UNCHANGED <<impl, now>> /\ Observe

(* How a handler's step leaves its connection. *)
WaitAt(c, where) == pc' = [pc EXCEPT ![c] = where] /\ UNCHANGED answer
Reply(c, code, b) ==
  /\ pc' = [pc EXCEPT ![c] = "reply"]
  /\ answer' = [answer EXCEPT ![c] = [code |-> code, blob |-> b]]
Close(c, where) ==
  /\ pc' = [pc EXCEPT ![c] = where]
  /\ req' = [req EXCEPT ![c] = NoRequest]
  /\ stamp' = [stamp EXCEPT ![c] = 0]
  /\ answer' = [answer EXCEPT ![c] = NoAnswer]

(* A client comes in and a slot is free; without one it gets ERR at once    *)
(* and nothing changes.                                                     *)
Connect(c) ==
  /\ pc[c] = "idle"
  /\ Cardinality(Holding) < MaxActive
  /\ WaitAt(c, "line")
  /\ UNCHANGED <<fileVars, rateVars, req, stamp, acked>>
  /\ Rest

(* The line is no PUT or GET, or has a bad key, size or counter. *)
BadLine(c) ==
  /\ pc[c] = "line"
  /\ Reply(c, "ERR", NoBlob)
  /\ UNCHANGED <<fileVars, rateVars, req, stamp, acked>>
  /\ Rest

(* mutant: a time at the very cutoff is dropped *)
KeptShort(t) ==
  LET recent == {i \in 1..Len(puts) : puts[i] > t - Window}
  IN  IF recent = {} THEN <<>> ELSE SubSeq(puts, Min(recent), Len(puts))

(* The times that stay when those before the cutoff are taken off the front. *)
Kept(t) ==
  LET recent == {i \in 1..Len(puts) : puts[i] >= t - Window}
  IN  IF recent = {} THEN <<>> ELSE SubSeq(puts, Min(recent), Len(puts))

(* mutant: one PUT more than allowed *)
AllowPutOneMore(c, t) ==
  IF Len(Kept(t)) > MaxPuts
  THEN /\ puts' = Kept(t)
       /\ Reply(c, "ERR", NoBlob)
       /\ UNCHANGED charged
  ELSE /\ puts' = Append(Kept(t), t)
       /\ charged' = Append(charged, t)
       /\ WaitAt(c, "body")

(* allow_put, for a handler that read the clock at t. *)
AllowPut(c, t) ==
  IF Len(Kept(t)) >= MaxPuts
  THEN /\ puts' = Kept(t)
       /\ Reply(c, "ERR", NoBlob)
       /\ UNCHANGED charged
  ELSE /\ puts' = Append(Kept(t), t)
       /\ charged' = Append(charged, t)
       /\ WaitAt(c, "body")

(* The rate is charged when the line has come.  The Rust server reads the   *)
(* clock first and then waits for the lock.                                 *)
PutLine(c) ==
  /\ pc[c] = "line"
  /\ \E r \in Requests : r.blob # NoBlob /\ req' = [req EXCEPT ![c] = r]
  /\ IF impl = "python"
     THEN AllowPut(c, now) /\ UNCHANGED stamp
     ELSE /\ stamp' = [stamp EXCEPT ![c] = now]
          /\ WaitAt(c, "rate")
          /\ UNCHANGED rateVars
  /\ UNCHANGED <<fileVars, acked>>
  /\ Rest

PutRate(c) ==
  /\ pc[c] = "rate"
  /\ AllowPut(c, stamp[c])
  /\ stamp' = [stamp EXCEPT ![c] = 0]
  /\ UNCHANGED <<fileVars, req, acked>>
  /\ Rest

Stored(c, t) ==
  LET k == req[c].key  b == req[c].blob
  IN  /\ store' = [store EXCEPT ![k] = [blob |-> b, mtime |-> t]]
      /\ acked' = acked \cup {<<k, b, t>>}
      /\ Reply(c, "OK", b)

(* The body has come.  Unless its proof of work fails, the Python server     *)
(* looks for the file and writes it in the same step.                       *)
PutBody(c) ==
  /\ pc[c] = "body"
  /\ \/ /\ Reply(c, "ERR", NoBlob)
        /\ UNCHANGED <<store, acked>>
     \/ /\ impl = "rust"
        /\ WaitAt(c, "stat")
        /\ UNCHANGED <<store, acked>>
     \/ /\ impl = "python"
        /\ IF Present(req[c].key)
           THEN Reply(c, "EXISTS", NoBlob) /\ UNCHANGED <<store, acked>>
           ELSE Stored(c, now)
  /\ UNCHANGED <<gc, rateVars, req, stamp>>
  /\ Rest

(* Rust: fs::metadata, then a temporary file, then the rename. *)
(* mutant: the file is written without looking for it *)
PutStatBlind(c) ==
  /\ pc[c] = "stat" /\ req[c].blob # NoBlob
  /\ WaitAt(c, "write")
  /\ UNCHANGED <<fileVars, rateVars, req, stamp, acked>>
  /\ Rest

PutStat(c) ==
  /\ pc[c] = "stat" /\ req[c].blob # NoBlob
  /\ IF Present(req[c].key) THEN Reply(c, "EXISTS", NoBlob) ELSE WaitAt(c, "write")
  /\ UNCHANGED <<fileVars, rateVars, req, stamp, acked>>
  /\ Rest

PutWrite(c) ==
  /\ pc[c] = "write"
  /\ stamp' = [stamp EXCEPT ![c] = now]
  /\ WaitAt(c, "rename")
  /\ UNCHANGED <<fileVars, rateVars, req, acked>>
  /\ Rest

PutRename(c) ==
  /\ pc[c] = "rename"
  /\ Stored(c, stamp[c])
  /\ UNCHANGED <<gc, rateVars, req, stamp>>
  /\ Rest

(* GET: a file that is too old is removed and missed.  The Python server    *)
(* does it all in one step.                                                 *)
GetLine(c) ==
  /\ pc[c] = "line"
  /\ \E k \in Keys :
       /\ req' = [req EXCEPT ![c] = [key |-> k, blob |-> NoBlob]]
       /\ IF impl = "rust"
          THEN WaitAt(c, "stat") /\ UNCHANGED store
          ELSE /\ store' = IF Expired(k) THEN [store EXCEPT ![k] = Nothing] ELSE store
               /\ IF Live(k) THEN Reply(c, "OK", store[k].blob)
                             ELSE Reply(c, "MISS", NoBlob)
  /\ UNCHANGED <<gc, rateVars, stamp, acked>>
  /\ Rest

(* mutant: the age of the file is not looked at *)
GetStatAnyAge(c) ==
  /\ pc[c] = "stat" /\ req[c].blob = NoBlob
  /\ IF Present(req[c].key) THEN WaitAt(c, "read") ELSE Reply(c, "MISS", NoBlob)
  /\ UNCHANGED <<fileVars, rateVars, req, stamp, acked>>
  /\ Rest

GetStat(c) ==
  /\ pc[c] = "stat" /\ req[c].blob = NoBlob
  /\ LET k == req[c].key
     IN  \/ ~Present(k) /\ Reply(c, "MISS", NoBlob)
         \/ Expired(k) /\ WaitAt(c, "remove")
         \/ Live(k) /\ WaitAt(c, "read")
  /\ UNCHANGED <<fileVars, rateVars, req, stamp, acked>>
  /\ Rest

GetRemove(c) ==
  /\ pc[c] = "remove"
  /\ store' = [store EXCEPT ![req[c].key] = Nothing]
  /\ Reply(c, "MISS", NoBlob)
  /\ UNCHANGED <<gc, rateVars, req, stamp, acked>>
  /\ Rest

(* fs::read; when the file has gone the connection closes without an answer. *)
GetRead(c) ==
  /\ pc[c] = "read"
  /\ LET k == req[c].key
     IN  IF Present(k) THEN Reply(c, "OK", store[k].blob) /\ UNCHANGED <<req, stamp>>
                       ELSE Close(c, "idle")
  /\ UNCHANGED <<fileVars, rateVars, acked>>
  /\ Rest

(* mutant: no timeout around the body *)
ReadTimeoutLineOnly(c) ==
  /\ pc[c] = "line"
  /\ Close(c, "idle")
  /\ UNCHANGED <<fileVars, rateVars, acked>>
  /\ Rest

(* The client says nothing for CLIENT_READ_TIMEOUT, or hangs up. *)
ReadTimeout(c) ==
  /\ pc[c] \in {"line", "body"}
  /\ Close(c, "idle")
  /\ UNCHANGED <<fileVars, rateVars, acked>>
  /\ Rest

(* The client takes the answer. *)
Deliver(c) ==
  /\ pc[c] = "reply"
  /\ Close(c, "idle")
  /\ UNCHANGED <<fileVars, rateVars, acked>>
  /\ Rest

(* It does not within CLIENT_WRITE_TIMEOUT.  The Python server then waits   *)
(* for the connection to close, which happens when the client has gone.     *)
WriteTimeout(c) ==
  /\ pc[c] = "reply"
  /\ IF impl = "python"
     THEN Close(c, "closing")
     ELSE Close(c, "idle")
  /\ UNCHANGED <<fileVars, rateVars, acked>>
  /\ Rest

ClientLeaves(c) ==
  /\ pc[c] = "closing"
  /\ Close(c, "idle")
  /\ UNCHANGED <<fileVars, rateVars, acked>>
  /\ Rest

-----------------------------------------------------------------------------
(* mutant: the collector comes a tick late *)
CollectLate ==
  /\ impl = "python"
  /\ \E k \in Keys : Expired(k) /\ now - store[k].mtime > TTL + 1
  /\ store' = [k \in Keys |-> IF Expired(k) THEN Nothing ELSE store[k]]
  /\ UNCHANGED <<gc, rateVars, connVars, acked>>
  /\ Rest

(* gc_loop: the Python collector walks the whole tree without awaiting. *)
Collect ==
  /\ impl = "python"
  /\ \E k \in Keys : Expired(k)
  /\ store' = [k \in Keys |-> IF Expired(k) THEN Nothing ELSE store[k]]
  /\ UNCHANGED <<gc, rateVars, connVars, acked>>
  /\ Rest

(* walk_and_gc_dir of the Rust server: the age of a file is read, and then  *)
(* whatever has its name is removed.                                        *)
CollectStat(k) ==
  /\ impl = "rust" /\ gc = NoBlob
  /\ Expired(k)
  /\ gc' = k
  /\ UNCHANGED <<store, rateVars, connVars, acked>>
  /\ Rest

CollectRemove ==
  /\ gc # NoBlob
  /\ store' = [store EXCEPT ![gc] = Nothing]
  /\ gc' = NoBlob
  /\ UNCHANGED <<rateVars, connVars, acked>>
  /\ Rest

-----------------------------------------------------------------------------
(* Time passes.  What a handler does with a noted time takes less than a    *)
(* tick.                                                                    *)
Tick ==
  /\ now < MaxTime
  /\ \A c \in Conns : pc[c] \in {"rate", "rename"} => stamp[c] = now
  /\ now' = now + 1
  /\ acked' = {a \in acked : now + 1 - a[3] <= TTL}
  /\ UNCHANGED <<impl, fileVars, rateVars, connVars>>
  /\ Observe

(* The server stops at any point and starts again: the files stay. *)
Restart ==
  /\ puts' = <<>>
  /\ charged' = <<>>
  /\ pc' = [c \in Conns |-> "idle"]
  /\ req' = [c \in Conns |-> NoRequest]
  /\ stamp' = [c \in Conns |-> 0]
  /\ answer' = [c \in Conns |-> NoAnswer]
  /\ gc' = NoBlob
  /\ UNCHANGED <<impl, now, store, acked>>
  /\ Observe

(* What a client does, and may leave undone. *)
ClientStep(c) ==
  \/ Connect(c) \/ BadLine(c) \/ PutLine(c) \/ PutBody(c) \/ GetLine(c) \/ Deliver(c)
  \/ ClientLeaves(c)

(* What a handler does without its client. *)
HandlerStep(c) ==
  \/ PutRate(c) \/ PutStat(c) \/ PutWrite(c) \/ PutRename(c)
  \/ GetStat(c) \/ GetRemove(c) \/ GetRead(c)
  \/ ReadTimeout(c) \/ WriteTimeout(c)

Next ==
  \/ \E c \in Conns : ClientStep(c) \/ HandlerStep(c)
  \/ Collect
  \/ \E k \in Keys : CollectStat(k)
  \/ CollectRemove
  \/ Tick
  \/ Restart

Spec == Init /\ [][Next]_vars

(* A handler goes on when its file operation is done and cuts off a client   *)
(* that takes too long, and the collector comes round to every file,         *)
(* sometimes without a restart in between.  Clients need not do anything,    *)
(* and a client that was cut off need not even close its stream.             *)
Fairness ==
  /\ \A c \in Conns : WF_vars(HandlerStep(c))
  /\ WF_vars(Collect)
  /\ \A k \in Keys : SF_vars(CollectStat(k))
  /\ SF_vars(CollectRemove)

FairSpec == Spec /\ Fairness

-----------------------------------------------------------------------------
TypeOK ==
  /\ impl \in Impls
  /\ now \in 0..MaxTime
  /\ store \in [Keys -> [blob: Blobs \cup {NoBlob}, mtime: 0..MaxTime]]
  /\ puts \in Seq(0..MaxTime) /\ Len(puts) <= MaxPuts
  /\ pc \in [Conns -> {"idle", "line", "rate", "body", "stat", "write", "rename",
                       "read", "remove", "reply", "closing"}]
  /\ req \in [Conns -> Requests \cup {NoRequest}]
  /\ stamp \in [Conns -> 0..MaxTime]
  /\ answer \in [Conns -> [code: {"none", "OK", "EXISTS", "MISS", "ERR"},
                          blob: Blobs \cup {NoBlob}]]
  /\ gc \in Keys \cup {NoBlob}
  /\ charged \in Seq(0..MaxTime)
  /\ acked \subseteq Keys \X Blobs \X (0..MaxTime)
  /\ seen \in [Conns -> SUBSET (Blobs \cup {NoBlob})]

(* Whatever the awaits let in between, each answer was true at some moment  *)
(* while its request ran: a blob is served, or stored with OK, only if it   *)
(* was there and not expired, and MISS is said only if nothing was          *)
(* (handle_client in both servers).                                         *)
AnswersWereTrue ==
  \A c \in Conns :
    /\ answer[c].code = "OK"   => answer[c].blob \in seen[c]
    /\ answer[c].code = "MISS" => NoBlob \in seen[c]

(* The Python server keeps what it has answered OK until it expires, with    *)
(* other PUTs of the key, GETs, the collector and restarts in between: the   *)
(* file is neither replaced nor removed (handle_client, gc_loop).            *)
AcceptedIsKept ==
  impl = "python" => \A a \in acked : store[a[1]] = [blob |-> a[2], mtime |-> a[3]]

(* No window of the rate limit, wherever it begins, holds more PUTs than     *)
(* allowed.  In the Rust server a handler may come to the lock with an older *)
(* time than the one before it, which has dropped the times that counted     *)
(* against it: the excess stays below the number of slots (allow_put).       *)
PutsWithinRate ==
  \A t \in 0..MaxTime :
    Cardinality({i \in DOMAIN charged : charged[i] \in t..(t + Window)})
      <= MaxPuts + (IF impl = "rust" THEN MaxActive - 1 ELSE 0)

(* Whatever the client does or leaves undone, its handler ends: a Rust       *)
(* handler gives its slot back, and a Python handler at least comes to the   *)
(* closing of the stream (the timeouts of handle_client, the semaphore of    *)
(* handle_client_limited).  There Python waits without a timeout             *)
(* (deaddrop-server.py:389-392), so a client that neither reads its answer   *)
(* nor closes keeps the slot for good; nothing else holds one.               *)
SlotsComeBack ==
  \A c \in Conns :
    pc[c] # "idle" ~> pc[c] = "idle" \/ (impl = "python" /\ pc[c] = "closing")

(* An expired file is removed in the end without anyone asking for it, also  *)
(* when a GET or a new PUT gets in between (gc_loop, walk_and_gc_dir).       *)
ExpiredIsCollected == \A k \in Keys : Expired(k) ~> ~Expired(k)

(* What the file operations of overlapping handlers may do to a file that    *)
(* has not expired: nothing in the Python server.  A Rust step replaces or    *)
(* removes one only if its request saw the key free or its file expired      *)
(* while it ran (the rename at main.rs:477, the removal in a GET), or if the  *)
(* collector had set out to remove what had that name before (main.rs:328).  *)
LiveFileStays ==
  [][\A k \in Keys : Live(k) /\ store'[k] # store[k] =>
       /\ impl = "rust"
       /\ \/ gc = k
          \/ \E c \in Conns : /\ pc[c] \in {"rename", "remove"}
                              /\ req[c].key = k /\ NoBlob \in seen[c]]_vars

(* README.md:651, of every dead drop server: "overwrite is refused".  So no  *)
(* step puts another blob in the place of one that has not expired.  The     *)
(* Rust server looks for the file, writes a temporary one and renames it,    *)
(* with awaits in between: of two PUTs of one key that overlap both are      *)
(* answered OK, and the rename of the second replaces the blob of the first. *)
OverwriteIsRefused ==
  [][\A k \in Keys : Live(k) => store'[k].blob \in {store[k].blob, NoBlob}]_vars
=============================================================================
