----------------------------- MODULE LiveSession -----------------------------
(***************************************************************************)
(* Two programs that call each other: connecting and accepting, calls that  *)
(* collide, the key exchange of e2e.py, heartbeats, hanging up, and the     *)
(* locking of a profile to its peer with the exchange of the offline secret *)
(* (the one-to-one parts of termchat-i2p.py).                               *)
(*                                                                         *)
(* A step is what a coroutine does between two awaits.  Streams deliver in  *)
(* order; one may go silent for good, which neither end is told.            *)
(***************************************************************************)
EXTENDS Integers, Sequences

CONSTANTS
  Low, High,  \* the two programs; the address of Low is the lower one
  MaxCalls,   \* bound: streams are numbered 1..MaxCalls
  Budgets     \* bounds: how many calls, messages, breaks, exits, locks and
              \* unlocks a behaviour may have

Nodes == {Low, High}
Other(n) == CHOOSE m \in Nodes : m # n
Streams == 1..MaxCalls
None == 0

ASSUME SessionAssumption ==
  /\ Low # High
  /\ MaxCalls \in Nat
  /\ \A b \in Budgets :
       b \in [calls: 0..MaxCalls, says: Nat, breaks: Nat, exits: Nat,
              locks: Nat, unlocks: Nat]

VARIABLES
  pq,        \* who was started with --pq
  conn,      \* conn: the stream of the session, or None
  pending,   \* pending_incoming_conn
  dial,      \* the stream of the connect task, or None
  listening, \* the accept loop waits for a caller
  offer,     \* the stream whose identity line the accept loop reads, or None
  e2e,       \* the E2E object: the key pairs it knows and the PQ secret
  live,      \* live_ready
  hb,        \* the stream the heartbeat task watches
  locked,    \* stored_peer
  secret,    \* offline_shared_secret, or None for CHANGE_ME
  todo,      \* tasks that were created and have not run
  caller,    \* who opened each stream
  up,        \* the ends of each stream that are open
  wire,      \* the frames of each stream on their way to each end
  silent,    \* the streams that deliver nothing any more
  budget,    \* what is left of the bounds
  secrets,   \* how many offline secrets were made
  refused,   \* history: the streams an accept loop refused, and why
  torn,      \* history: streams with a frame lost in acceptance
  early,     \* history: hybrid calls accepted before the caller's Q had come
  garbled,   \* history: streams and who read a message there with another key
  renewed    \* history: a secret was made while the peer had the one before

nodeVars == <<conn, pending, dial, listening, offer, e2e, live, hb>>
pairVars == <<locked, secret, todo, secrets, renewed>>
netVars  == <<caller, up, wire, silent>>
histVars == <<refused, torn, early, garbled>>
vars == <<pq, nodeVars, pairVars, netVars, budget, histVars>>

Unknown == -1
NoKem == <<>>

(* An E2E object of n whose own key pair is called id. *)
Fresh(n, id) ==
  [keys |-> [m \in Nodes |-> IF m = n THEN id ELSE Unknown], kem |-> NoKem]

(* E2E.ready: the classical secret and, with --pq, the one of the KEM.  What *)
(* the object holds then is the session key.                                *)
Ready(n, e) == e.keys[Other(n)] # Unknown /\ (n \in pq => e.kem # NoKem)

Frame(t, e) == [type |-> t, e2e |-> e, val |-> None]

Init ==
  /\ pq \in SUBSET Nodes
  /\ conn = [n \in Nodes |-> None]
  /\ pending = [n \in Nodes |-> None]
  /\ dial = [n \in Nodes |-> None]
  /\ listening = [n \in Nodes |-> TRUE]
  /\ offer = [n \in Nodes |-> None]
  /\ e2e = [n \in Nodes |-> Fresh(n, None)]
  /\ live = [n \in Nodes |-> FALSE]
  /\ hb = [n \in Nodes |-> None]
  /\ locked = {}
  /\ secret = [n \in Nodes |-> None]
  /\ todo = [n \in Nodes |-> {}]
  /\ caller = [s \in Streams |-> Low]
  /\ up = [s \in Streams |-> {}]
  /\ wire = [s \in Streams |-> [n \in Nodes |-> <<>>]]
  /\ silent = {}
  /\ budget \in Budgets
  /\ secrets = 0
  /\ refused = {}
  /\ torn = {}
  /\ early = {}
  /\ garbled = {}
  /\ renewed = FALSE

-----------------------------------------------------------------------------
(* The streams. *)
Spend(what) == budget[what] > 0 /\ budget' = [budget EXCEPT ![what] = @ - 1]
Silent(s) == s \in silent
Gone(s, n) == n \notin up[s]
(* n reads the end of the stream, or finds that it has closed it itself. *)
Ended(s, n) == s # None /\ wire[s][n] = <<>> /\ (Gone(s, n) \/ (Gone(s, Other(n)) /\ ~Silent(s)))

(* n writes the frames and, where it says so, closes its end.  What is on    *)
(* its way to an end that closes is lost.                                   *)
Write(s, n, frames) ==
  /\ wire' = IF up[s] = Nodes THEN [wire EXCEPT ![s][Other(n)] = @ \o frames] ELSE wire
  /\ UNCHANGED up
WriteAndClose(s, n, frames) ==
  /\ wire' = [wire EXCEPT ![s][n] = <<>>,
                          ![s][Other(n)] = IF up[s] = Nodes THEN @ \o frames ELSE @]
  /\ up' = [up EXCEPT ![s] = @ \ {n}]
Close(s, n) == WriteAndClose(s, n, <<>>)

Hello(n, e) ==
  <<Frame("K", e)>> \o (IF n \in pq THEN <<Frame("Q", e)>> ELSE <<>>)

(* reset_one_to_one_e2e; id names the new key pair after the stream it is for. *)
Reset(n, id) ==
  /\ e2e' = [e2e EXCEPT ![n] = Fresh(n, id)]
  /\ live' = [live EXCEPT ![n] = FALSE]

(* The task sync_offline_secret_if_needed is created. *)
Schedule(n, task) == todo' = [todo EXCEPT ![n] = @ \cup (IF n \in locked THEN {task} ELSE {})]

(* local_prefers_outbound *)
PrefersOutbound(n) == n = Low

-----------------------------------------------------------------------------
(* /connect: start_one_to_one_connect. *)
Dial(n) ==
  /\ Spend("calls")
  /\ conn[n] = None /\ pending[n] = None /\ dial[n] = None
  /\ dial' = [dial EXCEPT ![n] = budget.calls]
  /\ caller' = [caller EXCEPT ![budget.calls] = n]
  /\ UNCHANGED <<pq, conn, pending, listening, offer, e2e, live, hb, pairVars, up, wire,
                 silent, histVars>>

(* The network makes the stream, if the other program waits for a caller. *)
Reach(n) ==
  LET s == dial[n]  m == Other(n)
  IN  /\ s # None /\ up[s] = {} /\ listening[m]
      /\ up' = [up EXCEPT ![s] = Nodes]
      /\ listening' = [listening EXCEPT ![m] = FALSE]
      /\ offer' = [offer EXCEPT ![m] = s]
      /\ UNCHANGED <<pq, conn, pending, dial, e2e, live, hb, pairVars, caller, wire, silent,
                     budget, histVars>>

(* ... or does not. *)
DialFails(n) ==
  /\ dial[n] # None /\ up[dial[n]] = {}
  /\ dial' = [dial EXCEPT ![n] = None]
  /\ UNCHANGED <<pq, conn, pending, listening, offer, e2e, live, hb, pairVars, netVars,
                 budget, histVars>>

(* connect_to_peer after its stream_connect: it says hello. *)
Connected(n) ==
  LET s == dial[n]
  IN  /\ s # None /\ n \in up[s]
      /\ dial' = [dial EXCEPT ![n] = None]
      /\ conn' = [conn EXCEPT ![n] = s]
      /\ Reset(n, s)
      /\ Write(s, n, Hello(n, Fresh(n, s)))
      /\ UNCHANGED <<pq, pending, listening, offer, hb, pairVars, caller, silent, budget,
                     histVars>>

(* The accept loop looks after a second whether it is free. *)
Listen(n) ==
  /\ ~listening[n] /\ offer[n] = None
  /\ conn[n] = None /\ pending[n] = None
  /\ listening' = [listening EXCEPT ![n] = TRUE]
  /\ UNCHANGED <<pq, conn, pending, dial, offer, e2e, live, hb, pairVars, netVars, budget,
                 histVars>>

Refuse(n, why) ==
  /\ Close(offer[n], n)
  /\ refused' = refused \cup {<<offer[n], why>>}
  /\ UNCHANGED <<pending, dial, e2e, live>>

(* mutant: a connect under way does not stop for the call that comes in *)
IdentifyKeepingDial(n) ==
  LET s == offer[n]
  IN  /\ s # None
      /\ offer' = [offer EXCEPT ![n] = None]
      /\ pending' = [pending EXCEPT ![n] = s]
      /\ Reset(n, s)
      /\ UNCHANGED <<pq, conn, dial, listening, hb, pairVars, caller, up, wire, silent, budget,
                     refused, torn, early, garbled>>

(* The accept loop has read the identity line, or no such line came. *)
Identify(n) ==
  LET s == offer[n]
  IN  /\ s # None
      /\ offer' = [offer EXCEPT ![n] = None]
      /\ \/ Gone(s, Other(n)) /\ Refuse(n, "no identity")
         \/ conn[n] # None /\ Refuse(n, "established")
         \/ conn[n] = None /\ dial[n] # None /\ PrefersOutbound(n) /\ Refuse(n, "preference")
         \/ /\ conn[n] = None /\ ~(dial[n] # None /\ PrefersOutbound(n))
            /\ dial' = [dial EXCEPT ![n] = None]
            /\ IF dial[n] = None THEN UNCHANGED <<up, wire>> ELSE Close(dial[n], n)
            /\ pending' = [pending EXCEPT ![n] = s]
            /\ Reset(n, s)
            /\ UNCHANGED refused
      /\ UNCHANGED <<pq, conn, listening, hb, pairVars, caller, silent, budget, torn, early,
                     garbled>>

-----------------------------------------------------------------------------
(* mutant: a call that is answered counts as ready *)
AcceptAtOnce(n) ==
  LET s == pending[n]
      rests == {wire[s][n]} \cup (IF wire[s][n] = <<>> THEN {} ELSE {Tail(wire[s][n])})
  IN  /\ s # None /\ ~Ended(s, n)
      /\ conn' = [conn EXCEPT ![n] = s]
      /\ pending' = [pending EXCEPT ![n] = None]
      /\ live' = [live EXCEPT ![n] = TRUE]
      /\ hb' = [hb EXCEPT ![n] = IF Ready(n, e2e[n]) THEN s ELSE None]
      /\ \E rest \in rests :
           /\ wire' = [wire EXCEPT ![s][n] = rest,
                                   ![s][Other(n)] = IF up[s] = Nodes THEN @ \o Hello(n, e2e[n])
                                                    ELSE @]
           /\ torn' = IF rest = wire[s][n] THEN torn ELSE torn \cup {s}
      /\ early' = IF n \in pq /\ e2e[n].kem = NoKem THEN early \cup {s} ELSE early
      /\ UNCHANGED <<pq, dial, listening, offer, e2e, pairVars, caller, up, silent, budget,
                     refused, garbled>>

(* /accept: the receive loop of the pending call is cancelled, which may     *)
(* lose the frame it was in the middle of, and the call is answered.        *)
Accept(n) ==
  LET s == pending[n]
      rests == {wire[s][n]} \cup (IF wire[s][n] = <<>> THEN {} ELSE {Tail(wire[s][n])})
  IN  /\ s # None /\ ~Ended(s, n)
      /\ conn' = [conn EXCEPT ![n] = s]
      /\ pending' = [pending EXCEPT ![n] = None]
      /\ live' = [live EXCEPT ![n] = Ready(n, e2e[n])]
      /\ hb' = [hb EXCEPT ![n] = IF Ready(n, e2e[n]) THEN s ELSE None]
      /\ \E rest \in rests :
           /\ wire' = [wire EXCEPT ![s][n] = rest,
                                   ![s][Other(n)] = IF up[s] = Nodes THEN @ \o Hello(n, e2e[n])
                                                    ELSE @]
           /\ torn' = IF rest = wire[s][n] THEN torn ELSE torn \cup {s}
      /\ early' = IF n \in pq /\ e2e[n].kem = NoKem THEN early \cup {s} ELSE early
      /\ UNCHANGED <<pq, dial, listening, offer, e2e, pairVars, caller, up, silent, budget,
                     refused, garbled>>

(* /decline; the end of a pending call, which the pending receive loop, the  *)
(* watch worker or /accept finds.                                           *)
EndPending(n) ==
  LET s == pending[n]
  IN  /\ s # None
      /\ pending' = [pending EXCEPT ![n] = None]
      /\ Reset(n, None)
      /\ Close(s, n)
      /\ UNCHANGED <<pq, conn, dial, listening, offer, hb, pairVars, caller, silent, budget,
                     histVars>>

Decline(n) == EndPending(n)
PendingEnded(n) == Ended(pending[n], n) /\ EndPending(n)

(* The session goes, with everything that belongs to it. *)
HangUp(n) ==
  /\ conn' = [conn EXCEPT ![n] = None]
  /\ hb' = [hb EXCEPT ![n] = None]
  /\ Reset(n, None)
  /\ UNCHANGED <<pq, pending, listening, offer, pairVars, caller, silent, budget, histVars>>

(* /disconnect: disconnect_peer, for a session or for a connect under way. *)
Disconnect(n) ==
  /\ dial' = [dial EXCEPT ![n] = None]
  /\ \/ /\ conn[n] # None
        /\ WriteAndClose(conn[n], n, <<Frame("QUIT", Fresh(n, None))>>)
     \/ /\ conn[n] = None /\ pending[n] = None /\ dial[n] # None
        /\ Close(dial[n], n)
  /\ HangUp(n)

(* on_unmount: whatever is open is told and closed, by the session manager   *)
(* if no one else knows it any more.  The program may be started again, with *)
(* what it has saved.                                                        *)
Exit(n) ==
  /\ Spend("exits")
  /\ conn' = [conn EXCEPT ![n] = None]
  /\ pending' = [pending EXCEPT ![n] = None]
  /\ dial' = [dial EXCEPT ![n] = None]
  /\ offer' = [offer EXCEPT ![n] = None]
  /\ listening' = [listening EXCEPT ![n] = FALSE]
  /\ hb' = [hb EXCEPT ![n] = None]
  /\ todo' = [todo EXCEPT ![n] = {}]
  /\ Reset(n, None)
  /\ up' = [s \in Streams |-> up[s] \ {n}]
  /\ wire' = [s \in Streams |-> [m \in Nodes |->
        IF m = n THEN <<>>
        ELSE IF up[s] = Nodes /\ s \in {conn[n], pending[n]}
        THEN Append(wire[s][m], Frame("QUIT", Fresh(n, None))) ELSE wire[s][m]]]
  /\ UNCHANGED <<pq, locked, secret, secrets, renewed, caller, silent, histVars>>

(* The end of receive_loop. *)
ReceiveLoopEnds(n) ==
  /\ Ended(conn[n], n)
  /\ Close(conn[n], n)
  /\ UNCHANGED dial
  /\ HangUp(n)

(* heartbeat_loop: too long nothing has come.  The stream is closed, and the *)
(* receive loop does the rest.                                              *)
HeartbeatTimeout(n) ==
  /\ hb[n] # None /\ hb[n] = conn[n] /\ live[n] /\ n \in up[hb[n]]
  /\ Silent(hb[n]) \/ wire[hb[n]][n] # <<>>
  /\ Close(hb[n], n)
  /\ hb' = [hb EXCEPT ![n] = None]
  /\ UNCHANGED <<pq, conn, pending, dial, listening, offer, e2e, live, pairVars, caller,
                 silent, budget, histVars>>

-----------------------------------------------------------------------------
(* send_direct_message, which the composer calls when the session is ready.  *)
(* When the stream is found broken the session is dropped on the spot.       *)
Say(n) ==
  /\ Spend("says")
  /\ conn[n] # None /\ live[n]
  /\ \/ /\ Write(conn[n], n, <<Frame("U", e2e[n])>>)
        /\ UNCHANGED <<conn, live, hb>>
     \/ /\ up[conn[n]] # Nodes
        /\ conn' = [conn EXCEPT ![n] = None]
        /\ live' = [live EXCEPT ![n] = FALSE]
        /\ hb' = [hb EXCEPT ![n] = None]
        /\ Close(conn[n], n)
  /\ UNCHANGED <<pq, pending, dial, listening, offer, e2e, pairVars, caller, silent, histVars>>

(* What the receive loops do with a frame, f, of stream s.  Each handler     *)
(* leaves the frames behind it in q.                                        *)
Reading(n, s) == s # None /\ s \in {conn[n], pending[n]} /\ n \in up[s] /\ ~Silent(s)

(* mutant: the heartbeat is not started *)
NewKeysUnwatched(n, e, mark) ==
  LET ready == live[n] \/ (mark /\ Ready(n, e))
  IN  /\ e2e' = [e2e EXCEPT ![n] = e]
      /\ live' = [live EXCEPT ![n] = ready]
      /\ IF ready /\ ~live[n] /\ conn[n] # None
         THEN Schedule(n, "sync") ELSE UNCHANGED todo
      /\ UNCHANGED hb

(* The keys have changed to e: mark_live_ready_if_needed, which a classical  *)
(* session does not use for its K while the call is pending.                *)
NewKeys(n, e, mark) ==
  LET ready == live[n] \/ (mark /\ Ready(n, e))
  IN  /\ e2e' = [e2e EXCEPT ![n] = e]
      /\ live' = [live EXCEPT ![n] = ready]
      /\ hb' = [hb EXCEPT ![n] = IF ready /\ ~live[n] THEN conn[n] ELSE @]
      /\ IF ready /\ ~live[n] /\ conn[n] # None
         THEN Schedule(n, "sync") ELSE UNCHANGED todo

GetK(n, s, f, q) ==
  /\ NewKeys(n, [e2e[n] EXCEPT !.keys[Other(n)] = f.e2e.keys[Other(n)]],
             n \notin pq /\ s = conn[n])
  /\ wire' = q
  /\ UNCHANGED <<up, garbled, secret>>

(* mutant: Y is not applied *)
GetYUnused(n, s, f, q) ==
  /\ n \in pq
  /\ NewKeys(n, e2e[n], TRUE)
  /\ wire' = q
  /\ UNCHANGED <<up, garbled, secret>>

(* receive_peer_pq_ciphertext; a ciphertext for another key gives a secret   *)
(* no one else has.                                                         *)
GetY(n, s, f, q) ==
  /\ n \in pq
  /\ NewKeys(n, [e2e[n] EXCEPT !.kem = <<f.e2e.kem[1], f.e2e.kem[2], e2e[n].keys[n]>>], TRUE)
  /\ wire' = q
  /\ UNCHANGED <<up, garbled, secret>>

(* receive_peer_pq_public: a secret of its own, which it tells in a Y. *)
GetQ(n, s, f, q) ==
  LET p == f.e2e.keys[Other(n)]
      e == [e2e[n] EXCEPT !.kem = <<n, p, p>>]
  IN  /\ n \in pq
      /\ NewKeys(n, e, TRUE)
      /\ wire' = IF up[s] = Nodes THEN [q EXCEPT ![s][Other(n)] = Append(@, Frame("Y", e))]
                 ELSE q
      /\ UNCHANGED <<up, garbled, secret>>

(* Without --pq a Q or Y closes the stream. *)
GetUnwanted(n, s, f, q) ==
  /\ n \notin pq
  /\ Close(s, n)
  /\ UNCHANGED <<e2e, live, hb, todo, garbled, secret>>

(* A message that does not decrypt is shown as it is. *)
GetU(n, s, f, q) ==
  /\ garbled' = IF f.e2e = e2e[n] /\ Ready(n, e2e[n]) THEN garbled ELSE garbled \cup {<<s, n>>}
  /\ wire' = q
  /\ UNCHANGED <<up, e2e, live, hb, todo, secret>>

(* X, the offline secret: taken in a ready session of a locked profile that  *)
(* has none, if it authenticates.                                           *)
GetX(n, s, f, q) ==
  /\ secret' = IF /\ s = conn[n] /\ n \in locked /\ live[n] /\ Ready(n, e2e[n])
                  /\ f.e2e = e2e[n] /\ secret[n] = None
               THEN [secret EXCEPT ![n] = f.val] ELSE secret
  /\ wire' = q
  /\ UNCHANGED <<up, e2e, live, hb, todo, garbled>>

(* mutant: the request is not answered *)
GetRequestUnanswered(n, s, f, q) ==
  /\ wire' = q
  /\ UNCHANGED <<up, e2e, live, hb, todo, garbled, secret>>

(* The signal that asks for the secret. *)
GetRequest(n, s, f, q) ==
  /\ Schedule(n, "send")
  /\ wire' = q
  /\ UNCHANGED <<up, e2e, live, hb, garbled, secret>>

(* QUIT ends a pending call; a session waits for the end of the stream. *)
GetQuit(n, s, f, q) ==
  /\ s = conn[n]
  /\ wire' = q
  /\ UNCHANGED <<up, e2e, live, hb, todo, garbled, secret>>

Receive(n, s) ==
  /\ Reading(n, s) /\ wire[s][n] # <<>>
  /\ LET f == Head(wire[s][n])
         q == [wire EXCEPT ![s][n] = Tail(@)]
     IN  \/ /\ f.type = "QUIT" /\ s = pending[n]
            /\ EndPending(n)
         \/ /\ \/ f.type = "K" /\ GetK(n, s, f, q)
               \/ f.type = "Q" /\ GetQ(n, s, f, q)
               \/ f.type = "Y" /\ GetY(n, s, f, q)
               \/ f.type \in {"Q", "Y"} /\ GetUnwanted(n, s, f, q)
               \/ f.type = "U" /\ GetU(n, s, f, q)
               \/ f.type = "X" /\ GetX(n, s, f, q)
               \/ f.type = "REQUEST" /\ GetRequest(n, s, f, q)
               \/ f.type = "QUIT" /\ GetQuit(n, s, f, q)
            /\ UNCHANGED <<pq, conn, pending, dial, listening, offer, locked, secrets, renewed,
                           caller, silent, budget, refused, torn, early>>

-----------------------------------------------------------------------------
(* /lock in a session whose peer is known. *)
Lock(n) ==
  /\ Spend("locks")
  /\ conn[n] # None /\ n \notin locked
  /\ caller[conn[n]] = n => e2e[n].keys[Other(n)] # Unknown
  /\ locked' = locked \cup {n}
  /\ todo' = [todo EXCEPT ![n] = @ \cup {"sync"}]
  /\ UNCHANGED <<pq, nodeVars, secret, secrets, renewed, netVars, histVars>>

Unlock(n) ==
  /\ Spend("unlocks")
  /\ n \in locked
  /\ locked' = locked \ {n}
  /\ secret' = [secret EXCEPT ![n] = None]
  /\ UNCHANGED <<pq, nodeVars, todo, secrets, renewed, netVars, histVars>>

(* should_initiate_offline_secret *)
Initiates(n) == n = Low

CanSync(n) == conn[n] # None /\ live[n] /\ n \in locked

(* mutant: a new secret each time *)
SendSecretNew(n) ==
  /\ secret' = [secret EXCEPT ![n] = secrets + 1]
  /\ secrets' = secrets + 1
  /\ UNCHANGED renewed
  /\ Write(conn[n], n, <<[Frame("X", e2e[n]) EXCEPT !.val = secrets + 1]>>)

(* mutant: the secret that is made is sent and not kept *)
SendSecretUnkept(n) ==
  LET own == IF secret[n] # None THEN secret[n] ELSE secrets + 1
  IN  /\ Write(conn[n], n, <<[Frame("X", e2e[n]) EXCEPT !.val = own]>>)
      /\ UNCHANGED <<secret, secrets, renewed>>

(* A secret that was made before is there, or on its way, at n. *)
OldSecret(n) ==
  \/ secret[n] # None
  \/ \E s \in Streams : \E i \in DOMAIN wire[s][n] : wire[s][n][i].type = "X"

(* send_offline_secret_if_needed: made once, then sent as often as needed. *)
SendSecret(n) ==
  LET own == IF secret[n] # None THEN secret[n] ELSE secrets + 1
  IN  /\ secret' = [secret EXCEPT ![n] = own]
      /\ secrets' = IF secret[n] # None THEN secrets ELSE secrets + 1
      /\ renewed' = (renewed \/ (secret[n] = None /\ OldSecret(Other(n))))
      /\ Write(conn[n], n, <<[Frame("X", e2e[n]) EXCEPT !.val = own]>>)

(* A task runs: sync_offline_secret_if_needed, or send_..., on what holds now. *)
RunTask(n) ==
  \E task \in todo[n] :
    /\ todo' = [todo EXCEPT ![n] = @ \ {task}]
    /\ \/ /\ CanSync(n) /\ Ready(n, e2e[n]) /\ Initiates(n)
          /\ SendSecret(n)
       \/ /\ CanSync(n) /\ ~Initiates(n) /\ task = "sync" /\ secret[n] = None
          /\ Write(conn[n], n, <<Frame("REQUEST", Fresh(n, None))>>)
          /\ UNCHANGED <<secret, secrets, renewed>>
       \/ /\ ~(CanSync(n) /\ Ready(n, e2e[n]) /\ Initiates(n))
          /\ ~(CanSync(n) /\ ~Initiates(n) /\ task = "sync" /\ secret[n] = None)
          /\ UNCHANGED <<secret, secrets, renewed, up, wire>>
    /\ UNCHANGED <<pq, nodeVars, locked, caller, silent, budget, histVars>>

(* A stream goes silent. *)
Break(s) ==
  /\ Spend("breaks")
  /\ up[s] = Nodes
  /\ silent' = silent \cup {s}
  /\ UNCHANGED <<pq, nodeVars, pairVars, caller, up, wire, histVars>>

Next ==
  \/ \E n \in Nodes :
       \/ Dial(n) \/ Reach(n) \/ DialFails(n) \/ Connected(n) \/ Listen(n) \/ Identify(n)
       \/ Accept(n) \/ Decline(n) \/ PendingEnded(n) \/ Disconnect(n) \/ Exit(n)
       \/ ReceiveLoopEnds(n)
       \/ HeartbeatTimeout(n) \/ Say(n) \/ Lock(n) \/ Unlock(n) \/ RunTask(n)
       \/ \E s \in Streams : Receive(n, s)
  \/ \E s \in Streams : Break(s)

Spec == Init /\ [][Next]_vars

(* What the event loop of a program does without its user. *)
EventLoop(n) ==
  \/ DialFails(n) \/ Connected(n) \/ Identify(n) \/ PendingEnded(n)
  \/ ReceiveLoopEnds(n) \/ RunTask(n)
  \/ Silent(hb[n]) /\ HeartbeatTimeout(n)
  \/ \E s \in Streams : Receive(n, s)

(* The event loops go on as long as they have something to do; the users     *)
(* need not.                                                                *)
Fairness == \A n \in Nodes : WF_vars(EventLoop(n))

FairSpec == Spec /\ Fairness

-----------------------------------------------------------------------------
Ids == {Unknown, None} \cup Streams
Kems == {NoKem} \cup (Nodes \X Ids \X Ids)
E2Es == [keys: [Nodes -> Ids], kem: Kems]
Frames == [type: {"K", "Q", "Y", "U", "X", "REQUEST", "QUIT"}, e2e: E2Es, val: Nat]

TypeOK ==
  /\ pq \subseteq Nodes
  /\ {conn, pending, dial, offer, hb} \subseteq [Nodes -> Streams \cup {None}]
  /\ {listening, live} \subseteq [Nodes -> BOOLEAN]
  /\ e2e \in [Nodes -> E2Es]
  /\ locked \subseteq Nodes
  /\ secret \in [Nodes -> 0..secrets]
  /\ todo \in [Nodes -> SUBSET {"sync", "send"}]
  /\ caller \in [Streams -> Nodes]
  /\ up \in [Streams -> SUBSET Nodes]
  /\ \A s \in Streams, n \in Nodes : wire[s][n] \in Seq(Frames)
  /\ silent \subseteq Streams
  /\ secrets \in Nat
  /\ refused \subseteq Streams \X {"no identity", "established", "preference"}
  /\ torn \subseteq Streams /\ early \subseteq Streams
  /\ garbled \subseteq Streams \X Nodes
  /\ renewed \in BOOLEAN

(* A program is in one call at a time, and every stream whose end it holds    *)
(* open is the one it dials, reads the identity of, lets ring or talks on:   *)
(* cancelled, refused and colliding calls leave none behind.  So where      *)
(* connect_to_peer looks for a session or a pending call that came in        *)
(* between, it never finds one: the accept loop has cancelled it before      *)
(* (connect_to_peer, accept_loop, invalidate_one_to_one_connect).            *)
OneCallAtATime ==
  \A n \in Nodes :
    /\ dial[n] # None => conn[n] = None /\ pending[n] = None
    /\ conn[n] = None \/ pending[n] = None
    /\ \A s \in Streams : n \in up[s] => s \in {conn[n], pending[n], offer[n], dial[n]}

Talk(s) == \A n \in Nodes : conn[n] = s /\ live[n] /\ n \in up[s]
Handshaking(s) ==
  \E n \in Nodes : \E i \in DOMAIN wire[s][n] : wire[s][n][i].type \in {"K", "Q", "Y"}

(* When both are ready and no key is on its way, both hold the same session  *)
(* key, whoever called and whatever was lost in accepting.  The exception is *)
(* a fault of the code: in a hybrid session that was accepted before the Q of *)
(* the caller had come (early) the two Qs cross, each side takes the secret   *)
(* the other one made, and the keys stay different for the whole session      *)
(* (handle_parsed_frame: Q and Y, accept_pending_incoming).                   *)
KeysAgree ==
  \A s \in Streams :
    Talk(s) /\ ~Handshaking(s) /\ ~Silent(s) =>
      e2e[Low] = e2e[High] \/ (pq = Nodes /\ s \in early)

(* A message is read with the key it was written with, in every classical    *)
(* session.  In a hybrid one the callee is ready before the caller has made  *)
(* the last secret, and what it sends until the Y comes is shown to the      *)
(* caller as ciphertext, or dropped, an index sync included.  Where only one *)
(* has --pq it cannot read what the other one, which is ready before it      *)
(* sees the Q, says.  A frame lost in accepting may be a key                 *)
(* (send_direct_message, handle_parsed_frame: U, I, accept_pending_incoming). *)
MessagesAreRead ==
  \A s \in Streams, n \in Nodes :
    <<s, n>> \in garbled =>
      \/ s \in torn
      \/ pq = Nodes /\ (n = caller[s] \/ s \in early)
      \/ pq = {n}

(* Two locked peers that have an offline secret have the same one, after any *)
(* locking, unlocking and asking again, unless the one that makes it was     *)
(* unlocked while the other one kept the old one, or was about to get it:    *)
(* it is not replaced (send_offline_secret_if_needed, handle_parsed_frame: X). *)
SecretsAgree ==
  locked = Nodes /\ (\A n \in Nodes : secret[n] # None) =>
    secret[Low] = secret[High] \/ renewed

(* A call settles.  Both programs in one session get ready or leave it;      *)
(* they do not stay in two different sessions after calls that collide; who  *)
(* is ready leaves a session whose other end has closed or gone silent; a    *)
(* caller that is gone does not ring for ever (receive_loop, accept_loop,    *)
(* heartbeat_loop, pending_incoming_watch_worker).                           *)
NotReady ==
  \E s \in Streams \ (silent \cup torn) :
    (\A n \in Nodes : conn[n] = s) /\ ~(\A n \in Nodes : live[n])
Split == conn[Low] # None /\ conn[High] # None /\ conn[Low] # conn[High]
LeftAlone(n) ==
  \/ conn[n] # None /\ (IF Silent(conn[n]) THEN live[n] ELSE Gone(conn[n], Other(n)))
  \/ pending[n] # None /\ Gone(pending[n], Other(n)) /\ ~Silent(pending[n])

CallsSettle ==
  /\ NotReady ~> ~NotReady
  /\ Split ~> ~Split
  /\ \A n \in Nodes : LeftAlone(n) ~> ~LeftAlone(n)

(* Two peers that are locked to each other in a session get their offline    *)
(* secret, whoever locked first and whichever frames came too early for it,  *)
(* if the session stays (sync_offline_secret_if_needed,                      *)
(* request_offline_secret_if_needed).                                        *)
Unpaired ==
  /\ locked = Nodes /\ \E n \in Nodes : secret[n] = None
  /\ \E s \in Streams \ (silent \cup torn \cup early) : Talk(s)

PairingCompletes == Unpaired ~> ~Unpaired
=============================================================================
