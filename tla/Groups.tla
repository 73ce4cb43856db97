------------------------------- MODULE Groups -------------------------------
(***************************************************************************)
(* Groups: an owner who signs the roster, members who come with an invite,  *)
(* and the links between every two of them (group_ops.py and the group part *)
(* of termchat-i2p.py).                                                     *)
(*                                                                         *)
(* A step is what a coroutine does between two awaits.  A link is a stream  *)
(* that one of the two dials; both may dial at once, and a stream may go    *)
(* silent for good.                                                         *)
(***************************************************************************)
EXTENDS Integers, Sequences, FiniteSets, FiniteSetsExt, Functions

CONSTANTS
  Owner, Members, \* who takes part
  Order,          \* all of them in the order of their addresses
  MaxInvites,     \* bound: invites are numbered 1..MaxInvites
  MaxStreams,     \* bound: streams at one time
  Budgets,        \* bounds: who takes part in a behaviour, which of them may
                  \* dial each other, and how often the rest may happen
  None

Nodes == Members \cup {Owner}
Streams == 1..MaxStreams
Tokens == 1..MaxInvites

ASSUME GroupsAssumption ==
  /\ Owner \notin Members
  /\ Nodes = Range(Order) /\ Len(Order) = Cardinality(Nodes)
  /\ MaxStreams \in Nat /\ MaxInvites \in Nat
  /\ None \notin Nodes

VARIABLES
  up,       \* up[x]: "closed", "opening", "open", or "published" when the
            \* tunnels are up
  rec,      \* rec[x]: active_group, the record of the group in memory
  disk,     \* disk[x]: group.json
  peer,     \* peer[x][y]: the entry of y in group_peers of x
  conn,     \* the streams
  invite,   \* invite[t]: the roster in the invite string with token t, or None
  removing, \* the removal that is under way: who, and the members to be left
  budget,   \* what is left of the bounds
  removed,  \* history: the members the owner has removed and not taken again
  taken,    \* history: the members whose invite the owner has redeemed
  during,   \* history: who was taken while a removal was under way
  astray    \* history: tokens of invites made by another instance of the owner

histVars == <<removed, taken, during, astray>>
vars == <<up, rec, disk, peer, conn, invite, removing, budget, histVars>>

(* group_local_prefers_outbound *)
PrefersOutbound(x, y) ==
  \E i, j \in DOMAIN Order : i < j /\ Order[i] = x /\ Order[j] = y

(* The names somebody's roster lists: none, or one for each of some nodes.   *)
Lists == UNION {[S -> 0..1] : S \in SUBSET Nodes}
Roster == [version: Nat, names: Lists]

(* merge_group_member: x is listed by this name. *)
Listed(names, x, name) == [y \in DOMAIN names \cup {x} |-> IF y = x THEN name ELSE names[y]]

NoRecord == [exists |-> FALSE, version |-> 1, names |-> <<>>, mine |-> 0,
             token |-> None, book |-> [t \in Tokens |-> None]]

(* ensure_group_peer: a new entry; group_peers.get(b32) without one.  A stuck *)
(* entry has the writer of a stream that is dead, and no task that looks at   *)
(* it.                                                                        *)
NoPeer == [known |-> FALSE, auth |-> FALSE, stream |-> 0, dial |-> 0, ready |-> FALSE,
           stuck |-> FALSE]

Online(x) == up[x] \in {"open", "published"}

Idle == [caller |-> None, callee |-> None, ends |-> {}, broken |-> FALSE, q |-> <<>>]

Init ==
  /\ up = [x \in Nodes |-> IF x = Owner THEN "published" ELSE "closed"]
  /\ rec = [x \in Nodes |-> IF x = Owner
                            THEN [NoRecord EXCEPT !.exists = TRUE,
                                              !.names = Listed(<<>>, Owner, 0)]
                            ELSE NoRecord]
  /\ disk = rec
  /\ peer = [x \in Nodes |-> [y \in Nodes |-> NoPeer]]
  /\ conn = [s \in Streams |-> Idle]
  /\ invite = [t \in Tokens |-> None]
  /\ removing = None
  /\ budget \in Budgets
  /\ removed = {} /\ taken = {} /\ during = {} /\ astray = {}

-----------------------------------------------------------------------------
(* Streams                                                                   *)

Far(s, x) == IF conn[s].caller = x THEN conn[s].callee ELSE conn[s].caller

(* x closes its end; what the other end has still to read stays there. *)
Cut(c, x) ==
  IF c.ends \subseteq {x} THEN Idle
  ELSE [c EXCEPT !.ends = @ \ {x}, !.q[x] = <<>>]
CutAll(cs, x, S) == [s \in Streams |-> IF s \in S THEN Cut(cs[s], x) ELSE cs[s]]

(* x writes a frame. *)
Put(c, x, frame) ==
  LET y == IF c.caller = x THEN c.callee ELSE c.caller IN
    IF y \notin c.ends \/ c.broken THEN c
    ELSE [c EXCEPT !.q[y] = Append(@, frame)]

Taken(c, x) == [c EXCEPT !.q[x] = Tail(@)]

(* the frame x would read next from y *)
Reads(x, y, type) ==
  LET s == peer[x][y].stream IN
    /\ s # 0
    /\ conn[s].q[x] # <<>>
    /\ Head(conn[s].q[x]).type = type
Frame(x, y) == Head(conn[peer[x][y].stream].q[x])

(* The entry of y at x has lost its stream (end of group_receive_loop). *)
Lost(p) == [p EXCEPT !.stream = 0, !.dial = 0, !.ready = FALSE]

Save(x, r) ==
  /\ rec' = [rec EXCEPT ![x] = r]
  /\ disk' = [disk EXCEPT ![x] = r]

Spend(what) ==
  /\ budget[what] > 0
  /\ budget' = [budget EXCEPT ![what] = @ - 1]

(* roster_sync_from_meta, join proofs of send_group_join_or_rename_to_owner *)
RosterOf(r) == [version |-> r.version, names |-> r.names]
Sync(r) == [type |-> "roster", roster |-> RosterOf(r)]
Proof(r) == [type |-> "proof", token |-> r.token, name |-> r.mine]

(* send_group_roster_sync_to_ready_peers *)
SyncAll(cs, row, r) ==
  [s \in Streams |->
     IF \E y \in Nodes : row[y].stream = s /\ row[y].ready /\ row[y].auth
     THEN Put(cs[s], Owner, Sync(r)) ELSE cs[s]]

(* send_group_join_or_rename_to_owner: with a token it is a join proof.  Who *)
(* has none is not connected to the owner.                                   *)
SendProof(cs, row, r, x) ==
  [s \in Streams |->
     IF row[Owner].stream = s /\ row[Owner].ready /\ r.token # None
     THEN Put(cs[s], x, Proof(r)) ELSE cs[s]]

(* reconcile_group_peers: entries for all who are listed; an entry that was  *)
(* authorized and is not listed goes, with its stream.                       *)
Reconciled(x, row, names) ==
  [y \in Nodes |->
     IF y \in DOMAIN names \ {x} THEN [row[y] EXCEPT !.known = TRUE, !.auth = TRUE]
     ELSE IF row[y].auth THEN NoPeer ELSE row[y]]
Unlisted(x, row, names) ==
  UNION {{row[y].stream, row[y].dial} : y \in {z \in Nodes \ DOMAIN names : row[z].auth}}

-----------------------------------------------------------------------------
(* The record of a group                                                     *)

NextToken == Min({t \in Tokens : invite[t] = None})
SomeTokenLeft == \E t \in Tokens : invite[t] = None

(* issue_group_invite *)
Issued(r, t) == [r EXCEPT !.book[t] = "issued"]

(* issue_group_invite_for_key in the instance that has the group open: what   *)
(* it finds in the file is from now on its record.                            *)
Issue ==
  /\ Online(Owner) /\ SomeTokenLeft
  /\ Save(Owner, Issued(disk[Owner], NextToken))
  /\ invite' = [invite EXCEPT ![NextToken] = RosterOf(disk[Owner])]
  /\ UNCHANGED <<up, peer, conn, removing, budget, histVars>>

(* The same in another instance of the owner's program: the lock of the open *)
(* group is not asked for.                                                   *)
IssueElsewhere ==
  /\ SomeTokenLeft
  /\ Spend("elsewhere")
  /\ disk' = [disk EXCEPT ![Owner] = Issued(@, NextToken)]
  /\ invite' = [invite EXCEPT ![NextToken] = RosterOf(disk[Owner])]
  /\ astray' = IF up[Owner] = "closed" THEN astray ELSE astray \cup {NextToken}
  /\ UNCHANGED <<up, rec, peer, conn, removing, removed, taken, during>>

(* merge_group_invite: the inviter and the members of the invite *)
Invited(t) == [NoRecord EXCEPT !.exists = TRUE, !.version = invite[t].version,
                               !.names = invite[t].names, !.token = t]

(* join_group_record, if there is no record of the group yet *)
Join(x, t) ==
  /\ x \in budget.who \cap Members
  /\ ~disk[x].exists /\ invite[t] # None
  /\ Save(x, Invited(t))
  /\ UNCHANGED <<up, peer, conn, invite, removing, budget, histVars>>

(* open_group reads the record, ...                                          *)
Open(x) ==
  /\ up[x] = "closed" /\ disk[x].exists
  /\ up' = [up EXCEPT ![x] = "opening"]
  /\ rec' = [rec EXCEPT ![x] = disk[x]]
  /\ UNCHANGED <<disk, peer, conn, invite, removing, budget, histVars>>

(* ... and saves what it has read when its SAM session is there.             *)
Opened(x) ==
  /\ up[x] = "opening"
  /\ up' = [up EXCEPT ![x] = "open"]
  /\ Save(x, rec[x])
  /\ UNCHANGED <<peer, conn, invite, removing, budget, histVars>>

(* group_ready_loop: from now on members are dialled. *)
Publish(x) ==
  /\ up[x] = "open"
  /\ up' = [up EXCEPT ![x] = "published"]
  /\ peer' = [peer EXCEPT ![x] = Reconciled(x, @, rec[x].names)]
  /\ conn' = CutAll(conn, x, Unlisted(x, peer[x], rec[x].names))
  /\ UNCHANGED <<rec, disk, invite, removing, budget, histVars>>

(* close_group, or the end of the program: all streams of x are closed. *)
Leave(x) ==
  /\ up[x] # "closed"
  /\ Spend("leaves")
  /\ up' = [up EXCEPT ![x] = "closed"]
  /\ peer' = [peer EXCEPT ![x] = [y \in Nodes |-> NoPeer]]
  /\ conn' = CutAll(conn, x, {s \in Streams : x \in conn[s].ends})
  /\ removing' = IF x = Owner THEN None ELSE removing
  /\ UNCHANGED <<rec, disk, invite, histVars>>

(* rename_in_group: the owner signs the new name under the old version, a    *)
(* member proves its invite again with the new name.                         *)
Rename(x) ==
  /\ Online(x) /\ rec[x].mine = 0
  /\ Spend("renames")
  /\ IF x = Owner
     THEN LET r == [rec[x] EXCEPT !.mine = 1, !.names[x] = 1] IN
            Save(x, r) /\ conn' = SyncAll(conn, peer[x], r)
     ELSE LET r == [rec[x] EXCEPT !.mine = 1] IN
            Save(x, r) /\ conn' = SendProof(conn, peer[x], r, x)
  /\ UNCHANGED <<up, peer, invite, removing, histVars>>

(* remove_group_member works out who is left, and closes the link; ...       *)
Remove(x) ==
  /\ Online(Owner) /\ removing = None
  /\ x \in DOMAIN rec[Owner].names \ {Owner}
  /\ Spend("removes")
  /\ removing' = [who |-> x, rest |-> Restrict(rec[Owner].names, DOMAIN rec[Owner].names \ {x})]
  /\ peer' = [peer EXCEPT ![Owner][x] = Lost(@)]
  /\ conn' = CutAll(conn, Owner, {peer[Owner][x].stream, peer[Owner][x].dial})
  /\ UNCHANGED <<up, rec, disk, invite, histVars>>

(* ... when that is closed it forgets the peer, stores who was left, signs,  *)
(* and tells the others.  There is nothing to wait for without a link.       *)
RemoveDone ==
  LET x == removing.who
      r == [rec[Owner] EXCEPT !.names = Listed(removing.rest, Owner, rec[Owner].mine),
                              !.version = @ + 1]
      row == [peer[Owner] EXCEPT ![x] = NoPeer] IN
  /\ removing # None
  /\ removing' = None
  /\ Save(Owner, r)
  /\ peer' = [peer EXCEPT ![Owner] = row]
  /\ conn' = SyncAll(CutAll(conn, Owner, {peer[Owner][x].stream, peer[Owner][x].dial}), row, r)
  /\ removed' = removed \cup {x}
  /\ UNCHANGED <<up, invite, budget, taken, during, astray>>

-----------------------------------------------------------------------------
(* Links                                                                     *)

Free == {s \in Streams : conn[s] = Idle}
Between(x, y) == {s \in Streams : {conn[s].caller, conn[s].callee} = {x, y}}

(* connect_group_members, every second: who is listed and not connected.     *)
Dial(x, y) ==
  LET s == Min(Free) IN
  /\ up[x] = "published" /\ {x, y} \in budget.pairs
  /\ y \in DOMAIN rec[x].names \ {x}
  /\ peer[x][y].stream = 0 /\ peer[x][y].dial = 0 /\ ~peer[x][y].stuck
  /\ Free # {}
  /\ IF Between(x, y) = {} THEN UNCHANGED budget ELSE Spend("crosses")
  /\ peer' = [peer EXCEPT ![x][y].dial = s, ![x][y].known = TRUE, ![x][y].auth = TRUE]
  /\ conn' = [conn EXCEPT ![s] =
       [caller |-> x, callee |-> y, ends |-> {x}, broken |-> FALSE,
        q |-> [z \in {x, y} |-> <<>>]]]
  /\ UNCHANGED <<up, rec, disk, invite, removing, histVars>>

(* connect_group_peer: the stream is there, identity and key are written.    *)
(* There is no other one: an accepted stream has cancelled the dial.         *)
Reached(x, y) ==
  LET s == peer[x][y].dial IN
  /\ s # 0 /\ Online(y)
  /\ peer' = [peer EXCEPT ![x][y].stream = s, ![x][y].dial = 0, ![x][y].ready = FALSE]
  /\ conn' = [conn EXCEPT ![s] = Put([conn[s] EXCEPT !.ends = {x, y}], x, [type |-> "key"])]
  /\ UNCHANGED <<up, rec, disk, invite, removing, budget, histVars>>

DialFails(x, y) ==
  /\ peer[x][y].dial # 0
  /\ IF Online(y) THEN Spend("fails") ELSE UNCHANGED budget
  /\ peer' = [peer EXCEPT ![x][y].stream = 0, ![x][y].dial = 0]
  /\ conn' = CutAll(conn, x, {peer[x][y].dial})
  /\ UNCHANGED <<up, rec, disk, invite, removing, histVars>>

(* The stream comes to an accepting group, and its caller says who it is.    *)
Arrives(s, y) ==
  /\ Online(y)
  /\ conn[s].callee = y /\ y \in conn[s].ends
  /\ peer[y][conn[s].caller].stream # s
  /\ conn[s].q[y] # <<>>

(* group_accept_loop: only the owner lets in who is not listed.              *)
Refuse(s, y) ==
  /\ Arrives(s, y)
  /\ y # Owner /\ conn[s].caller \notin DOMAIN rec[y].names
  /\ conn' = CutAll(conn, y, {s})
  /\ UNCHANGED <<up, rec, disk, peer, invite, removing, budget, histVars>>

(* ensure_group_peer with what the roster says of the caller *)
Met(y, x) == [peer[y][x] EXCEPT !.known = TRUE, !.auth = @ \/ x \in DOMAIN rec[y].names]
LetIn(s, y) == Arrives(s, y) /\ (y = Owner \/ conn[s].caller \in DOMAIN rec[y].names)
Keeps(y, x) ==
  LET p == peer[y][x] IN
    p.ready \/ ((p.stream # 0 \/ p.dial # 0 \/ p.stuck) /\ PrefersOutbound(y, x))

(* A link that is ready, or the own call if that one is preferred, stays. *)
Collide(s, y) ==
  LET x == conn[s].caller IN
  /\ LetIn(s, y) /\ Keeps(y, x)
  /\ peer' = [peer EXCEPT ![y][x] = Met(y, x)]
  /\ conn' = CutAll(conn, y, {s})
  /\ UNCHANGED <<up, rec, disk, invite, removing, budget, histVars>>

(* mutant: the own call is not cancelled *)
AcceptKeepingDial(s, y) ==
  LET x == conn[s].caller IN
  /\ LetIn(s, y) /\ ~Keeps(y, x)
  /\ peer' = [peer EXCEPT ![y][x] = [Met(y, x) EXCEPT !.stream = s, !.ready = FALSE,
                                                      !.stuck = FALSE]]
  /\ conn' = [CutAll(conn, y, {peer[y][x].stream}) EXCEPT ![s] = Put(@, y, [type |-> "key"])]
  /\ UNCHANGED <<up, rec, disk, invite, removing, budget, histVars>>

(* Otherwise the stream is taken, the own call and an older stream are       *)
(* closed, and the callee writes its identity and key.                       *)
Accept(s, y) ==
  LET x == conn[s].caller IN
  /\ LetIn(s, y) /\ ~Keeps(y, x)
  /\ peer' = [peer EXCEPT ![y][x] = [Met(y, x) EXCEPT !.stream = s, !.dial = 0, !.ready = FALSE,
                                                      !.stuck = FALSE]]
  /\ conn' = [CutAll(conn, y, {peer[y][x].stream, peer[y][x].dial}) EXCEPT ![s] =
                Put(@, y, [type |-> "key"])]
  /\ UNCHANGED <<up, rec, disk, invite, removing, budget, histVars>>

(* But send_group_handshake raises when the stream is gone, as after its      *)
(* caller has closed it: the entry keeps the dead writer, and neither the     *)
(* task that reads nor the timeout is started.                                *)
AcceptFails(s, y) ==
  LET x == conn[s].caller IN
  /\ LetIn(s, y) /\ ~Keeps(y, x)
  /\ IF x \in conn[s].ends THEN Spend("fails") ELSE UNCHANGED budget
  /\ peer' = [peer EXCEPT ![y][x] = [Met(y, x) EXCEPT !.stream = 0, !.dial = 0, !.ready = FALSE,
                                                      !.stuck = TRUE]]
  /\ conn' = CutAll(conn, y, {peer[y][x].stream, peer[y][x].dial, s})
  /\ UNCHANGED <<up, rec, disk, invite, removing, histVars>>

(* The identity does not come: 10 s later the callee closes. *)
AcceptTimeout(s, y) ==
  /\ conn[s].broken
  /\ conn[s].callee = y /\ y \in conn[s].ends
  /\ peer[y][conn[s].caller].stream # s
  /\ conn' = CutAll(conn, y, {s})
  /\ UNCHANGED <<up, rec, disk, peer, invite, removing, budget, histVars>>

(* K in handle_group_frame: the link is ready, and the roster or the join    *)
(* proof goes out on it.                                                     *)
GetKey(x, y) ==
  LET s == peer[x][y].stream
      row == [peer[x] EXCEPT ![y].ready = TRUE]
      read == [conn EXCEPT ![s] = Taken(@, x)] IN
  /\ Reads(x, y, "key")
  /\ peer' = [peer EXCEPT ![x] = row]
  /\ conn' = IF x = Owner
             THEN IF row[y].auth THEN [read EXCEPT ![s] = Put(@, x, Sync(rec[x]))] ELSE read
             ELSE IF y = Owner THEN SendProof(read, row, rec[x], x) ELSE read
  /\ UNCHANGED <<up, rec, disk, invite, removing, budget, histVars>>

(* mutant: the roster keeps its version *)
RedeemedSameVersion(own, t, x, name) ==
  [own EXCEPT !.book[t] = x, !.names = Listed(@, x, name)]

(* redeem_group_invite_token: the token is x's, who is listed with the name. *)
Redeemed(own, t, x, name) ==
  LET changed == x \notin DOMAIN own.names \/ own.names[x] # name IN
    [own EXCEPT !.book[t] = x, !.names = Listed(@, x, name),
                !.version = IF changed THEN @ + 1 ELSE @]

(* mutant: the new member is not stored *)
GetProofUnsaved(x) ==
  LET f == Frame(Owner, x)
      r == Redeemed(rec[Owner], f.token, x, f.name)
      row == [peer[Owner] EXCEPT ![x].auth = TRUE]
      read == [conn EXCEPT ![peer[Owner][x].stream] = Taken(@, Owner)] IN
  /\ Reads(Owner, x, "proof")
  /\ IF rec[Owner].book[f.token] \in {"issued", x}
     THEN /\ rec' = [rec EXCEPT ![Owner] = r] /\ UNCHANGED disk
          /\ peer' = [peer EXCEPT ![Owner] = row]
          /\ conn' = SyncAll(read, row, r)
          /\ taken' = taken \cup {x}
          /\ removed' = removed \ {x}
          /\ during' = IF removing = None THEN during ELSE during \cup {x}
     ELSE conn' = read /\ UNCHANGED <<rec, disk, peer, taken, removed, during>>
  /\ UNCHANGED <<up, invite, removing, budget, astray>>

(* The join proof: if its token is good, the roster goes to everybody.       *)
GetProof(x) ==
  LET f == Frame(Owner, x)
      r == Redeemed(rec[Owner], f.token, x, f.name)
      row == [peer[Owner] EXCEPT ![x].auth = TRUE]
      read == [conn EXCEPT ![peer[Owner][x].stream] = Taken(@, Owner)] IN
  /\ Reads(Owner, x, "proof")
  /\ IF rec[Owner].book[f.token] \in {"issued", x}
     THEN /\ Save(Owner, r)
          /\ peer' = [peer EXCEPT ![Owner] = row]
          /\ conn' = SyncAll(read, row, r)
          /\ taken' = taken \cup {x}
          /\ removed' = removed \ {x}
          /\ during' = IF removing = None THEN during ELSE during \cup {x}
     ELSE conn' = read /\ UNCHANGED <<rec, disk, peer, taken, removed, during>>
  /\ UNCHANGED <<up, invite, removing, budget, astray>>

(* merge_group_roster_sync takes a newer roster; who is not on it forgets    *)
(* everybody, and its token.                                                 *)
Merged(r, roster, x) ==
  LET listed == x \in DOMAIN roster.names IN
    IF roster.version <= r.version THEN r
    ELSE [r EXCEPT !.version = roster.version,
                   !.names = IF listed THEN Restrict(roster.names, DOMAIN roster.names \ {x})
                             ELSE <<>>,
                   !.token = IF listed THEN @ ELSE None]

GetRoster(x) ==
  LET now == Merged(rec[x], Frame(x, Owner).roster, x)
      read == [conn EXCEPT ![peer[x][Owner].stream] = Taken(@, x)] IN
  /\ Reads(x, Owner, "roster")
  /\ Save(x, now)
  /\ IF up[x] = "published"
     THEN /\ peer' = [peer EXCEPT ![x] = Reconciled(x, @, now.names)]
          /\ conn' = CutAll(read, x, Unlisted(x, peer[x], now.names))
     ELSE conn' = read /\ UNCHANGED peer
  /\ UNCHANGED <<up, invite, removing, budget, histVars>>

(* The other end has closed, and everything it wrote is read. *)
Ended(x, y) ==
  LET s == peer[x][y].stream IN
  /\ s # 0 /\ ~conn[s].broken
  /\ y \notin conn[s].ends /\ conn[s].q[x] = <<>>
  /\ peer' = [peer EXCEPT ![x][y] = Lost(@)]
  /\ conn' = CutAll(conn, x, {s})
  /\ UNCHANGED <<up, rec, disk, invite, removing, budget, histVars>>

(* A stream goes silent: its frames are lost, and no end is told. *)
Break(s) ==
  /\ Cardinality(conn[s].ends) = 2 /\ ~conn[s].broken
  /\ Spend("breaks")
  /\ conn' = [conn EXCEPT ![s].broken = TRUE, ![s].q = [z \in DOMAIN @ |-> <<>>]]
  /\ UNCHANGED <<up, rec, disk, peer, invite, removing, histVars>>

(* mutant: only the caller's end is watched *)
HandshakeTimeoutCaller(x, y) ==
  LET s == peer[x][y].stream IN
  /\ s # 0 /\ conn[s].broken /\ ~peer[x][y].ready /\ conn[s].caller = x
  /\ peer' = [peer EXCEPT ![x][y] = Lost(@)]
  /\ conn' = CutAll(conn, x, {s})
  /\ UNCHANGED <<up, rec, disk, invite, removing, budget, histVars>>

(* group_handshake_timeout_loop, for a link that does not get ready *)
HandshakeTimeout(x, y) ==
  LET s == peer[x][y].stream IN
  /\ s # 0 /\ conn[s].broken /\ ~peer[x][y].ready
  /\ peer' = [peer EXCEPT ![x][y] = Lost(@)]
  /\ conn' = CutAll(conn, x, {s})
  /\ UNCHANGED <<up, rec, disk, invite, removing, budget, histVars>>

(* group_heartbeat_loop, for one that was ready *)
HeartbeatTimeout(x, y) ==
  LET s == peer[x][y].stream IN
  /\ s # 0 /\ conn[s].broken /\ peer[x][y].ready
  /\ peer' = [peer EXCEPT ![x][y] = Lost(@)]
  /\ conn' = CutAll(conn, x, {s})
  /\ UNCHANGED <<up, rec, disk, invite, removing, budget, histVars>>

-----------------------------------------------------------------------------
User ==
  \/ Issue \/ IssueElsewhere
  \/ \E x \in Members, t \in Tokens : Join(x, t)
  \/ \E x \in Nodes : Open(x) \/ Leave(x) \/ Rename(x)
  \/ \E x \in Members : Remove(x)

LinkStep(x, y) ==
  \/ Dial(x, y) \/ Reached(x, y) \/ GetKey(x, y)
  \/ Ended(x, y) \/ HandshakeTimeout(x, y) \/ HeartbeatTimeout(x, y)

AcceptStep(s, y) ==
  Refuse(s, y) \/ Collide(s, y) \/ Accept(s, y) \/ AcceptFails(s, y) \/ AcceptTimeout(s, y)

Next ==
  \/ User
  \/ \E x \in Nodes : Opened(x) \/ Publish(x)
  \/ RemoveDone
  \/ \E x, y \in Nodes : LinkStep(x, y) \/ DialFails(x, y)
  \/ \E s \in Streams, y \in Nodes : AcceptStep(s, y)
  \/ \E x \in Members : GetProof(x) \/ GetRoster(x)
  \/ \E s \in Streams : Break(s)

Spec == Init /\ [][Next]_vars

(* Every coroutine goes on.  What users do, and failures, need not happen.  *)
Fairness ==
  /\ WF_vars(RemoveDone)
  /\ \A x \in Nodes : WF_vars(Opened(x)) /\ WF_vars(Publish(x))
  /\ \A x, y \in Nodes :
       /\ WF_vars(Dial(x, y)) /\ WF_vars(Reached(x, y) \/ DialFails(x, y))
       /\ WF_vars(GetKey(x, y)) /\ WF_vars(Ended(x, y))
       /\ WF_vars(HandshakeTimeout(x, y)) /\ WF_vars(HeartbeatTimeout(x, y))
  /\ \A s \in Streams, y \in Nodes : WF_vars(AcceptStep(s, y))
  /\ \A x \in Members : WF_vars(GetProof(x)) /\ WF_vars(GetRoster(x))

FairSpec == Spec /\ Fairness

-----------------------------------------------------------------------------
Records == [exists: BOOLEAN, version: Nat, names: Lists, mine: 0..1,
            token: Tokens \cup {None}, book: [Tokens -> Members \cup {"issued", None}]]
Frames == [type: {"key"}] \cup [type: {"roster"}, roster: Roster]
          \cup [type: {"proof"}, token: Tokens, name: 0..1]

(* Every variable has its type; who dials has no stream, a link that is      *)
(* ready has one, and no two entries share a stream at one end.              *)
TypeOK ==
  /\ up \in [Nodes -> {"closed", "opening", "open", "published"}]
  /\ rec \in [Nodes -> Records] /\ disk \in [Nodes -> Records]
  /\ \A x, y \in Nodes :
       /\ peer[x][y] \in [known: BOOLEAN, auth: BOOLEAN, stream: Streams \cup {0},
                          dial: Streams \cup {0}, ready: BOOLEAN, stuck: BOOLEAN]
       /\ peer[x][y].dial = 0 \/ peer[x][y].stream = 0
       /\ peer[x][y].stuck => peer[x][y].dial = 0 /\ peer[x][y].stream = 0
       /\ peer[x][y].ready => peer[x][y].stream # 0
       /\ peer[x][y].stream # 0 =>
            LET c == conn[peer[x][y].stream] IN {c.caller, c.callee} = {x, y} /\ x \in c.ends
  /\ \A s \in Streams : conn[s] # Idle =>
       /\ conn[s].caller \in Nodes /\ conn[s].callee \in Nodes /\ conn[s].broken \in BOOLEAN
       /\ conn[s].ends \subseteq {conn[s].caller, conn[s].callee}
       /\ \A x \in DOMAIN conn[s].q : Range(conn[s].q[x]) \subseteq Frames
  /\ invite \in [Tokens -> Roster \cup {None}]
  /\ removing = None \/ (removing.who \in Members /\ removing.rest \in Lists)
  /\ taken \subseteq Members /\ removed \subseteq Members /\ during \subseteq taken
  /\ astray \subseteq Tokens

(* Whom the owner has taken into the group is in its file until the owner    *)
(* removes that member, whatever else happens meanwhile and whenever the     *)
(* program ends.  The one way out: a member whose proof comes while the      *)
(* owner waits for the link of a removed one is not among those              *)
(* remove_group_member has worked out to be left.                            *)
NobodyIsDropped ==
  taken \ (removed \cup during) \subseteq DOMAIN disk[Owner].names

Published(x, y) == up[x] = "published" /\ up[y] = "published"
Acquainted(x, y) == y \in DOMAIN rec[x].names /\ x \in DOMAIN rec[y].names
Linked(x, y) ==
  /\ peer[x][y].ready /\ peer[y][x].ready
  /\ peer[x][y].stream = peer[y][x].stream /\ ~conn[peer[x][y].stream].broken

(* A stuck entry, at the side that prefers its own calls: it makes no call    *)
(* and takes none.                                                            *)
DeadEnd(x, y) ==
  \/ peer[x][y].stuck /\ PrefersOutbound(x, y)
  \/ peer[y][x].stuck /\ PrefersOutbound(y, x)

(* Two who know each other end up with one ready link, whoever dialled       *)
(* whom, whichever streams collided, went silent or were closed              *)
(* (connect_group_peer, group_accept_loop, the timeouts).  The one way out:   *)
(* the link is never made again after the answer to a call could not be       *)
(* written, if who was called prefers its own calls (DeadEnd).  The other     *)
(* side is called again, and recovers.                                        *)
LinksSettle ==
  <>[](\A x, y \in Nodes :
         {x, y} \in budget.pairs /\ Published(x, y) /\ Acquainted(x, y) =>
           Linked(x, y) \/ DeadEnd(x, y))

Welcome(x) ==
  /\ {Owner, x} \in budget.pairs /\ rec[x].exists
  /\ x \notin removed \cup during \cup {z \in Members : rec[z].token \in astray}
  /\ \A z \in Members \ {x} : rec[z].token # rec[x].token \/ ~rec[z].exists
Agreed(x) ==
  LET Known(r) == Restrict(r.names, DOMAIN r.names \ {x, Owner}) IN
    rec[x].version = rec[Owner].version /\ Known(rec[x]) = Known(rec[Owner])

(* Who has joined with an invite of its own, and was not removed, ends up on *)
(* the roster of the owner and with that roster, while both stay.  The name  *)
(* of the owner is left out: a new one is signed under the old version, and  *)
(* no member takes it (rename_in_group, merge_group_roster_sync).  An invite *)
(* made by another instance while the group is open here may be forgotten    *)
(* with the next save (issue_group_invite_for_key), and a link that is a      *)
(* DeadEnd brings no roster.  A removed member that is online need not be    *)
(* exempted for this to hold: its invite is still good, it is never told,    *)
(* and its next connection redeems the invite again.                         *)
RostersSettle ==
  <>[](\A x \in Members :
         Welcome(x) /\ Published(x, Owner) /\ ~DeadEnd(x, Owner) =>
           x \in DOMAIN rec[Owner].names /\ Agreed(x))
=============================================================================
