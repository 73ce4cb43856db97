---------------------------- MODULE GroupsProofs ----------------------------
(***************************************************************************)
(* Proofs about Groups, for any members, invites and streams: nobody whom   *)
(* the owner has taken into the group is dropped from its file, and entries *)
(* and streams fit together.                                                *)
(***************************************************************************)
EXTENDS Groups, TLAPS, FiniteSetTheorems, SequenceTheorems, WellFoundedInduction

(* Memory and file of the owner always list the same; while a removal is     *)
(* under way the list it has worked out has everybody who was taken before.  *)
SameList ==
  /\ DOMAIN rec = Nodes /\ DOMAIN disk = Nodes
  /\ "names" \in DOMAIN rec[Owner] /\ "names" \in DOMAIN disk[Owner]
  /\ rec[Owner].names = disk[Owner].names

RestIsComplete ==
  removing # None =>
    taken \ (removed \cup during \cup {removing.who}) \subseteq DOMAIN removing.rest

IInv == SameList /\ RestIsComplete /\ NobodyIsDropped

-----------------------------------------------------------------------------
(* The operators on records keep a name list or add to it. *)
LEMMA ListedDomain ==
  ASSUME NEW names, NEW x, NEW name
  PROVE  DOMAIN Listed(names, x, name) = DOMAIN names \cup {x}
BY DEF Listed

LEMMA IssuedList ==
  ASSUME NEW r, NEW t, "names" \in DOMAIN r
  PROVE  "names" \in DOMAIN Issued(r, t) /\ Issued(r, t).names = r.names
BY DEF Issued

LEMMA RedeemedList ==
  ASSUME NEW r, NEW t, NEW x, NEW name, "names" \in DOMAIN r
  PROVE  /\ "names" \in DOMAIN Redeemed(r, t, x, name)
         /\ DOMAIN Redeemed(r, t, x, name).names = DOMAIN r.names \cup {x}
<1> DEFINE v == IF x \notin DOMAIN r.names \/ r.names[x] # name THEN r.version + 1 ELSE r.version
<1>1. Redeemed(r, t, x, name).names = Listed(r.names, x, name)
  BY DEF Redeemed
<1>2. "names" \in DOMAIN Redeemed(r, t, x, name)
  BY DEF Redeemed
<1> QED
  BY <1>1, <1>2, ListedDomain

(* Saving puts the same list in memory and in the file. *)
LEMMA SaveOwner ==
  ASSUME SameList, NEW r, "names" \in DOMAIN r, Save(Owner, r)
  PROVE  SameList' /\ disk'[Owner].names = r.names
BY DEF SameList, Save, Nodes

(* A member's record is none of the owner's. *)
LEMMA SaveMember ==
  ASSUME SameList, NEW x \in Members, NEW r, Save(x, r)
  PROVE  SameList' /\ disk'[Owner] = disk[Owner]
BY GroupsAssumption DEF SameList, Save, Nodes

-----------------------------------------------------------------------------
LEMMA InitIInv == Init => IInv
<1> SUFFICES ASSUME Init PROVE IInv
  OBVIOUS
<1>1. SameList
  BY DEF Init, SameList, Nodes, NoRecord
<1> QED
  BY <1>1 DEF Init, IInv, RestIsComplete, NobodyIsDropped

(* A step that leaves the histories, the removal and the lists as they are. *)
LEMMA SameHistory ==
  ASSUME IInv, SameList', UNCHANGED <<removing, histVars>>,
         disk'[Owner].names = disk[Owner].names
  PROVE  IInv'
BY DEF IInv, RestIsComplete, NobodyIsDropped, histVars

LEMMA UserStep ==
  ASSUME IInv, User
  PROVE  IInv'
<1> USE DEF IInv
<1>1. CASE Issue
  <2> DEFINE r == Issued(disk[Owner], NextToken)
  <2>1. Save(Owner, r) /\ UNCHANGED <<removing, histVars>>
    BY <1>1 DEF Issue
  <2>2. "names" \in DOMAIN r /\ r.names = disk[Owner].names
    BY IssuedList DEF SameList
  <2> HIDE DEF r
  <2> QED
    BY <2>1, <2>2, SaveOwner, SameHistory
<1>2. CASE IssueElsewhere
  <2>1. disk' = [disk EXCEPT ![Owner] = Issued(@, NextToken)]
    BY <1>2 DEF IssueElsewhere
  <2>2. Owner \in DOMAIN disk
    BY DEF SameList, Nodes
  <2>3. DOMAIN disk' = DOMAIN disk /\ disk'[Owner] = Issued(disk[Owner], NextToken)
    BY <2>1, <2>2
  <2>4. "names" \in DOMAIN disk'[Owner] /\ disk'[Owner].names = disk[Owner].names
    BY <2>3, IssuedList DEF SameList
  <2>5. UNCHANGED <<rec, removing, removed, taken, during>>
    BY <1>2 DEF IssueElsewhere
  <2>6. SameList'
    BY <2>3, <2>4, <2>5 DEF SameList
  <2> QED
    BY <2>4, <2>5, <2>6 DEF RestIsComplete, NobodyIsDropped
<1>3. ASSUME NEW x \in Members, NEW t \in Tokens, Join(x, t) PROVE IInv'
  <2>1. Save(x, Invited(t)) /\ UNCHANGED <<removing, histVars>>
    BY <1>3 DEF Join
  <2> QED
    BY <2>1, SaveMember, SameHistory
<1>4. ASSUME NEW x \in Nodes, Open(x) PROVE IInv'
  <2>1. SameList' /\ UNCHANGED <<disk, removing, histVars>>
    BY <1>4 DEF Open, SameList, Nodes
  <2> QED
    BY <2>1, SameHistory
<1>5. ASSUME NEW x \in Nodes, Leave(x) PROVE IInv'
  <2>1. UNCHANGED <<rec, disk, histVars>> /\ (removing' = None \/ removing' = removing)
    BY <1>5 DEF Leave
  <2> QED
    BY <2>1 DEF SameList, RestIsComplete, NobodyIsDropped, histVars
<1>6. ASSUME NEW x \in Nodes, Rename(x) PROVE IInv'
  <2>1. UNCHANGED <<removing, histVars>>
    BY <1>6 DEF Rename
  <2>2. CASE x = Owner
    <3> DEFINE r == [rec[Owner] EXCEPT !.mine = 1, !.names[Owner] = 1]
    <3>1. Save(Owner, r)
      BY <1>6, <2>2 DEF Rename
    <3>2. "names" \in DOMAIN r /\ DOMAIN r.names = DOMAIN disk[Owner].names
      BY DEF SameList
    <3> HIDE DEF r
    <3>3. SameList' /\ DOMAIN disk'[Owner].names = DOMAIN disk[Owner].names
      BY <3>1, <3>2, SaveOwner
    <3> QED
      BY <2>1, <3>3 DEF RestIsComplete, NobodyIsDropped, histVars
  <2>3. CASE x # Owner
    <3>1. x \in Members /\ Save(x, [rec[x] EXCEPT !.mine = 1])
      BY <1>6, <2>3 DEF Rename, Nodes
    <3> QED
      BY <2>1, <3>1, SaveMember, SameHistory
  <2> QED
    BY <2>2, <2>3
<1>7. ASSUME NEW x \in Members, Remove(x) PROVE IInv'
  <2> DEFINE names == rec[Owner].names
             rest == Restrict(names, DOMAIN names \ {x})
  <2>1. removing' = [who |-> x, rest |-> rest] /\ UNCHANGED <<rec, disk, histVars>>
    BY <1>7 DEF Remove
  <2>2. DOMAIN rest = DOMAIN disk[Owner].names \ {x}
    BY DEF SameList, Restrict
  <2>3. removing'.who = x /\ removing'.rest = rest
    BY <2>1
  <2> HIDE DEF rest, names
  <2>4. RestIsComplete'
    BY <2>1, <2>2, <2>3 DEF RestIsComplete, NobodyIsDropped, histVars
  <2> QED
    BY <2>1, <2>4 DEF SameList, NobodyIsDropped, histVars
<1> QED
  BY <1>1, <1>2, <1>3, <1>4, <1>5, <1>6, <1>7 DEF User

(* Who was taken and is not removed by this is on the list that was worked  *)
(* out, or came while the removal was under way.                            *)
LEMMA RemoveDoneStep ==
  ASSUME IInv, RemoveDone
  PROVE  IInv'
<1> USE DEF IInv
<1> DEFINE names == Listed(removing.rest, Owner, rec[Owner].mine)
           r == [rec[Owner] EXCEPT !.names = names, !.version = @ + 1]
<1>1. /\ removing # None /\ removing' = None
      /\ Save(Owner, r)
      /\ removed' = removed \cup {removing.who}
      /\ UNCHANGED <<taken, during>>
  BY DEF RemoveDone
<1>2. "names" \in DOMAIN r /\ r.names = names
  BY DEF SameList
<1>3. DOMAIN names = DOMAIN removing.rest \cup {Owner}
  BY ListedDomain
<1> HIDE DEF names, r
<1>4. SameList' /\ disk'[Owner].names = names
  BY <1>1, <1>2, SaveOwner
<1>5. NobodyIsDropped'
  BY <1>1, <1>3, <1>4 DEF RestIsComplete, NobodyIsDropped
<1> QED
  BY <1>1, <1>4, <1>5 DEF RestIsComplete

LEMMA GetProofStep ==
  ASSUME IInv, NEW x \in Members, GetProof(x)
  PROVE  IInv'
<1> USE DEF IInv
<1> DEFINE f == Frame(Owner, x)
           good == rec[Owner].book[f.token] \in {"issued", x}
           r == Redeemed(rec[Owner], f.token, x, f.name)
<1>1. CASE good
  <2>1. /\ Save(Owner, r)
        /\ taken' = taken \cup {x}
        /\ removed' = removed \ {x}
        /\ during' = IF removing = None THEN during ELSE during \cup {x}
        /\ UNCHANGED removing
    BY <1>1 DEF GetProof
  <2>2. "names" \in DOMAIN r /\ DOMAIN r.names = DOMAIN disk[Owner].names \cup {x}
    BY RedeemedList DEF SameList
  <2> HIDE DEF r, good, f
  <2>3. SameList' /\ DOMAIN disk'[Owner].names = DOMAIN disk[Owner].names \cup {x}
    BY <2>1, <2>2, SaveOwner
  <2>4. NobodyIsDropped'
    BY <2>1, <2>3 DEF NobodyIsDropped
  <2>5. RestIsComplete'
    BY <2>1 DEF RestIsComplete
  <2> QED
    BY <2>3, <2>4, <2>5
<1>2. CASE ~good
  <2>1. UNCHANGED <<rec, disk, taken, removed, during, removing>>
    BY <1>2 DEF GetProof
  <2> QED
    BY <2>1 DEF SameList, RestIsComplete, NobodyIsDropped
<1> QED
  BY <1>1, <1>2

LEMMA GetRosterStep ==
  ASSUME IInv, NEW x \in Members, GetRoster(x)
  PROVE  IInv'
<1>1. Save(x, Merged(rec[x], Frame(x, Owner).roster, x)) /\ UNCHANGED <<removing, histVars>>
  BY DEF GetRoster
<1> QED
  BY <1>1, SaveMember, SameHistory DEF IInv

(* What happens on the links changes no record. *)
LEMMA OtherStep ==
  ASSUME IInv,
         \/ \E x \in Nodes : Opened(x) \/ Publish(x)
         \/ \E x, y \in Nodes : LinkStep(x, y) \/ DialFails(x, y)
         \/ \E s \in Streams, y \in Nodes : AcceptStep(s, y)
         \/ \E s \in Streams : Break(s)
         \/ UNCHANGED vars
  PROVE  IInv'
<1>1. ASSUME NEW x \in Nodes, Opened(x) PROVE IInv'
  <2>1. Save(x, rec[x]) /\ UNCHANGED <<removing, histVars>>
    BY <1>1 DEF Opened
  <2>2. CASE x = Owner
    BY <2>1, <2>2, SaveOwner, SameHistory DEF IInv, SameList
  <2>3. CASE x # Owner
    <3>1. x \in Members
      BY <2>3 DEF Nodes
    <3> QED
      BY <2>1, <3>1, SaveMember, SameHistory DEF IInv
  <2> QED
    BY <2>2, <2>3
<1>2. ASSUME UNCHANGED <<rec, disk, removing, histVars>> PROVE IInv'
  BY <1>2, SameHistory DEF IInv, SameList
<1>3. ASSUME NEW x \in Nodes, Publish(x) PROVE IInv'
  BY <1>2, <1>3 DEF Publish
<1>4. ASSUME NEW x \in Nodes, NEW y \in Nodes, LinkStep(x, y) \/ DialFails(x, y) PROVE IInv'
  BY <1>2, <1>4 DEF LinkStep, Dial, Reached, GetKey, Ended, HandshakeTimeout,
                    HeartbeatTimeout, DialFails
<1>5. ASSUME NEW s \in Streams, NEW y \in Nodes, AcceptStep(s, y) PROVE IInv'
  BY <1>2, <1>5 DEF AcceptStep, Refuse, Collide, Accept, AcceptFails, AcceptTimeout
<1>6. ASSUME NEW s \in Streams, Break(s) PROVE IInv'
  BY <1>2, <1>6 DEF Break
<1>7. ASSUME UNCHANGED vars PROVE IInv'
  BY <1>2, <1>7 DEF vars
<1> QED
  BY <1>1, <1>3, <1>4, <1>5, <1>6, <1>7

LEMMA StepIInv == IInv /\ [Next]_vars => IInv'
<1> SUFFICES ASSUME IInv, [Next]_vars PROVE IInv'
  OBVIOUS
<1> QED
  BY UserStep, RemoveDoneStep, GetProofStep, GetRosterStep, OtherStep DEF Next

(* Whom the owner has taken into the group stays in its file until removed,  *)
(* however many members there are, whatever is removed, renamed, closed and  *)
(* opened in between (redeem_group_invite_token, remove_group_member).       *)
THEOREM NobodyDropped == Spec => []NobodyIsDropped
<1>1. IInv => NobodyIsDropped
  BY DEF IInv
<1> QED
  BY <1>1, InitIInv, StepIInv, PTL DEF Spec
-----------------------------------------------------------------------------
(***************************************************************************)
(* Types, and who holds which end of a stream                              *)
(***************************************************************************)
Entries == [known: BOOLEAN, auth: BOOLEAN, stream: Streams \cup {0},
            dial: Streams \cup {0}, ready: BOOLEAN, stuck: BOOLEAN]

(* What a stream between two nodes looks like. *)
Stream(c) ==
  /\ c.caller \in Nodes /\ c.callee \in Nodes /\ c.caller # c.callee
  /\ c.ends \subseteq {c.caller, c.callee} /\ c.ends # {}
  /\ c.broken \in BOOLEAN
  /\ c.q \in [{c.caller, c.callee} -> Seq(Frames)]
  /\ c = [caller |-> c.caller, callee |-> c.callee, ends |-> c.ends,
          broken |-> c.broken, q |-> c.q]

AllStreams(cs) ==
  /\ cs = [s \in Streams |-> cs[s]]
  /\ \A s \in Streams : cs[s] = Idle \/ Stream(cs[s])

(* x has an end of the stream c, which it shares with y. *)
Claims(c, x, y) == {c.caller, c.callee} = {x, y} /\ x \in c.ends

(* The entry p of y at x fits the streams. *)
Entry(p, cs, x, y) ==
  /\ p \in Entries
  /\ p.dial = 0 \/ p.stream = 0
  /\ p.stuck => p.dial = 0 /\ p.stream = 0
  /\ p.ready => p.stream # 0
  /\ p.stream # 0 => Claims(cs[p.stream], x, y)
  /\ p.dial # 0 => Claims(cs[p.dial], x, y) /\ cs[p.dial].caller = x

LinksOK ==
  /\ peer \in [Nodes -> [Nodes -> Entries]]
  /\ AllStreams(conn)
  /\ \A x, y \in Nodes : Entry(peer[x][y], conn, x, y)

RecordsOK ==
  /\ up \in [Nodes -> {"closed", "opening", "open", "published"}]
  /\ rec \in [Nodes -> Records] /\ disk \in [Nodes -> Records]
  /\ invite \in [Tokens -> Roster \cup {None}]
  /\ removing = None \/ (removing.who \in Members /\ removing.rest \in Lists)
  /\ taken \subseteq Members /\ removed \subseteq Members /\ during \subseteq taken
  /\ astray \subseteq Tokens

TypeInv == LinksOK /\ RecordsOK

-----------------------------------------------------------------------------
(* One stream *)

(* What a change of a record is, field by field. *)
LEMMA Written ==
  ASSUME NEW c, NEW x, NEW v,
         c = [caller |-> c.caller, callee |-> c.callee, ends |-> c.ends,
              broken |-> c.broken, q |-> c.q]
  PROVE  [c EXCEPT !.q[x] = v] =
           [caller |-> c.caller, callee |-> c.callee, ends |-> c.ends,
            broken |-> c.broken, q |-> [c.q EXCEPT ![x] = v]]
OBVIOUS

LEMMA WrittenLeft ==
  ASSUME NEW c, NEW x, NEW v,
         c = [caller |-> c.caller, callee |-> c.callee, ends |-> c.ends,
              broken |-> c.broken, q |-> c.q]
  PROVE  [c EXCEPT !.ends = @ \ {x}, !.q[x] = v] =
           [caller |-> c.caller, callee |-> c.callee, ends |-> c.ends \ {x},
            broken |-> c.broken, q |-> [c.q EXCEPT ![x] = v]]
<1> DEFINE d == [c EXCEPT !.ends = @ \ {x}]
<1>1. d = [caller |-> c.caller, callee |-> c.callee, ends |-> c.ends \ {x},
           broken |-> c.broken, q |-> c.q]
  OBVIOUS
<1>2. [c EXCEPT !.ends = @ \ {x}, !.q[x] = v] = [d EXCEPT !.q[x] = v]
  OBVIOUS
<1> HIDE DEF d
<1>3. /\ d.caller = c.caller /\ d.callee = c.callee /\ d.ends = c.ends \ {x}
      /\ d.broken = c.broken /\ d.q = c.q
  BY <1>1
<1>4. [d EXCEPT !.q[x] = v] =
        [caller |-> d.caller, callee |-> d.callee, ends |-> d.ends,
         broken |-> d.broken, q |-> [d.q EXCEPT ![x] = v]]
  <2>1. d = [caller |-> d.caller, callee |-> d.callee, ends |-> d.ends,
             broken |-> d.broken, q |-> d.q]
    BY <1>1, <1>3
  <2> QED
    BY <2>1, Written
<1> QED
  BY <1>2, <1>3, <1>4

LEMMA WrittenEnds ==
  ASSUME NEW c, NEW e,
         c = [caller |-> c.caller, callee |-> c.callee, ends |-> c.ends,
              broken |-> c.broken, q |-> c.q]
  PROVE  [c EXCEPT !.ends = e] =
           [caller |-> c.caller, callee |-> c.callee, ends |-> e,
            broken |-> c.broken, q |-> c.q]
OBVIOUS

LEMMA WrittenBroken ==
  ASSUME NEW c, NEW b, NEW q,
         c = [caller |-> c.caller, callee |-> c.callee, ends |-> c.ends,
              broken |-> c.broken, q |-> c.q]
  PROVE  [c EXCEPT !.broken = b, !.q = q] =
           [caller |-> c.caller, callee |-> c.callee, ends |-> c.ends,
            broken |-> b, q |-> q]
<1> DEFINE d == [c EXCEPT !.broken = b]
<1>1. d = [caller |-> c.caller, callee |-> c.callee, ends |-> c.ends,
           broken |-> b, q |-> c.q]
  OBVIOUS
<1>2. [c EXCEPT !.broken = b, !.q = q] = [d EXCEPT !.q = q]
  OBVIOUS
<1> HIDE DEF d
<1> QED
  BY <1>1, <1>2

LEMMA CutStream ==
  ASSUME NEW c, Stream(c), NEW x
  PROVE  \/ c.ends \subseteq {x} /\ Cut(c, x) = Idle
         \/ /\ Stream(Cut(c, x)) /\ Cut(c, x).ends = c.ends \ {x}
            /\ Cut(c, x).caller = c.caller /\ Cut(c, x).callee = c.callee
<1> DEFINE rest == [c.q EXCEPT ![x] = <<>>]
           d == [c EXCEPT !.ends = @ \ {x}, !.q[x] = <<>>]
<1>1. CASE c.ends \subseteq {x}
  BY <1>1 DEF Cut
<1>2. CASE ~(c.ends \subseteq {x})
  <2>1. Cut(c, x) = d
    BY <1>2 DEF Cut
  <2>2. rest \in [{c.caller, c.callee} -> Seq(Frames)]
    <3>1. c.q \in [{c.caller, c.callee} -> Seq(Frames)]
      BY DEF Stream
    <3>2. <<>> \in Seq(Frames)
      OBVIOUS
    <3> QED
      BY <3>1, <3>2
  <2>3. d = [caller |-> c.caller, callee |-> c.callee, ends |-> c.ends \ {x},
             broken |-> c.broken, q |-> rest]
    BY WrittenLeft DEF Stream
  <2> HIDE DEF d, rest
  <2> QED
    BY <1>2, <2>1, <2>2, <2>3 DEF Stream
<1> QED
  BY <1>1, <1>2

LEMMA CutIdle ==
  ASSUME NEW x
  PROVE  Cut(Idle, x) = Idle
BY DEF Cut, Idle

(* What a write and a read leave of a stream. *)
SameEnds(c, d) == d.caller = c.caller /\ d.callee = c.callee /\ d.ends = c.ends

LEMMA PutStream ==
  ASSUME NEW c, Stream(c), NEW x, NEW f \in Frames
  PROVE  Stream(Put(c, x, f)) /\ SameEnds(c, Put(c, x, f))
<1> DEFINE y == IF c.caller = x THEN c.callee ELSE c.caller
           v == Append(c.q[y], f)
           more == [c.q EXCEPT ![y] = v]
           d == [c EXCEPT !.q[y] = v]
<1>1. CASE y \notin c.ends \/ c.broken
  BY <1>1 DEF Put, SameEnds
<1>2. CASE ~(y \notin c.ends \/ c.broken)
  <2>1. Put(c, x, f) = d
    BY <1>2 DEF Put
  <2>2. more \in [{c.caller, c.callee} -> Seq(Frames)]
    <3>1. y \in {c.caller, c.callee} /\ c.q[y] \in Seq(Frames)
      BY DEF Stream
    <3> HIDE DEF y
    <3>2. v \in Seq(Frames)
      BY <3>1
    <3> HIDE DEF v
    <3> QED
      BY <3>1, <3>2 DEF Stream
  <2>3. d = [caller |-> c.caller, callee |-> c.callee, ends |-> c.ends,
             broken |-> c.broken, q |-> more]
    <3> HIDE DEF v, y
    <3> QED
      BY Written DEF Stream
  <2> HIDE DEF d, more, v, y
  <2> QED
    BY <2>1, <2>2, <2>3 DEF Stream, SameEnds
<1> QED
  BY <1>1, <1>2

LEMMA PutIdle ==
  ASSUME NEW x, NEW f
  PROVE  Put(Idle, x, f) = Idle
BY DEF Put, Idle

LEMMA TakenStream ==
  ASSUME NEW c, Stream(c), NEW x \in {c.caller, c.callee}, c.q[x] # <<>>
  PROVE  Stream(Taken(c, x)) /\ SameEnds(c, Taken(c, x)) /\ Head(c.q[x]) \in Frames
<1> DEFINE v == Tail(c.q[x])
           less == [c.q EXCEPT ![x] = v]
           d == [c EXCEPT !.q[x] = v]
<1>1. Taken(c, x) = d
  BY DEF Taken
<1>2. c.q[x] \in Seq(Frames)
  BY DEF Stream
<1>3. v \in Seq(Frames) /\ Head(c.q[x]) \in Frames
  BY <1>2
<1> HIDE DEF v
<1>4. less \in [{c.caller, c.callee} -> Seq(Frames)]
  BY <1>3 DEF Stream
<1>5. d = [caller |-> c.caller, callee |-> c.callee, ends |-> c.ends,
           broken |-> c.broken, q |-> less]
  BY Written DEF Stream
<1> HIDE DEF d, less
<1> QED
  BY <1>1, <1>3, <1>4, <1>5 DEF Stream, SameEnds

(* An idle stream is nobody's. *)
LEMMA IdleUnclaimed ==
  /\ ~Stream(Idle)
  /\ \A x, y : ~Claims(Idle, x, y)
BY DEF Stream, Idle, Claims

-----------------------------------------------------------------------------
(* All streams: whoever had an end still has it, but for x and the streams S. *)
Evolve(cs, ds, x, S) ==
  /\ AllStreams(ds)
  /\ \A s \in Streams, z, y \in Nodes :
       Claims(cs[s], z, y) /\ ~(z = x /\ s \in S) =>
         Claims(ds[s], z, y) /\ ds[s].caller = cs[s].caller

LEMMA EvolveTwice ==
  ASSUME NEW a, NEW b, NEW c, NEW x, NEW S, Evolve(a, b, x, S), Evolve(b, c, x, S)
  PROVE  Evolve(a, c, x, S)
BY Zenon DEF Evolve

LEMMA EvolveNot ==
  ASSUME NEW cs, AllStreams(cs), NEW x, NEW S
  PROVE  Evolve(cs, cs, x, S)
BY DEF Evolve

LEMMA CutEvolve ==
  ASSUME NEW cs, AllStreams(cs), NEW x \in Nodes, NEW S
  PROVE  Evolve(cs, CutAll(cs, x, S), x, S)
<1> DEFINE ds == CutAll(cs, x, S)
<1>1. ds = [s \in Streams |-> IF s \in S THEN Cut(cs[s], x) ELSE cs[s]]
  BY DEF CutAll
<1>2. ASSUME NEW s \in Streams
      PROVE  /\ ds[s] = Idle \/ Stream(ds[s])
             /\ \A z, y \in Nodes : Claims(cs[s], z, y) /\ ~(z = x /\ s \in S) =>
                  Claims(ds[s], z, y) /\ ds[s].caller = cs[s].caller
  <2>1. cs[s] = Idle \/ Stream(cs[s])
    BY DEF AllStreams
  <2>2. CASE s \notin S
    BY <1>1, <2>1, <2>2
  <2>3. CASE s \in S
    <3>1. ds[s] = Cut(cs[s], x)
      BY <1>1, <2>3
    <3>2. CASE cs[s] = Idle
      BY <3>1, <3>2, CutIdle, IdleUnclaimed
    <3>3. CASE Stream(cs[s])
      BY <2>3, <3>1, <3>3, CutStream DEF Claims
    <3> QED
      BY <2>1, <3>2, <3>3
  <2> QED
    BY <2>2, <2>3
<1>3. ds = [s \in Streams |-> ds[s]]
  BY <1>1
<1> HIDE DEF ds
<1>4. AllStreams(ds)
  BY <1>2, <1>3 DEF AllStreams
<1>5. Evolve(cs, ds, x, S)
  BY <1>2, <1>4 DEF Evolve
<1> QED
  BY <1>5 DEF ds

(* One stream is written to, read from, or taken up. *)
LEMMA OneEvolves ==
  ASSUME NEW cs, AllStreams(cs), NEW s \in Streams, NEW d, Stream(d) \/ d = Idle,
         \A z, y \in Nodes : Claims(cs[s], z, y) =>
           Claims(d, z, y) /\ d.caller = cs[s].caller,
         NEW x, NEW S
  PROVE  Evolve(cs, [cs EXCEPT ![s] = d], x, S)
<1> DEFINE ds == [cs EXCEPT ![s] = d]
<1>1. ds = [t \in Streams |-> IF t = s THEN d ELSE cs[t]]
  BY DEF AllStreams
<1>2. \A t \in Streams : ds[t] = IF t = s THEN d ELSE cs[t]
  BY <1>1
<1>3. ds = [t \in Streams |-> ds[t]]
  BY <1>1
<1> HIDE DEF ds
<1>4. AllStreams(ds)
  BY <1>2, <1>3 DEF AllStreams
<1>5. ASSUME NEW t \in Streams, NEW z \in Nodes, NEW y \in Nodes, Claims(cs[t], z, y)
      PROVE  Claims(ds[t], z, y) /\ ds[t].caller = cs[t].caller
  BY <1>2, <1>5
<1> QED
  BY <1>4, <1>5 DEF Evolve, ds

LEMMA PutEvolves ==
  ASSUME NEW cs, AllStreams(cs), NEW s \in Streams, NEW who, NEW f \in Frames,
         NEW x, NEW S
  PROVE  Evolve(cs, [cs EXCEPT ![s] = Put(@, who, f)], x, S)
<1> DEFINE d == Put(cs[s], who, f)
<1>1. \/ cs[s] = Idle /\ d = Idle
      \/ Stream(d) /\ SameEnds(cs[s], d)
  BY PutStream, PutIdle DEF AllStreams
<1>2. [cs EXCEPT ![s] = Put(@, who, f)] = [cs EXCEPT ![s] = d]
  OBVIOUS
<1> HIDE DEF d
<1>3. \A z, y \in Nodes : Claims(cs[s], z, y) => Claims(d, z, y) /\ d.caller = cs[s].caller
  BY <1>1 DEF Claims, SameEnds
<1>4. Stream(d) \/ d = Idle
  BY <1>1
<1> QED
  BY <1>2, <1>3, <1>4, OneEvolves

(* A frame is read. *)
LEMMA TakenEvolves ==
  ASSUME NEW cs, AllStreams(cs), NEW s \in Streams, NEW who \in Nodes, NEW other \in Nodes,
         Claims(cs[s], who, other), cs[s].q[who] # <<>>, NEW x, NEW S
  PROVE  /\ Evolve(cs, [cs EXCEPT ![s] = Taken(@, who)], x, S)
         /\ Head(cs[s].q[who]) \in Frames
<1> DEFINE d == Taken(cs[s], who)
<1>1. Stream(cs[s]) /\ who \in {cs[s].caller, cs[s].callee}
  BY IdleUnclaimed DEF AllStreams, Claims
<1>2. Stream(d) /\ SameEnds(cs[s], d) /\ Head(cs[s].q[who]) \in Frames
  BY <1>1, TakenStream
<1>3. [cs EXCEPT ![s] = Taken(@, who)] = [cs EXCEPT ![s] = d]
  OBVIOUS
<1> HIDE DEF d
<1>4. \A z, y \in Nodes : Claims(cs[s], z, y) => Claims(d, z, y) /\ d.caller = cs[s].caller
  BY <1>2 DEF Claims, SameEnds
<1> QED
  BY <1>2, <1>3, <1>4, OneEvolves

(* A frame is written to some of the streams. *)
LEMMA ManyEvolve ==
  ASSUME NEW cs, AllStreams(cs), NEW ds, NEW who, NEW f \in Frames,
         ds = [s \in Streams |-> ds[s]],
         \A s \in Streams : ds[s] \in {cs[s], Put(cs[s], who, f)},
         NEW x, NEW S
  PROVE  Evolve(cs, ds, x, S)
<1>1. ASSUME NEW s \in Streams
      PROVE  /\ ds[s] = Idle \/ Stream(ds[s])
             /\ \A z, y \in Nodes : Claims(cs[s], z, y) =>
                  Claims(ds[s], z, y) /\ ds[s].caller = cs[s].caller
  <2>1. cs[s] = Idle \/ Stream(cs[s])
    BY DEF AllStreams
  <2>2. ds[s] = cs[s] \/ ds[s] = Put(cs[s], who, f)
    OBVIOUS
  <2>3. CASE ds[s] = cs[s]
    BY <2>1, <2>3
  <2>4. CASE ds[s] = Put(cs[s], who, f) /\ cs[s] = Idle
    BY <2>4, PutIdle, IdleUnclaimed
  <2>5. CASE ds[s] = Put(cs[s], who, f) /\ Stream(cs[s])
    BY <2>5, PutStream DEF SameEnds, Claims
  <2> QED
    BY <2>1, <2>2, <2>3, <2>4, <2>5
<1> QED
  BY <1>1 DEF Evolve, AllStreams

-----------------------------------------------------------------------------
(* Records, rosters and frames *)

LEMMA ListedTyped ==
  ASSUME NEW names \in Lists, NEW x \in Nodes, NEW name \in 0..1
  PROVE  Listed(names, x, name) \in Lists
<1>1. PICK S \in SUBSET Nodes : names \in [S -> 0..1]
  BY DEF Lists
<1>2. Listed(names, x, name) \in [S \cup {x} -> 0..1]
  BY <1>1 DEF Listed
<1>3. S \cup {x} \in SUBSET Nodes
  OBVIOUS
<1> QED
  BY <1>2, <1>3 DEF Lists

LEMMA RestrictTyped ==
  ASSUME NEW names \in Lists, NEW S
  PROVE  Restrict(names, DOMAIN names \ S) \in Lists
<1>1. PICK T \in SUBSET Nodes : names \in [T -> 0..1]
  BY DEF Lists
<1>2. Restrict(names, DOMAIN names \ S) \in [T \ S -> 0..1]
  BY <1>1 DEF Restrict
<1>3. T \ S \in SUBSET Nodes
  OBVIOUS
<1> QED
  BY <1>2, <1>3 DEF Lists

LEMMA EmptyList == <<>> \in Lists
<1>1. <<>> \in [{} -> 0..1]
  OBVIOUS
<1>2. {} \in SUBSET Nodes
  OBVIOUS
<1> QED
  BY <1>1, <1>2 DEF Lists

LEMMA NoRecordTyped == NoRecord \in Records
BY EmptyList DEF NoRecord, Records

LEMMA IssuedTyped ==
  ASSUME NEW r \in Records, NEW t \in Tokens
  PROVE  Issued(r, t) \in Records
<1> DEFINE book == [r.book EXCEPT ![t] = "issued"]
<1>1. r.book \in [Tokens -> Members \cup {"issued", None}]
  BY DEF Records
<1>2. book \in [Tokens -> Members \cup {"issued", None}]
  BY <1>1
<1>3. Issued(r, t) = [r EXCEPT !.book = book]
  BY DEF Issued, Records
<1> HIDE DEF book
<1> QED
  BY <1>2, <1>3 DEF Records

LEMMA RedeemedTyped ==
  ASSUME NEW r \in Records, NEW t \in Tokens, NEW x \in Members, NEW name \in 0..1
  PROVE  Redeemed(r, t, x, name) \in Records
<1> DEFINE book == [r.book EXCEPT ![t] = x]
           changed == x \notin DOMAIN r.names \/ r.names[x] # name
           version == IF changed THEN r.version + 1 ELSE r.version
           names == Listed(r.names, x, name)
<1>1. /\ r.book \in [Tokens -> Members \cup {"issued", None}]
      /\ r.names \in Lists /\ r.version \in Nat
  BY DEF Records
<1>2. book \in [Tokens -> Members \cup {"issued", None}]
  BY <1>1
<1>3. names \in Lists
  BY <1>1, ListedTyped DEF Nodes
<1>4. version \in Nat
  BY <1>1
<1>5. Redeemed(r, t, x, name) = [r EXCEPT !.book = book, !.names = names, !.version = version]
  BY DEF Redeemed, Records
<1> HIDE DEF book, names, version
<1> QED
  BY <1>2, <1>3, <1>4, <1>5 DEF Records

LEMMA MergedTyped ==
  ASSUME NEW r \in Records, NEW roster \in Roster, NEW x
  PROVE  Merged(r, roster, x) \in Records
<1> DEFINE listed == x \in DOMAIN roster.names
           names == IF listed THEN Restrict(roster.names, DOMAIN roster.names \ {x}) ELSE <<>>
           token == IF listed THEN r.token ELSE None
<1>1. /\ roster.names \in Lists /\ roster.version \in Nat
      /\ r.token \in Tokens \cup {None}
  BY DEF Records, Roster
<1>2. names \in Lists /\ token \in Tokens \cup {None}
  BY <1>1, RestrictTyped, EmptyList
<1>3. \/ Merged(r, roster, x) = r
      \/ Merged(r, roster, x) =
           [r EXCEPT !.version = roster.version, !.names = names, !.token = token]
  BY DEF Merged
<1> HIDE DEF names, token
<1> QED
  BY <1>1, <1>2, <1>3 DEF Records

LEMMA RenamedTyped ==
  ASSUME NEW r \in Records, NEW x
  PROVE  [r EXCEPT !.mine = 1, !.names[x] = 1] \in Records
<1> DEFINE names == [r.names EXCEPT ![x] = 1]
<1>1. PICK S \in SUBSET Nodes : r.names \in [S -> 0..1]
  BY DEF Records, Lists
<1>2. names = [z \in S |-> IF z = x THEN 1 ELSE r.names[z]]
  BY <1>1
<1>3. \A z \in S : (IF z = x THEN 1 ELSE r.names[z]) \in 0..1
  BY <1>1
<1>4. names \in [S -> 0..1]
  BY <1>2, <1>3
<1>5. names \in Lists
  BY <1>4 DEF Lists
<1> DEFINE d == [r EXCEPT !.mine = 1]
<1>6. d \in Records /\ d.names = r.names
  BY DEF Records
<1>7. [r EXCEPT !.mine = 1, !.names[x] = 1] = [d EXCEPT !.names[x] = 1]
  OBVIOUS
<1> HIDE DEF d
<1>8. [d EXCEPT !.names[x] = 1] = [d EXCEPT !.names = names]
  BY <1>6
<1> HIDE DEF names
<1> QED
  BY <1>5, <1>6, <1>7, <1>8 DEF Records

LEMMA ShortenedTyped ==
  ASSUME NEW r \in Records, NEW rest \in Lists, NEW x \in Nodes
  PROVE  [r EXCEPT !.names = Listed(rest, x, r.mine), !.version = @ + 1] \in Records
<1> DEFINE names == Listed(rest, x, r.mine)
           version == r.version + 1
<1>1. names \in Lists /\ version \in Nat
  BY ListedTyped DEF Records
<1> HIDE DEF names, version
<1>2. [r EXCEPT !.names = names, !.version = version] \in Records
  BY <1>1 DEF Records
<1> QED
  BY <1>2 DEF names, version

LEMMA InvitedTyped ==
  ASSUME NEW t \in Tokens, invite[t] \in Roster
  PROVE  Invited(t) \in Records
BY NoRecordTyped DEF Invited, Records, Roster

LEMMA RosterOfTyped ==
  ASSUME NEW r \in Records
  PROVE  RosterOf(r) \in Roster
BY DEF RosterOf, Roster, Records

LEMMA KeyTyped == [type |-> "key"] \in Frames
BY DEF Frames

LEMMA SyncTyped ==
  ASSUME NEW r \in Records
  PROVE  Sync(r) \in Frames
BY RosterOfTyped DEF Sync, Frames

LEMMA ProofTyped ==
  ASSUME NEW r \in Records, r.token # None
  PROVE  Proof(r) \in Frames
BY DEF Proof, Frames, Records

(* What a frame of each type carries. *)
LEMMA FrameOfType ==
  ASSUME NEW f \in Frames
  PROVE  /\ f.type = "roster" => f.roster \in Roster
         /\ f.type = "proof" => f.token \in Tokens /\ f.name \in 0..1
BY DEF Frames

LEMMA SyncEvolves ==
  ASSUME NEW cs, AllStreams(cs), NEW row, NEW r \in Records, NEW x, NEW S
  PROVE  Evolve(cs, SyncAll(cs, row, r), x, S)
<1> DEFINE f == Sync(r)
           ds == SyncAll(cs, row, r)
<1>1. f \in Frames
  BY SyncTyped
<1>2. ds = [s \in Streams |->
              IF \E y \in Nodes : row[y].stream = s /\ row[y].ready /\ row[y].auth
              THEN Put(cs[s], Owner, f) ELSE cs[s]]
  BY DEF SyncAll
<1> HIDE DEF f
<1>3. ds = [s \in Streams |-> ds[s]]
  BY <1>2
<1>4. \A s \in Streams : ds[s] \in {cs[s], Put(cs[s], Owner, f)}
  BY <1>2
<1> HIDE DEF ds
<1>5. Evolve(cs, ds, x, S)
  BY <1>1, <1>3, <1>4, ManyEvolve
<1> QED
  BY <1>5 DEF ds

LEMMA ProofEvolves ==
  ASSUME NEW cs, AllStreams(cs), NEW row, NEW r \in Records, NEW who, NEW x, NEW S
  PROVE  Evolve(cs, SendProof(cs, row, r, who), x, S)
<1> DEFINE f == Proof(r)
           ds == SendProof(cs, row, r, who)
<1>1. ds = [s \in Streams |->
              IF row[Owner].stream = s /\ row[Owner].ready /\ r.token # None
              THEN Put(cs[s], who, f) ELSE cs[s]]
  BY DEF SendProof
<1>2. ds = [s \in Streams |-> ds[s]]
  BY <1>1
<1>3. CASE r.token # None
  <2>1. f \in Frames
    BY <1>3, ProofTyped
  <2>2. \A s \in Streams : ds[s] \in {cs[s], Put(cs[s], who, f)}
    BY <1>1
  <2> HIDE DEF f, ds
  <2>3. Evolve(cs, ds, x, S)
    BY <1>2, <2>1, <2>2, ManyEvolve
  <2> QED
    BY <2>3 DEF ds
<1>4. CASE r.token = None
  <2>1. \A s \in Streams : ds[s] = cs[s]
    BY <1>1, <1>4
  <2> HIDE DEF ds
  <2>2. ds = cs
    BY <1>2, <2>1 DEF AllStreams
  <2>3. Evolve(cs, ds, x, S)
    BY <2>2, EvolveNot
  <2> QED
    BY <2>3 DEF ds
<1> QED
  BY <1>3, <1>4

(* A nonempty set of natural numbers has a least member, and Min is it. *)
LEMMA MinOfNat ==
  ASSUME NEW T \in SUBSET Nat, T # {}
  PROVE  Min(T) \in T
<1> DEFINE R == OpToRel(<, Nat)
<1>1. IsWellFoundedOn(R, Nat)
  BY NatLessThanWellFounded
<1>2. \A x, y \in Nat : y < x => <<y, x>> \in R
  BY Zenon DEF OpToRel
<1> HIDE DEF R
<1>3. PICK x \in T : \A y \in T : ~ (<<y, x>> \in R)
  BY <1>1, WFMin
<1>4. \A y \in T : x <= y
  <2>1. x \in Nat /\ \A y \in T : y \in Nat
    OBVIOUS
  <2>2. \A y \in T : ~ (y < x)
    BY <1>2, <1>3, <2>1, Zenon
  <2> QED
    BY <2>1, <2>2
<1> QED
  BY <1>4, Zenon DEF Min

LEMMA NextTokenTyped == SomeTokenLeft => NextToken \in Tokens
<1> DEFINE T == {t \in Tokens : invite[t] = None}
<1>1. T \subseteq Tokens /\ T \subseteq Nat
  BY GroupsAssumption DEF Tokens
<1>2. SomeTokenLeft => T # {}
  BY DEF SomeTokenLeft
<1>3. NextToken = Min(T)
  BY DEF NextToken
<1> HIDE DEF T
<1> QED
  BY <1>1, <1>2, <1>3, MinOfNat

LEMMA FreeTyped == Free # {} => Min(Free) \in Streams /\ conn[Min(Free)] = Idle
<1>1. Free \subseteq Streams /\ Free \subseteq Nat
  BY GroupsAssumption DEF Free, Streams
<1>2. Free # {} => Min(Free) \in Free
  BY <1>1, MinOfNat
<1> QED
  BY <1>2 DEF Free

-----------------------------------------------------------------------------
(* Entries and streams together *)

(* Streams at different entries of x are different. *)
LEMMA OwnStreams ==
  ASSUME LinksOK, NEW x \in Nodes, NEW y \in Nodes, NEW z \in Nodes, y # z,
         NEW s \in {peer[x][y].stream, peer[x][y].dial}, s # 0
  PROVE  s # peer[x][z].stream /\ s # peer[x][z].dial
<1>1. Entry(peer[x][y], conn, x, y) /\ Entry(peer[x][z], conn, x, z)
  BY DEF LinksOK
<1>2. Claims(conn[s], x, y)
  BY <1>1 DEF Entry
<1>3. ~Claims(conn[s], x, z)
  <2>1. CASE x = y
    BY <1>2, <2>1 DEF Claims
  <2>2. CASE x # y
    BY <1>2, <2>2 DEF Claims
  <2> QED
    BY <2>1, <2>2
<1> QED
  BY <1>1, <1>3 DEF Entry

(* An entry fits as long as its stream is not among those x gives up. *)
LEMMA EntryStays ==
  ASSUME NEW p, NEW x \in Nodes, NEW y \in Nodes, NEW z \in Nodes, NEW cs, NEW ds,
         NEW S, Entry(p, cs, z, y), Evolve(cs, ds, x, S),
         z = x => p.stream \notin S \ {0} /\ p.dial \notin S \ {0}
  PROVE  Entry(p, ds, z, y)
<1>1. p.stream # 0 => p.stream \in Streams
  BY DEF Entry, Entries
<1>2. p.dial # 0 => p.dial \in Streams
  BY DEF Entry, Entries
<1> QED
  BY <1>1, <1>2 DEF Entry, Evolve

LEMMA EntryWithout ==
  ASSUME NEW p \in Entries, p.stream = 0, p.dial = 0, ~p.ready, NEW cs, NEW x, NEW y
  PROVE  Entry(p, cs, x, y)
BY DEF Entry

(* x changes its entries. *)
LEMMA RowStep ==
  ASSUME LinksOK, NEW x \in Nodes, NEW row, peer' = [peer EXCEPT ![x] = row],
         row = [y \in Nodes |-> row[y]],
         NEW S, Evolve(conn, conn', x, S),
         \A y \in Nodes : Entry(row[y], conn', x, y)
  PROVE  LinksOK'
<1>1. row \in [Nodes -> Entries]
  BY DEF Entry
<1>2. peer' \in [Nodes -> [Nodes -> Entries]]
  BY <1>1 DEF LinksOK
<1>3. AllStreams(conn')
  BY DEF Evolve
<1>4. ASSUME NEW z \in Nodes, NEW y \in Nodes
      PROVE  Entry(peer'[z][y], conn', z, y)
  <2>1. CASE z = x
    <3>1. peer'[z] = row
      BY <2>1 DEF LinksOK
    <3> QED
      BY <2>1, <3>1
  <2>2. CASE z # x
    <3>1. peer'[z][y] = peer[z][y] /\ Entry(peer[z][y], conn, z, y)
      BY <2>2 DEF LinksOK
    <3> QED
      BY <2>2, <3>1, EntryStays
  <2> QED
    BY <2>1, <2>2
<1> QED
  BY <1>2, <1>3, <1>4 DEF LinksOK

(* x changes one entry. *)
LEMMA EntryStep ==
  ASSUME LinksOK, NEW x \in Nodes, NEW y \in Nodes, NEW p,
         peer' = [peer EXCEPT ![x][y] = p],
         NEW S, Evolve(conn, conn', x, S), Entry(p, conn', x, y),
         \A z \in Nodes \ {y} : peer[x][z].stream \notin S \ {0} /\ peer[x][z].dial \notin S \ {0}
  PROVE  LinksOK'
<1> DEFINE row == [peer[x] EXCEPT ![y] = p]
<1>1. peer[x] \in [Nodes -> Entries]
  BY DEF LinksOK
<1>2. peer' = [peer EXCEPT ![x] = row]
  BY DEF LinksOK
<1>3. row = [z \in Nodes |-> row[z]] /\ row[y] = p
  BY <1>1
<1>4. \A z \in Nodes \ {y} : row[z] = peer[x][z]
  BY <1>1
<1> HIDE DEF row
<1>5. ASSUME NEW z \in Nodes \ {y} PROVE Entry(row[z], conn', x, z)
  <2>1. Entry(peer[x][z], conn, x, z)
    BY DEF LinksOK
  <2> QED
    BY <1>4, <2>1, EntryStays
<1>6. \A z \in Nodes : Entry(row[z], conn', x, z)
  BY <1>3, <1>5
<1> QED
  BY <1>2, <1>3, <1>6, RowStep

(* Only streams change that x has no entry for. *)
LEMMA StreamStep ==
  ASSUME LinksOK, NEW x \in Nodes, NEW S, Evolve(conn, conn', x, S), UNCHANGED peer,
         \A z \in Nodes : peer[x][z].stream \notin S \ {0} /\ peer[x][z].dial \notin S \ {0}
  PROVE  LinksOK'
<1>1. ASSUME NEW z \in Nodes, NEW y \in Nodes PROVE Entry(peer[z][y], conn', z, y)
  <2>1. Entry(peer[z][y], conn, z, y)
    BY DEF LinksOK
  <2> QED
    BY <2>1, EntryStays
<1>2. AllStreams(conn')
  BY DEF Evolve
<1> QED
  BY <1>1, <1>2 DEF LinksOK

(* An entry of x is left without its stream, which is closed. *)
LEMMA DropStep ==
  ASSUME LinksOK, NEW x \in Nodes, NEW y \in Nodes, NEW p \in Entries,
         p.stream = 0, p.dial = 0, ~p.ready,
         peer' = [peer EXCEPT ![x][y] = p],
         NEW S \in SUBSET {peer[x][y].stream, peer[x][y].dial},
         Evolve(conn, conn', x, S)
  PROVE  LinksOK'
<1>1. Entry(p, conn', x, y)
  BY EntryWithout
<1>2. ASSUME NEW z \in Nodes \ {y}
      PROVE  peer[x][z].stream \notin S \ {0} /\ peer[x][z].dial \notin S \ {0}
  <2>1. ASSUME NEW s \in S \ {0} PROVE s # peer[x][z].stream /\ s # peer[x][z].dial
    BY OwnStreams
  <2> QED
    BY <2>1
<1> QED
  BY <1>1, <1>2, EntryStep

LEMMA LostTyped ==
  ASSUME NEW p \in Entries
  PROVE  Lost(p) \in Entries /\ Lost(p).stream = 0 /\ Lost(p).dial = 0 /\ ~Lost(p).ready
BY DEF Lost, Entries

LEMMA NoPeerTyped ==
  NoPeer \in Entries /\ NoPeer.stream = 0 /\ NoPeer.dial = 0 /\ ~NoPeer.ready
BY DEF NoPeer, Entries

(* Who is not listed any more is forgotten, with its stream. *)
LEMMA ReconcileStep ==
  ASSUME LinksOK, NEW x \in Nodes, NEW names,
         peer' = [peer EXCEPT ![x] = Reconciled(x, peer[x], names)],
         Evolve(conn, conn', x, Unlisted(x, peer[x], names))
  PROVE  LinksOK'
<1> DEFINE row == Reconciled(x, peer[x], names)
           S == Unlisted(x, peer[x], names)
<1>1. row = [y \in Nodes |-> row[y]]
  BY DEF Reconciled
<1>2. ASSUME NEW y \in Nodes PROVE Entry(row[y], conn', x, y)
  <2>1. Entry(peer[x][y], conn, x, y)
    BY DEF LinksOK
  <2>2. CASE y \in DOMAIN names \ {x} \/ ~peer[x][y].auth
    <3>1. ASSUME NEW s \in {peer[x][y].stream, peer[x][y].dial}, s # 0, s \in S
          PROVE  FALSE
      <4>1. PICK z \in Nodes \ DOMAIN names :
                   peer[x][z].auth /\ s \in {peer[x][z].stream, peer[x][z].dial}
        BY <3>1 DEF Unlisted
      <4>2. y # z
        BY <2>2, <4>1
      <4> QED
        BY <3>1, <4>1, <4>2, OwnStreams
    <3>2. Entry(peer[x][y], conn', x, y)
      BY <2>1, <3>1, EntryStays
    <3>3. row[y] \in {peer[x][y], [peer[x][y] EXCEPT !.known = TRUE, !.auth = TRUE]}
      BY <2>2 DEF Reconciled
    <3> QED
      BY <3>2, <3>3 DEF Entry, Entries
  <2>3. CASE ~(y \in DOMAIN names \ {x} \/ ~peer[x][y].auth)
    <3>1. row[y] = NoPeer
      BY <2>3 DEF Reconciled
    <3> QED
      BY <3>1, NoPeerTyped, EntryWithout
  <2> QED
    BY <2>2, <2>3
<1> HIDE DEF row, S
<1>3. peer' = [peer EXCEPT ![x] = row] /\ Evolve(conn, conn', x, S)
  BY DEF row, S
<1> QED
  BY <1>1, <1>2, <1>3, RowStep

-----------------------------------------------------------------------------
(* The links, step by step *)

LEMMA UserLinks ==
  ASSUME TypeInv, User \/ \E x \in Nodes : Opened(x) \/ Publish(x)
  PROVE  LinksOK'
<1>0. LinksOK /\ RecordsOK /\ AllStreams(conn)
  BY DEF TypeInv, LinksOK
<1>1. ASSUME UNCHANGED <<peer, conn>> PROVE LinksOK'
  <2>1. Evolve(conn, conn', Owner, {})
    BY <1>0, <1>1, EvolveNot
  <2>2. Owner \in Nodes
    BY DEF Nodes
  <2> QED
    BY <1>0, <1>1, <2>1, <2>2, StreamStep
<1>2. ASSUME Issue \/ IssueElsewhere \/ (\E x \in Members, t \in Tokens : Join(x, t))
             \/ \E x \in Nodes : Open(x) \/ Opened(x)
      PROVE  LinksOK'
  BY <1>1, <1>2 DEF Issue, IssueElsewhere, Join, Open, Opened
<1>3. ASSUME NEW x \in Nodes, Publish(x) PROVE LinksOK'
  <2> DEFINE names == rec[x].names
  <2>1. /\ peer' = [peer EXCEPT ![x] = Reconciled(x, peer[x], names)]
        /\ conn' = CutAll(conn, x, Unlisted(x, peer[x], names))
    BY <1>3 DEF Publish
  <2> HIDE DEF names
  <2> QED
    BY <1>0, <2>1, CutEvolve, ReconcileStep
<1>4. ASSUME NEW x \in Nodes, Leave(x) PROVE LinksOK'
  <2> DEFINE row == [y \in Nodes |-> NoPeer]
             S == {s \in Streams : x \in conn[s].ends}
  <2>1. peer' = [peer EXCEPT ![x] = row] /\ conn' = CutAll(conn, x, S)
    BY <1>4 DEF Leave
  <2>2. \A y \in Nodes : Entry(row[y], conn', x, y)
    BY NoPeerTyped, EntryWithout
  <2>3. row = [y \in Nodes |-> row[y]]
    OBVIOUS
  <2> HIDE DEF row, S
  <2> QED
    BY <1>0, <2>1, <2>2, <2>3, CutEvolve, RowStep
<1>5. ASSUME NEW x \in Nodes, Rename(x) PROVE LinksOK'
  <2>1. rec[x] \in Records /\ UNCHANGED peer
    BY <1>0, <1>5 DEF Rename, RecordsOK
  <2>2. CASE x = Owner
    <3> DEFINE r == [rec[x] EXCEPT !.mine = 1, !.names[x] = 1]
    <3>1. conn' = SyncAll(conn, peer[x], r)
      BY <1>5, <2>2 DEF Rename
    <3>2. r \in Records
      BY <2>1, RenamedTyped
    <3> HIDE DEF r
    <3>3. Evolve(conn, conn', x, {})
      BY <1>0, <3>1, <3>2, SyncEvolves
    <3> QED
      BY <1>0, <2>1, <3>3, StreamStep
  <2>3. CASE x # Owner
    <3> DEFINE r == [rec[x] EXCEPT !.mine = 1]
    <3>1. conn' = SendProof(conn, peer[x], r, x)
      BY <1>5, <2>3 DEF Rename
    <3>2. r \in Records
      BY <2>1 DEF Records
    <3> HIDE DEF r
    <3>3. Evolve(conn, conn', x, {})
      BY <1>0, <3>1, <3>2, ProofEvolves
    <3> QED
      BY <1>0, <2>1, <3>3, StreamStep
  <2> QED
    BY <2>2, <2>3
<1>6. ASSUME NEW x \in Members, Remove(x) PROVE LinksOK'
  <2> DEFINE S == {peer[Owner][x].stream, peer[Owner][x].dial}
             p == Lost(peer[Owner][x])
  <2>1. /\ peer' = [peer EXCEPT ![Owner][x] = p] /\ conn' = CutAll(conn, Owner, S)
        /\ Owner \in Nodes /\ x \in Nodes
    BY <1>6 DEF Remove, Nodes
  <2>2. p \in Entries /\ p.stream = 0 /\ p.dial = 0 /\ ~p.ready
    BY <1>0, <2>1, LostTyped DEF LinksOK
  <2>3. Evolve(conn, conn', Owner, S)
    BY <1>0, <2>1, CutEvolve
  <2> HIDE DEF p
  <2> QED
    BY <1>0, <2>1, <2>2, <2>3, DropStep
<1> QED
  BY <1>2, <1>3, <1>4, <1>5, <1>6 DEF User

LEMMA RemoveDoneLinks ==
  ASSUME TypeInv, RemoveDone
  PROVE  LinksOK'
<1> DEFINE x == removing.who
           S == {peer[Owner][x].stream, peer[Owner][x].dial}
           cs == CutAll(conn, Owner, S)
           r == [rec[Owner] EXCEPT !.names = Listed(removing.rest, Owner, rec[Owner].mine),
                                   !.version = @ + 1]
           row == [peer[Owner] EXCEPT ![x] = NoPeer]
<1>1. /\ removing # None /\ peer' = [peer EXCEPT ![Owner] = row]
      /\ conn' = SyncAll(cs, row, r)
  BY DEF RemoveDone
<1>2. LinksOK /\ AllStreams(conn) /\ Owner \in Nodes /\ x \in Nodes
  BY <1>1 DEF TypeInv, LinksOK, RecordsOK, Nodes
<1>3. r \in Records
  BY <1>1, ShortenedTyped DEF TypeInv, RecordsOK, Nodes
<1>4. peer' = [peer EXCEPT ![Owner][x] = NoPeer]
  BY <1>1, <1>2 DEF LinksOK
<1>5. Evolve(conn, cs, Owner, S)
  BY <1>2, CutEvolve
<1>6. Evolve(conn, conn', Owner, S)
  <2> HIDE DEF cs, r, row, S
  <2>0. AllStreams(cs)
    BY <1>5 DEF Evolve
  <2>1. Evolve(cs, conn', Owner, S)
    BY <1>1, <1>3, <2>0, SyncEvolves
  <2> QED
    BY <1>5, <2>1, EvolveTwice
<1> QED
  BY <1>2, <1>4, <1>6, NoPeerTyped, DropStep

(* A dial, and its end. *)
LEMMA DialLinks ==
  ASSUME LinksOK, NEW x \in Nodes, NEW y \in Nodes, Dial(x, y)
  PROVE  LinksOK'
<1> DEFINE s == Min(Free)
           c == [caller |-> x, callee |-> y, ends |-> {x}, broken |-> FALSE,
                 q |-> [z \in {x, y} |-> <<>>]]
           p == [peer[x][y] EXCEPT !.dial = s, !.known = TRUE, !.auth = TRUE]
<1>1. /\ x # y /\ peer[x][y].stream = 0 /\ ~peer[x][y].stuck /\ Free # {}
      /\ peer' = [peer EXCEPT ![x][y].dial = s, ![x][y].known = TRUE, ![x][y].auth = TRUE]
      /\ conn' = [conn EXCEPT ![s] = c]
  BY DEF Dial
<1>2. s \in Streams /\ conn[s] = Idle /\ AllStreams(conn)
  BY <1>1, FreeTyped DEF LinksOK
<1>3. Entry(peer[x][y], conn, x, y)
  BY DEF LinksOK
<1>4. peer' = [peer EXCEPT ![x][y] = p]
  BY <1>1 DEF LinksOK
<1>5. Stream(c)
  <2>1. <<>> \in Seq(Frames)
    OBVIOUS
  <2>2. [z \in {x, y} |-> <<>>] \in [{x, y} -> Seq(Frames)]
    BY <2>1
  <2> QED
    BY <1>1, <2>2 DEF Stream
<1>6. Claims(c, x, y) /\ c.caller = x
  BY DEF Claims
<1>7. p \in Entries /\ p.dial = s /\ p.stream = 0 /\ ~p.stuck /\ p.ready = peer[x][y].ready
  BY <1>1, <1>2, <1>3 DEF Entry, Entries
<1> HIDE DEF c, p, s
<1>8. Evolve(conn, conn', x, {})
  BY <1>1, <1>2, <1>5, OneEvolves, IdleUnclaimed
<1>9. conn'[s] = c
  BY <1>1, <1>2 DEF AllStreams
<1>10. Entry(p, conn', x, y)
  BY <1>1, <1>3, <1>6, <1>7, <1>9 DEF Entry
<1> QED
  BY <1>4, <1>8, <1>10, EntryStep

LEMMA ReachedLinks ==
  ASSUME LinksOK, NEW x \in Nodes, NEW y \in Nodes, Reached(x, y)
  PROVE  LinksOK'
<1> DEFINE s == peer[x][y].dial
           c == [conn[s] EXCEPT !.ends = {x, y}]
           d == Put(c, x, [type |-> "key"])
           p == [peer[x][y] EXCEPT !.stream = s, !.dial = 0, !.ready = FALSE]
<1>1. /\ s # 0 /\ conn' = [conn EXCEPT ![s] = d]
      /\ peer' = [peer EXCEPT ![x][y].stream = s, ![x][y].dial = 0, ![x][y].ready = FALSE]
  BY DEF Reached
<1>2. AllStreams(conn) /\ Entry(peer[x][y], conn, x, y)
  BY DEF LinksOK
<1>3. s \in Streams /\ Claims(conn[s], x, y)
  BY <1>1, <1>2 DEF Entry, Entries
<1>4. Stream(conn[s])
  BY <1>2, <1>3, IdleUnclaimed DEF AllStreams
<1>5. Stream(c) /\ c.caller = conn[s].caller /\ c.callee = conn[s].callee /\ c.ends = {x, y}
  <2>1. c = [caller |-> conn[s].caller, callee |-> conn[s].callee, ends |-> {x, y},
             broken |-> conn[s].broken, q |-> conn[s].q]
    BY <1>4, WrittenEnds DEF Stream
  <2> HIDE DEF c
  <2> QED
    BY <1>3, <1>4, <2>1 DEF Stream, Claims
<1>6. Stream(d) /\ SameEnds(c, d)
  BY <1>5, PutStream, KeyTyped
<1>7. /\ peer' = [peer EXCEPT ![x][y] = p]
      /\ p \in Entries /\ p.stream = s /\ p.dial = 0 /\ ~p.ready /\ ~p.stuck
  BY <1>1, <1>2, <1>3 DEF LinksOK, Entry, Entries
<1> HIDE DEF c, d, p, s
<1>8. \A z, w \in Nodes : Claims(conn[s], z, w) => Claims(d, z, w) /\ d.caller = conn[s].caller
  BY <1>4, <1>5, <1>6, <1>3 DEF Claims, SameEnds, Stream
<1>9. Evolve(conn, conn', x, {})
  BY <1>1, <1>2, <1>3, <1>6, <1>8, OneEvolves
<1>10. Claims(conn'[s], x, y)
  BY <1>3, <1>9 DEF Evolve
<1>11. Entry(p, conn', x, y)
  BY <1>7, <1>10 DEF Entry
<1> QED
  BY <1>7, <1>9, <1>11, EntryStep

LEMMA EndLinks ==
  ASSUME LinksOK, NEW x \in Nodes, NEW y \in Nodes,
         DialFails(x, y) \/ Ended(x, y) \/ HandshakeTimeout(x, y) \/ HeartbeatTimeout(x, y)
  PROVE  LinksOK'
<1>0. AllStreams(conn) /\ Entry(peer[x][y], conn, x, y) /\ peer[x][y] \in Entries
  BY DEF LinksOK
<1>1. CASE DialFails(x, y)
  <2> DEFINE p == [peer[x][y] EXCEPT !.stream = 0, !.dial = 0]
             S == {peer[x][y].dial}
  <2>1. /\ peer[x][y].dial # 0
        /\ peer' = [peer EXCEPT ![x][y].stream = 0, ![x][y].dial = 0]
        /\ conn' = CutAll(conn, x, S)
    BY <1>1 DEF DialFails
  <2>2. peer' = [peer EXCEPT ![x][y] = p]
    BY <2>1 DEF LinksOK
  <2>3. p \in Entries /\ p.stream = 0 /\ p.dial = 0 /\ ~p.ready
    BY <1>0, <2>1 DEF Entry, Entries
  <2>4. Evolve(conn, conn', x, S)
    BY <1>0, <2>1, CutEvolve
  <2> HIDE DEF p
  <2> QED
    BY <2>2, <2>3, <2>4, DropStep
<1>2. CASE Ended(x, y) \/ HandshakeTimeout(x, y) \/ HeartbeatTimeout(x, y)
  <2> DEFINE p == Lost(peer[x][y])
             S == {peer[x][y].stream}
  <2>1. peer' = [peer EXCEPT ![x][y] = p] /\ conn' = CutAll(conn, x, S)
    BY <1>2 DEF Ended, HandshakeTimeout, HeartbeatTimeout
  <2>2. p \in Entries /\ p.stream = 0 /\ p.dial = 0 /\ ~p.ready
    BY <1>0, LostTyped
  <2>3. Evolve(conn, conn', x, S)
    BY <1>0, <2>1, CutEvolve
  <2> HIDE DEF p
  <2> QED
    BY <2>1, <2>2, <2>3, DropStep
<1> QED
  BY <1>1, <1>2

(* A stream that comes to y and is not yet in an entry of y. *)
LEMMA ArrivingFacts ==
  ASSUME LinksOK, NEW s \in Streams, NEW y \in Nodes,
         conn[s].callee = y, y \in conn[s].ends, peer[y][conn[s].caller].stream # s
  PROVE  /\ Stream(conn[s]) /\ conn[s].caller \in Nodes /\ Claims(conn[s], y, conn[s].caller)
         /\ s # 0
         /\ \A z \in Nodes : peer[y][z].stream # s /\ peer[y][z].dial # s
<1>1. conn[s] # Idle
  BY DEF Idle
<1>2. Stream(conn[s])
  BY <1>1 DEF LinksOK, AllStreams
<1>3. conn[s].caller \in Nodes /\ Claims(conn[s], y, conn[s].caller) /\ conn[s].caller # y
  BY <1>2 DEF Stream, Claims
<1>4. s # 0
  BY GroupsAssumption DEF Streams
<1>5. ASSUME NEW z \in Nodes PROVE peer[y][z].stream # s /\ peer[y][z].dial # s
  <2>1. Entry(peer[y][z], conn, y, z)
    BY DEF LinksOK
  <2>2. peer[y][z].dial # s
    BY <1>3, <1>4, <2>1 DEF Entry
  <2>3. ASSUME peer[y][z].stream = s PROVE FALSE
    <3>1. {conn[s].caller, y} = {y, z}
      BY <1>4, <2>1, <2>3 DEF Entry, Claims
    <3>2. conn[s].caller = z
      BY <1>3, <3>1
    <3> QED
      BY <2>3, <3>2
  <2> QED
    BY <2>2, <2>3
<1> QED
  BY <1>2, <1>3, <1>4, <1>5

LEMMA AcceptLinks ==
  ASSUME LinksOK, NEW s \in Streams, NEW y \in Nodes, AcceptStep(s, y)
  PROVE  LinksOK'
<1> DEFINE x == conn[s].caller
<1>0. AllStreams(conn)
  BY DEF LinksOK
<1>1. conn[s].callee = y /\ y \in conn[s].ends /\ peer[y][x].stream # s
  BY DEF AcceptStep, Refuse, Collide, Accept, AcceptFails, AcceptTimeout, LetIn, Arrives
<1>2. /\ x \in Nodes /\ Claims(conn[s], y, x) /\ s # 0
      /\ \A z \in Nodes : peer[y][z].stream # s /\ peer[y][z].dial # s
  BY <1>1, ArrivingFacts
<1>3. Entry(peer[y][x], conn, y, x) /\ peer[y][x] \in Entries
  BY <1>2 DEF LinksOK
<1>4. /\ Met(y, x) \in Entries
      /\ Met(y, x).stream = peer[y][x].stream /\ Met(y, x).dial = peer[y][x].dial
      /\ Met(y, x).ready = peer[y][x].ready /\ Met(y, x).stuck = peer[y][x].stuck
  BY <1>3 DEF Met, Entries
<1>5. CASE Refuse(s, y) \/ AcceptTimeout(s, y)
  <2>1. UNCHANGED peer /\ conn' = CutAll(conn, y, {s})
    BY <1>5 DEF Refuse, AcceptTimeout
  <2>2. Evolve(conn, conn', y, {s})
    BY <1>0, <2>1, CutEvolve
  <2> QED
    BY <1>2, <2>1, <2>2, StreamStep
<1>6. CASE Collide(s, y)
  <2> DEFINE p == Met(y, x)
  <2>1. peer' = [peer EXCEPT ![y][x] = p] /\ conn' = CutAll(conn, y, {s})
    BY <1>6 DEF Collide
  <2>2. Evolve(conn, conn', y, {s})
    BY <1>0, <2>1, CutEvolve
  <2>3. Entry(peer[y][x], conn', y, x)
    BY <1>2, <1>3, <2>2, EntryStays
  <2>4. Entry(p, conn', y, x)
    BY <1>4, <2>3 DEF Entry
  <2> HIDE DEF p, x
  <2> QED
    BY <1>2, <2>1, <2>2, <2>4, EntryStep
<1>7. CASE Accept(s, y)
  <2> DEFINE p == [Met(y, x) EXCEPT !.stream = s, !.dial = 0, !.ready = FALSE, !.stuck = FALSE]
             S == {peer[y][x].stream, peer[y][x].dial}
             cs == CutAll(conn, y, S)
  <2>1. /\ peer' = [peer EXCEPT ![y][x] = p]
        /\ conn' = [cs EXCEPT ![s] = Put(@, y, [type |-> "key"])]
    BY <1>7 DEF Accept
  <2>2. Evolve(conn, cs, y, S)
    BY <1>0, CutEvolve
  <2>3. p \in Entries /\ p.stream = s /\ p.dial = 0 /\ ~p.ready /\ ~p.stuck
    BY <1>4 DEF Entries
  <2>4. \A z \in Nodes \ {x} : peer[y][z].stream \notin S \ {0} /\ peer[y][z].dial \notin S \ {0}
    BY <1>2, OwnStreams
  <2>5. s \notin S
    BY <1>2
  <2> HIDE DEF p, S, cs, x
  <2>6. Evolve(cs, conn', y, S)
    <3>1. AllStreams(cs)
      BY <2>2 DEF Evolve
    <3> QED
      BY <2>1, <3>1, PutEvolves, KeyTyped
  <2>7. Evolve(conn, conn', y, S)
    BY <2>2, <2>6, EvolveTwice
  <2>8. Claims(conn'[s], y, x)
    BY <1>2, <2>5, <2>7 DEF Evolve
  <2>9. Entry(p, conn', y, x)
    BY <2>3, <2>8 DEF Entry
  <2> QED
    BY <1>2, <2>1, <2>4, <2>7, <2>9, EntryStep
<1>8. CASE AcceptFails(s, y)
  <2> DEFINE p == [Met(y, x) EXCEPT !.stream = 0, !.dial = 0, !.ready = FALSE, !.stuck = TRUE]
             S == {peer[y][x].stream, peer[y][x].dial, s}
  <2>1. peer' = [peer EXCEPT ![y][x] = p] /\ conn' = CutAll(conn, y, S)
    BY <1>8 DEF AcceptFails
  <2>2. Evolve(conn, conn', y, S)
    BY <1>0, <2>1, CutEvolve
  <2>3. p \in Entries /\ p.stream = 0 /\ p.dial = 0 /\ ~p.ready
    BY <1>4 DEF Entries
  <2>4. \A z \in Nodes \ {x} : peer[y][z].stream \notin S \ {0} /\ peer[y][z].dial \notin S \ {0}
    BY <1>2, OwnStreams
  <2> HIDE DEF p, S, x
  <2>5. Entry(p, conn', y, x)
    BY <2>3, EntryWithout
  <2> QED
    BY <1>2, <2>1, <2>2, <2>4, <2>5, EntryStep
<1> QED
  BY <1>5, <1>6, <1>7, <1>8 DEF AcceptStep

(* A node reads from the stream of an entry. *)
LEMMA ReadFacts ==
  ASSUME LinksOK, NEW x \in Nodes, NEW y \in Nodes, NEW type, Reads(x, y, type)
  PROVE  /\ peer[x][y].stream \in Streams /\ peer[x][y].stream # 0 /\ peer[x][y].dial = 0
         /\ \A S : Evolve(conn, [conn EXCEPT ![peer[x][y].stream] = Taken(@, x)], x, S)
         /\ Frame(x, y) \in Frames /\ Frame(x, y).type = type
<1> DEFINE s == peer[x][y].stream
<1>1. s # 0 /\ conn[s].q[x] # <<>> /\ Frame(x, y) = Head(conn[s].q[x]) /\ Frame(x, y).type = type
  BY DEF Reads, Frame
<1>2. Entry(peer[x][y], conn, x, y) /\ AllStreams(conn)
  BY DEF LinksOK
<1>3. s \in Streams /\ Claims(conn[s], x, y) /\ peer[x][y].dial = 0
  BY <1>1, <1>2 DEF Entry, Entries
<1> HIDE DEF s
<1>4. ASSUME NEW S
      PROVE  Evolve(conn, [conn EXCEPT ![s] = Taken(@, x)], x, S) /\ Frame(x, y) \in Frames
  BY <1>1, <1>2, <1>3, TakenEvolves
<1> QED
  BY <1>1, <1>3, <1>4 DEF s

LEMMA GetKeyLinks ==
  ASSUME TypeInv, NEW x \in Nodes, NEW y \in Nodes, GetKey(x, y)
  PROVE  LinksOK'
<1> DEFINE s == peer[x][y].stream
           row == [peer[x] EXCEPT ![y].ready = TRUE]
           read == [conn EXCEPT ![s] = Taken(@, x)]
           p == [peer[x][y] EXCEPT !.ready = TRUE]
<1>1. /\ Reads(x, y, "key")
      /\ peer' = [peer EXCEPT ![x] = row]
      /\ conn' \in {[read EXCEPT ![s] = Put(@, x, Sync(rec[x]))], read,
                    SendProof(read, row, rec[x], x)}
  BY DEF GetKey
<1>2. LinksOK /\ rec[x] \in Records /\ Entry(peer[x][y], conn, x, y)
  BY DEF TypeInv, RecordsOK, LinksOK
<1>3. s \in Streams /\ s # 0 /\ Evolve(conn, read, x, {})
  BY <1>1, <1>2, ReadFacts
<1>4. AllStreams(read)
  BY <1>3 DEF Evolve
<1>5. peer' = [peer EXCEPT ![x][y] = p]
  BY <1>1, <1>2 DEF LinksOK
<1>6. p \in Entries /\ p.stream = s /\ p.dial = peer[x][y].dial /\ p.stuck = peer[x][y].stuck
  BY <1>2 DEF Entry, Entries
<1> HIDE DEF read, p, row
<1>7. Sync(rec[x]) \in Frames
  BY <1>2, SyncTyped
<1>8. Evolve(read, conn', x, {})
  <2>1. CASE conn' = [read EXCEPT ![s] = Put(@, x, Sync(rec[x]))]
    <3> HIDE DEF s
    <3> QED
      BY <1>3, <1>4, <1>7, <2>1, PutEvolves
  <2>2. CASE conn' = read
    BY <1>4, <2>2, EvolveNot
  <2>3. CASE conn' = SendProof(read, row, rec[x], x)
    BY <1>2, <1>4, <2>3, ProofEvolves
  <2> QED
    BY <1>1, <2>1, <2>2, <2>3
<1>9. Evolve(conn, conn', x, {})
  BY <1>3, <1>8, EvolveTwice
<1>10. Entry(peer[x][y], conn', x, y)
  BY <1>2, <1>9, EntryStays
<1>11. Entry(p, conn', x, y)
  BY <1>3, <1>6, <1>10 DEF Entry
<1> QED
  BY <1>2, <1>5, <1>9, <1>11, EntryStep

LEMMA GetProofLinks ==
  ASSUME TypeInv, NEW x \in Members, GetProof(x)
  PROVE  LinksOK'
<1> DEFINE f == Frame(Owner, x)
           good == rec[Owner].book[f.token] \in {"issued", x}
           r == Redeemed(rec[Owner], f.token, x, f.name)
           row == [peer[Owner] EXCEPT ![x].auth = TRUE]
           s == peer[Owner][x].stream
           read == [conn EXCEPT ![s] = Taken(@, Owner)]
           p == [peer[Owner][x] EXCEPT !.auth = TRUE]
<1>1. /\ Reads(Owner, x, "proof")
      /\ \/ peer' = [peer EXCEPT ![Owner] = row] /\ conn' = SyncAll(read, row, r)
         \/ peer' = peer /\ conn' = read
  BY DEF GetProof
<1>2. LinksOK /\ rec[Owner] \in Records /\ Owner \in Nodes /\ x \in Nodes
  BY DEF TypeInv, RecordsOK, Nodes
<1>3. Evolve(conn, read, Owner, {}) /\ f \in Frames /\ f.type = "proof"
  BY <1>1, <1>2, ReadFacts
<1>4. r \in Records
  BY <1>2, <1>3, FrameOfType, RedeemedTyped
<1>5. CASE peer' = peer /\ conn' = read
  <2> HIDE DEF read
  <2>1. Evolve(conn, conn', Owner, {})
    BY <1>3, <1>5
  <2> QED
    BY <1>2, <1>5, <2>1, StreamStep
<1>6. CASE peer' = [peer EXCEPT ![Owner] = row] /\ conn' = SyncAll(read, row, r)
  <2>1. peer' = [peer EXCEPT ![Owner][x] = p]
    BY <1>2, <1>6 DEF LinksOK
  <2>2. Entry(peer[Owner][x], conn, Owner, x)
    BY <1>2 DEF LinksOK
  <2> HIDE DEF r, row, f, read
  <2>3. AllStreams(read)
    BY <1>3 DEF Evolve
  <2>4. Evolve(read, conn', Owner, {})
    BY <1>4, <1>6, <2>3, SyncEvolves
  <2>5. Evolve(conn, conn', Owner, {})
    BY <1>3, <2>4, EvolveTwice
  <2>6. Entry(peer[Owner][x], conn', Owner, x)
    BY <1>2, <2>2, <2>5, EntryStays
  <2>7. Entry(p, conn', Owner, x)
    BY <2>6 DEF Entry, Entries
  <2> HIDE DEF p
  <2> QED
    BY <1>2, <2>1, <2>5, <2>7, EntryStep
<1> QED
  BY <1>1, <1>5, <1>6

LEMMA GetRosterLinks ==
  ASSUME TypeInv, NEW x \in Members, GetRoster(x)
  PROVE  LinksOK'
<1> DEFINE now == Merged(rec[x], Frame(x, Owner).roster, x)
           names == now.names
           s == peer[x][Owner].stream
           read == [conn EXCEPT ![s] = Taken(@, x)]
           S == Unlisted(x, peer[x], names)
<1>1. /\ Reads(x, Owner, "roster")
      /\ \/ /\ peer' = [peer EXCEPT ![x] = Reconciled(x, peer[x], names)]
            /\ conn' = CutAll(read, x, S)
         \/ UNCHANGED peer /\ conn' = read
  BY DEF GetRoster
<1>2. LinksOK /\ x \in Nodes /\ Owner \in Nodes
  BY DEF TypeInv, Nodes
<1>3. \A T : Evolve(conn, read, x, T)
  BY <1>1, <1>2, ReadFacts
<1> HIDE DEF now, names, read
<1>4. CASE UNCHANGED peer /\ conn' = read
  <2>1. Evolve(conn, conn', x, {})
    BY <1>3, <1>4
  <2> QED
    BY <1>2, <1>4, <2>1, StreamStep
<1>5. CASE /\ peer' = [peer EXCEPT ![x] = Reconciled(x, peer[x], names)]
           /\ conn' = CutAll(read, x, S)
  <2>1. AllStreams(read)
    BY <1>3 DEF Evolve
  <2>2. Evolve(read, conn', x, S)
    BY <1>2, <1>5, <2>1, CutEvolve
  <2>3. Evolve(conn, conn', x, S)
    BY <1>3, <2>2, EvolveTwice
  <2> QED
    BY <1>2, <1>5, <2>3, ReconcileStep
<1> QED
  BY <1>1, <1>4, <1>5

LEMMA BreakLinks ==
  ASSUME LinksOK, NEW s \in Streams, Break(s)
  PROVE  LinksOK'
<1> DEFINE c == conn[s]
           q == [z \in DOMAIN c.q |-> <<>>]
           d == [c EXCEPT !.broken = TRUE, !.q = q]
<1>1. /\ UNCHANGED peer /\ Cardinality(c.ends) = 2
      /\ conn' = [conn EXCEPT ![s].broken = TRUE, ![s].q = [z \in DOMAIN @ |-> <<>>]]
  BY DEF Break
<1>2. AllStreams(conn) /\ (c = Idle \/ Stream(c)) /\ Owner \in Nodes
  BY DEF LinksOK, AllStreams, Nodes
<1>3. conn' = [conn EXCEPT ![s] = d]
  BY <1>1, <1>2 DEF AllStreams
<1>4. CASE Stream(c)
  <2>1. q \in [{c.caller, c.callee} -> Seq(Frames)]
    <3>1. <<>> \in Seq(Frames)
      OBVIOUS
    <3>2. DOMAIN c.q = {c.caller, c.callee}
      BY <1>4 DEF Stream
    <3> QED
      BY <3>1, <3>2
  <2> HIDE DEF q
  <2>2. d = [caller |-> c.caller, callee |-> c.callee, ends |-> c.ends,
             broken |-> TRUE, q |-> q]
    <3> HIDE DEF c
    <3> QED
      BY <1>4, WrittenBroken DEF Stream
  <2> HIDE DEF d
  <2>3. Stream(d) /\ SameEnds(c, d)
    BY <1>4, <2>1, <2>2 DEF Stream, SameEnds
  <2>4. \A z, y \in Nodes : Claims(c, z, y) => Claims(d, z, y) /\ d.caller = c.caller
    BY <2>3 DEF SameEnds, Claims
  <2>5. Evolve(conn, conn', Owner, {})
    <3>1. \A z, y \in Nodes : Claims(conn[s], z, y) =>
            Claims(d, z, y) /\ d.caller = conn[s].caller
      BY <2>4
    <3>2. Evolve(conn, [conn EXCEPT ![s] = d], Owner, {})
      BY <1>2, <2>3, <3>1, OneEvolves
    <3> QED
      BY <1>3, <3>2
  <2>6. UNCHANGED peer
    BY <1>1
  <2> QED
    BY <1>2, <2>5, <2>6, StreamStep
<1>5. CASE c = Idle
  <2>1. c.ends = {}
    BY <1>5 DEF Idle
  <2> HIDE DEF c
  <2> QED
    BY <1>1, <2>1, FS_EmptySet
<1> QED
  BY <1>2, <1>4, <1>5

-----------------------------------------------------------------------------
(* The records, step by step *)

LEMMA SaveTyped ==
  ASSUME RecordsOK, NEW x \in Nodes, NEW r \in Records, Save(x, r)
  PROVE  rec' \in [Nodes -> Records] /\ disk' \in [Nodes -> Records]
BY DEF RecordsOK, Save

LEMMA UserRecords ==
  ASSUME TypeInv, User
  PROVE  RecordsOK'
<1>0. RecordsOK /\ Owner \in Nodes /\ rec[Owner] \in Records /\ disk[Owner] \in Records
  BY DEF TypeInv, RecordsOK, Nodes
<1>1. CASE Issue
  <2> DEFINE r == Issued(disk[Owner], NextToken)
             i == RosterOf(disk[Owner])
  <2>1. /\ Save(Owner, r) /\ invite' = [invite EXCEPT ![NextToken] = i]
        /\ NextToken \in Tokens
        /\ UNCHANGED <<up, removing, histVars>>
    BY <1>1, NextTokenTyped DEF Issue
  <2>2. r \in Records /\ i \in Roster
    BY <1>0, <2>1, IssuedTyped, RosterOfTyped
  <2> HIDE DEF r, i
  <2>3. rec' \in [Nodes -> Records] /\ disk' \in [Nodes -> Records]
    BY <1>0, <2>1, <2>2, SaveTyped
  <2>4. invite' \in [Tokens -> Roster \cup {None}]
    BY <1>0, <2>1, <2>2 DEF RecordsOK
  <2> QED
    BY <1>0, <2>1, <2>3, <2>4 DEF RecordsOK, histVars
<1>2. CASE IssueElsewhere
  <2> DEFINE r == Issued(disk[Owner], NextToken)
             i == RosterOf(disk[Owner])
  <2>1. /\ disk' = [disk EXCEPT ![Owner] = r] /\ invite' = [invite EXCEPT ![NextToken] = i]
        /\ NextToken \in Tokens
        /\ astray' \in {astray, astray \cup {NextToken}}
        /\ UNCHANGED <<up, rec, removing, removed, taken, during>>
    BY <1>2, NextTokenTyped DEF IssueElsewhere
  <2>2. r \in Records /\ i \in Roster
    BY <1>0, <2>1, IssuedTyped, RosterOfTyped
  <2> HIDE DEF r, i
  <2>3. disk' \in [Nodes -> Records] /\ invite' \in [Tokens -> Roster \cup {None}]
    BY <1>0, <2>1, <2>2 DEF RecordsOK
  <2> QED
    BY <1>0, <2>1, <2>3 DEF RecordsOK
<1>3. ASSUME NEW x \in Members, NEW t \in Tokens, Join(x, t) PROVE RecordsOK'
  <2>1. Save(x, Invited(t)) /\ invite[t] # None /\ UNCHANGED <<up, invite, removing, histVars>>
    BY <1>3 DEF Join
  <2>2. Invited(t) \in Records /\ x \in Nodes
    BY <1>0, <2>1, InvitedTyped DEF RecordsOK, Nodes
  <2>3. rec' \in [Nodes -> Records] /\ disk' \in [Nodes -> Records]
    BY <1>0, <2>1, <2>2, SaveTyped
  <2> QED
    BY <1>0, <2>1, <2>3 DEF RecordsOK, histVars
<1>4. ASSUME NEW x \in Nodes, Open(x) PROVE RecordsOK'
  BY <1>0, <1>4 DEF RecordsOK, Open, histVars
<1>5. ASSUME NEW x \in Nodes, Leave(x) PROVE RecordsOK'
  <2>1. /\ up' = [up EXCEPT ![x] = "closed"] /\ removing' \in {None, removing}
        /\ UNCHANGED <<rec, disk, invite, histVars>>
    BY <1>5 DEF Leave
  <2> QED
    BY <1>0, <2>1 DEF RecordsOK, histVars
<1>6. ASSUME NEW x \in Nodes, Rename(x) PROVE RecordsOK'
  <2> DEFINE r == IF x = Owner THEN [rec[x] EXCEPT !.mine = 1, !.names[x] = 1]
                               ELSE [rec[x] EXCEPT !.mine = 1]
  <2>1. Save(x, r) /\ UNCHANGED <<up, invite, removing, histVars>>
    BY <1>6 DEF Rename
  <2>2. rec[x] \in Records
    BY <1>0 DEF RecordsOK
  <2>3. r \in Records
    <3>1. [rec[x] EXCEPT !.mine = 1] \in Records
      BY <2>2 DEF Records
    <3>2. [rec[x] EXCEPT !.mine = 1, !.names[x] = 1] \in Records
      BY <2>2, RenamedTyped
    <3> QED
      BY <3>1, <3>2
  <2> HIDE DEF r
  <2>4. rec' \in [Nodes -> Records] /\ disk' \in [Nodes -> Records]
    BY <1>0, <2>1, <2>3, SaveTyped
  <2> QED
    BY <1>0, <2>1, <2>4 DEF RecordsOK, histVars
<1>7. ASSUME NEW x \in Members, Remove(x) PROVE RecordsOK'
  <2> DEFINE rest == Restrict(rec[Owner].names, DOMAIN rec[Owner].names \ {x})
  <2>1. removing' = [who |-> x, rest |-> rest] /\ UNCHANGED <<up, rec, disk, invite, histVars>>
    BY <1>7 DEF Remove
  <2>2. rest \in Lists
    <3>1. rec[Owner].names \in Lists
      BY <1>0 DEF Records
    <3> QED
      BY <3>1, RestrictTyped
  <2> HIDE DEF rest
  <2>3. removing'.who \in Members /\ removing'.rest \in Lists
    BY <2>1, <2>2
  <2> QED
    BY <1>0, <2>1, <2>3 DEF RecordsOK, histVars
<1> QED
  BY <1>1, <1>2, <1>3, <1>4, <1>5, <1>6, <1>7 DEF User

LEMMA RemoveDoneRecords ==
  ASSUME TypeInv, RemoveDone
  PROVE  RecordsOK'
<1> DEFINE r == [rec[Owner] EXCEPT !.names = Listed(removing.rest, Owner, rec[Owner].mine),
                                   !.version = @ + 1]
<1>1. /\ removing # None /\ removing' = None /\ Save(Owner, r)
      /\ removed' = removed \cup {removing.who}
      /\ UNCHANGED <<up, invite, taken, during, astray>>
  BY DEF RemoveDone
<1>2. RecordsOK /\ Owner \in Nodes /\ rec[Owner] \in Records
      /\ removing.who \in Members /\ removing.rest \in Lists
  BY <1>1 DEF TypeInv, RecordsOK, Nodes
<1>3. r \in Records
  BY <1>2, ShortenedTyped
<1> HIDE DEF r
<1>4. rec' \in [Nodes -> Records] /\ disk' \in [Nodes -> Records]
  BY <1>1, <1>2, <1>3, SaveTyped
<1> QED
  BY <1>1, <1>2, <1>4 DEF RecordsOK

LEMMA GetProofRecords ==
  ASSUME TypeInv, NEW x \in Members, GetProof(x)
  PROVE  RecordsOK'
<1> DEFINE f == Frame(Owner, x)
           r == Redeemed(rec[Owner], f.token, x, f.name)
<1>1. /\ Reads(Owner, x, "proof")
      /\ \/ /\ Save(Owner, r) /\ taken' = taken \cup {x} /\ removed' = removed \ {x}
            /\ during' \in {during, during \cup {x}}
         \/ UNCHANGED <<rec, disk, taken, removed, during>>
      /\ UNCHANGED <<up, invite, removing, astray>>
  BY DEF GetProof
<1>2. LinksOK /\ RecordsOK /\ rec[Owner] \in Records /\ Owner \in Nodes /\ x \in Nodes
  BY DEF TypeInv, RecordsOK, Nodes
<1>3. f \in Frames /\ f.type = "proof"
  BY <1>1, <1>2, ReadFacts
<1>4. r \in Records
  BY <1>2, <1>3, FrameOfType, RedeemedTyped
<1> HIDE DEF r, f
<1>5. rec' \in [Nodes -> Records] /\ disk' \in [Nodes -> Records]
  <2>1. CASE Save(Owner, r)
    BY <1>2, <1>4, <2>1, SaveTyped
  <2>2. CASE UNCHANGED <<rec, disk>>
    BY <1>2, <2>2 DEF RecordsOK
  <2> QED
    BY <1>1, <2>1, <2>2
<1> QED
  BY <1>1, <1>2, <1>5 DEF RecordsOK

LEMMA GetRosterRecords ==
  ASSUME TypeInv, NEW x \in Members, GetRoster(x)
  PROVE  RecordsOK'
<1> DEFINE f == Frame(x, Owner)
           r == Merged(rec[x], f.roster, x)
<1>1. /\ Reads(x, Owner, "roster") /\ Save(x, r)
      /\ UNCHANGED <<up, invite, removing, histVars>>
  BY DEF GetRoster
<1>2. LinksOK /\ RecordsOK /\ rec[x] \in Records /\ Owner \in Nodes /\ x \in Nodes
  BY DEF TypeInv, RecordsOK, Nodes
<1>3. f \in Frames /\ f.type = "roster"
  BY <1>1, <1>2, ReadFacts
<1>4. r \in Records
  BY <1>2, <1>3, FrameOfType, MergedTyped
<1> HIDE DEF r, f
<1>5. rec' \in [Nodes -> Records] /\ disk' \in [Nodes -> Records]
  BY <1>1, <1>2, <1>4, SaveTyped
<1> QED
  BY <1>1, <1>2, <1>5 DEF RecordsOK, histVars

LEMMA OtherRecords ==
  ASSUME TypeInv,
         \/ \E x \in Nodes : Opened(x) \/ Publish(x)
         \/ \E x, y \in Nodes : LinkStep(x, y) \/ DialFails(x, y)
         \/ \E s \in Streams, y \in Nodes : AcceptStep(s, y)
         \/ \E s \in Streams : Break(s)
  PROVE  RecordsOK'
<1>0. RecordsOK
  BY DEF TypeInv
<1>1. ASSUME NEW x \in Nodes, Opened(x) PROVE RecordsOK'
  <2>1. /\ up' = [up EXCEPT ![x] = "open"] /\ Save(x, rec[x])
        /\ UNCHANGED <<invite, removing, histVars>>
    BY <1>1 DEF Opened
  <2>2. rec' \in [Nodes -> Records] /\ disk' \in [Nodes -> Records]
    BY <1>0, <2>1, SaveTyped DEF RecordsOK
  <2> QED
    BY <1>0, <2>1, <2>2 DEF RecordsOK, histVars
<1>2. ASSUME NEW x \in Nodes, Publish(x) PROVE RecordsOK'
  BY <1>0, <1>2 DEF Publish, RecordsOK, histVars
<1>3. ASSUME UNCHANGED <<up, rec, disk, invite, removing, histVars>> PROVE RecordsOK'
  BY <1>0, <1>3 DEF RecordsOK, histVars
<1>4. ASSUME NEW x \in Nodes, NEW y \in Nodes, LinkStep(x, y) \/ DialFails(x, y) PROVE RecordsOK'
  BY <1>3, <1>4 DEF LinkStep, Dial, Reached, GetKey, Ended, HandshakeTimeout,
                    HeartbeatTimeout, DialFails
<1>5. ASSUME NEW s \in Streams, NEW y \in Nodes, AcceptStep(s, y) PROVE RecordsOK'
  BY <1>3, <1>5 DEF AcceptStep, Refuse, Collide, Accept, AcceptFails, AcceptTimeout
<1>6. ASSUME NEW s \in Streams, Break(s) PROVE RecordsOK'
  BY <1>3, <1>6 DEF Break
<1> QED
  BY <1>1, <1>2, <1>4, <1>5, <1>6

-----------------------------------------------------------------------------
LEMMA InitTypes == Init => TypeInv
<1> SUFFICES ASSUME Init PROVE TypeInv
  OBVIOUS
<1> DEFINE own == [NoRecord EXCEPT !.exists = TRUE, !.names = Listed(<<>>, Owner, 0)]
<1>1. own \in Records
  <2>1. Listed(<<>>, Owner, 0) \in Lists
    BY EmptyList, ListedTyped DEF Nodes
  <2> QED
    BY <2>1, NoRecordTyped DEF Records
<1>2. rec = [x \in Nodes |-> IF x = Owner THEN own ELSE NoRecord] /\ disk = rec
  BY DEF Init
<1> HIDE DEF own
<1>3. rec \in [Nodes -> Records] /\ disk \in [Nodes -> Records]
  BY <1>1, <1>2, NoRecordTyped
<1>4. RecordsOK
  BY <1>3 DEF RecordsOK, Init
<1>5. peer = [x \in Nodes |-> [y \in Nodes |-> NoPeer]] /\ conn = [s \in Streams |-> Idle]
  BY DEF Init
<1>6. LinksOK
  BY <1>5, NoPeerTyped, EntryWithout DEF LinksOK, AllStreams
<1> QED
  BY <1>4, <1>6 DEF TypeInv

LEMMA StepTypes == TypeInv /\ [Next]_vars => TypeInv'
<1> SUFFICES ASSUME TypeInv, [Next]_vars PROVE TypeInv'
  OBVIOUS
<1>1. CASE User
  BY <1>1, UserLinks, UserRecords DEF TypeInv
<1>2. CASE \E x \in Nodes : Opened(x) \/ Publish(x)
  BY <1>2, UserLinks, OtherRecords DEF TypeInv
<1>3. CASE RemoveDone
  BY <1>3, RemoveDoneLinks, RemoveDoneRecords DEF TypeInv
<1>4. CASE \E x, y \in Nodes : LinkStep(x, y) \/ DialFails(x, y)
  <2>1. RecordsOK'
    BY <1>4, OtherRecords
  <2>2. LinksOK'
    BY <1>4, DialLinks, ReachedLinks, GetKeyLinks, EndLinks DEF LinkStep, TypeInv
  <2> QED
    BY <2>1, <2>2 DEF TypeInv
<1>5. CASE \E s \in Streams, y \in Nodes : AcceptStep(s, y)
  BY <1>5, AcceptLinks, OtherRecords DEF TypeInv
<1>6. CASE \E x \in Members : GetProof(x) \/ GetRoster(x)
  BY <1>6, GetProofLinks, GetProofRecords, GetRosterLinks, GetRosterRecords DEF TypeInv
<1>7. CASE \E s \in Streams : Break(s)
  BY <1>7, BreakLinks, OtherRecords DEF TypeInv
<1>8. CASE UNCHANGED vars
  <2>1. RecordsOK'
    BY <1>8 DEF TypeInv, RecordsOK, vars, histVars
  <2>2. Evolve(conn, conn', Owner, {}) /\ UNCHANGED peer /\ Owner \in Nodes
    BY <1>8, EvolveNot DEF TypeInv, LinksOK, vars, Nodes
  <2>3. LinksOK'
    BY <2>2, StreamStep DEF TypeInv
  <2> QED
    BY <2>1, <2>3 DEF TypeInv
<1> QED
  BY <1>1, <1>2, <1>3, <1>4, <1>5, <1>6, <1>7, <1>8 DEF Next

(* In any group the entries, streams and rosters keep their types: a link     *)
(* that is ready has a stream, who dials has none, and no two entries share   *)
(* a stream at one end, whichever dials collide, break, or are closed from    *)
(* either side (connect_group_peer, group_accept_loop, the timeouts).         *)
THEOREM TypeCorrectness == Spec => []TypeOK
<1>1. TypeInv => TypeOK
  <2> SUFFICES ASSUME TypeInv PROVE TypeOK
    OBVIOUS
  <2>1. ASSUME NEW x \in Nodes, NEW y \in Nodes
        PROVE  /\ peer[x][y] \in Entries
               /\ peer[x][y].dial = 0 \/ peer[x][y].stream = 0
               /\ peer[x][y].stuck => peer[x][y].dial = 0 /\ peer[x][y].stream = 0
               /\ peer[x][y].ready => peer[x][y].stream # 0
               /\ peer[x][y].stream # 0 => Claims(conn[peer[x][y].stream], x, y)
    BY DEF TypeInv, LinksOK, Entry
  <2>2. ASSUME NEW s \in Streams, conn[s] # Idle
        PROVE  /\ conn[s].caller \in Nodes /\ conn[s].callee \in Nodes /\ conn[s].broken \in BOOLEAN
               /\ conn[s].ends \subseteq {conn[s].caller, conn[s].callee}
               /\ \A x \in DOMAIN conn[s].q : Range(conn[s].q[x]) \subseteq Frames
    <3>1. Stream(conn[s])
      BY <2>2 DEF TypeInv, LinksOK, AllStreams
    <3>2. ASSUME NEW x \in DOMAIN conn[s].q PROVE Range(conn[s].q[x]) \subseteq Frames
      <4> DEFINE m == conn[s].q[x]
      <4>1. m \in Seq(Frames)
        BY <3>1 DEF Stream
      <4> HIDE DEF m
      <4>2. Range(m) \subseteq Frames
        BY <4>1 DEF Range
      <4> QED
        BY <4>2 DEF m
    <3> QED
      BY <3>1, <3>2 DEF Stream
  <2>3. RecordsOK
    BY DEF TypeInv
  <2> QED
    BY <2>1, <2>2, <2>3 DEF TypeOK, RecordsOK, Entries, Claims
<1> QED
  BY <1>1, InitTypes, StepTypes, PTL DEF Spec
=============================================================================
