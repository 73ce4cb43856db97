------------------------ MODULE OfflineReceiverProofs ------------------------
(***************************************************************************)
(* Proofs about OfflineReceiver, for every window, limit, retention and     *)
(* number of indexes: its type invariant, its safety invariants, and that   *)
(* progress is durable.                                                    *)
(***************************************************************************)
EXTENDS OfflineReceiver, TLAPS, WellFoundedInduction

USE DEF Index

-----------------------------------------------------------------------------
(***************************************************************************)
(* The properties of a saved state that every step preserves.  read holds   *)
(* the indexes from which a message was ever shown, given those that were   *)
(* ever given up.                                                          *)
(***************************************************************************)

(* What the base has passed, and what the tables hold, is accounted for. *)
Backed(r, read, given) ==
  /\ \A i \in Index : i < r.base => i \in read \cup given
  /\ r.consumed \subseteq read
  /\ r.skipped \subseteq given
  /\ \A i \in r.skipped : i < r.known

Good(r, read, given) ==
  /\ r \in RxState
  /\ Backed(r, read, given)
  /\ r.base \notin r.consumed \cup r.skipped

(* s is at least as far as r. *)
Extends(r, s) ==
  /\ r.base <= s.base
  /\ r.known <= s.known
  /\ Settled(r) \ {MaxIndex} \subseteq Settled(s)

(* Settled restated without the set that defines it. *)
LEMMA SettledMember ==
  ASSUME NEW r, NEW i
  PROVE  i \in Settled(r) <=> (i \in Index /\ i < r.base) \/ i \in r.consumed
BY DEF Settled

(* At least as far as is a preorder on the states that may be saved. *)
LEMMA ExtendsReflexive ==
  ASSUME NEW r \in RxState
  PROVE  Extends(r, r)
<1>1. r.base \in Int /\ r.known \in Int
  BY ReceiverAssumption DEF RxState
<1> QED
  BY <1>1 DEF Extends

(* It composes over the operators of one step. *)
LEMMA ExtendsTransitive ==
  ASSUME NEW r \in RxState, NEW s \in RxState, NEW t \in RxState,
         Extends(r, s), Extends(s, t)
  PROVE  Extends(r, t)
<1>1. /\ r.base \in Int /\ s.base \in Int /\ t.base \in Int
      /\ r.known \in Int /\ s.known \in Int /\ t.known \in Int
  BY ReceiverAssumption DEF RxState
<1>2. r.base <= t.base /\ r.known <= t.known
  BY <1>1 DEF Extends
<1>3. Settled(r) \ {MaxIndex} \subseteq Settled(t)
  BY DEF Extends
<1> QED
  BY <1>2, <1>3 DEF Extends

-----------------------------------------------------------------------------
(* A nonempty set of natural numbers has a least member, and Min is it. *)
LEMMA MinOfNat ==
  ASSUME NEW T \in SUBSET Nat, T # {}
  PROVE  Min(T) \in T /\ \A y \in T : Min(T) <= y
<1> DEFINE R == OpToRel(<, Nat)
<1>1. IsWellFoundedOn(R, Nat)
  BY NatLessThanWellFounded
<1>2. \A x, y \in Nat : y < x => <<y, x>> \in R
  BY Zenon DEF OpToRel
<1> HIDE DEF R
<1>3. PICK x \in T : \A y \in T : ~ (<<y, x>> \in R)
  BY <1>1, WFMin
<1>4. x \in Nat /\ \A y \in T : y \in Nat
  OBVIOUS
<1>5. \A y \in T : ~ (y < x)
  BY <1>2, <1>3, <1>4, Zenon
<1>6. \A y \in T : x <= y
  BY <1>4, <1>5
<1> QED
  BY <1>6, Zenon DEF Min

(* bound_offline_recovery_state only drops entries. *)
LEMMA LowestFewSubset ==
  ASSUME NEW T
  PROVE  LowestFew(T) \subseteq T
BY DEF LowestFew

-----------------------------------------------------------------------------
(* The operators on saved states yield saved states and lose nothing.      *)

(* A new table of skipped indexes keeps the other fields. *)
LEMMA WithSkippedFields ==
  ASSUME NEW r \in RxState, NEW T \in SUBSET Index
  PROVE  /\ WithSkipped(r, T) \in RxState
         /\ WithSkipped(r, T).base = r.base
         /\ WithSkipped(r, T).consumed = r.consumed
         /\ WithSkipped(r, T).missing = r.missing
         /\ WithSkipped(r, T).skipped = T
         /\ WithSkipped(r, T).known = r.known
<1>1. /\ WithSkipped(r, T).base = r.base
      /\ WithSkipped(r, T).consumed = r.consumed
      /\ WithSkipped(r, T).missing = r.missing
      /\ WithSkipped(r, T).skipped = T
      /\ WithSkipped(r, T).known = r.known
  BY DEF WithSkipped, RxState
<1>2. WithSkipped(r, T) \in RxState
  <2> DEFINE a == [i \in Index |-> IF i \in T \cap r.skipped THEN r.age[i] ELSE 0]
             p == [i \in Index |-> IF i \in T \cap r.skipped THEN r.probed[i]
                                                            ELSE ProbeInterval]
  <2>0. /\ r.age \in [Index -> 0..(Retention + 1)]
        /\ r.probed \in [Index -> 0..ProbeInterval]
    BY DEF RxState
  <2>1. a \in [Index -> 0..(Retention + 1)]
    BY <2>0, ReceiverAssumption
  <2>2. p \in [Index -> 0..ProbeInterval]
    BY <2>0, ReceiverAssumption
  <2>3. WithSkipped(r, T) = [r EXCEPT !.skipped = T, !.age = a, !.probed = p]
    BY DEF WithSkipped
  <2> HIDE DEF a, p
  <2> QED
    BY <2>1, <2>2, <2>3 DEF RxState
<1> QED
  BY <1>1, <1>2

(* The base moves to an index that is open, over settled ones only. *)
LEMMA AdvancedIsGood ==
  ASSUME NEW r \in RxState, NEW read, NEW given, Backed(r, read, given)
  PROVE  /\ Good(Advanced(r), read, given)
         /\ Extends(r, Advanced(r))
         /\ Advanced(r).known = r.known
         /\ Advanced(r).missing = r.missing
         /\ r.skipped \ {MaxIndex} \subseteq Advanced(r).skipped
<1> DEFINE open  == {i \in r.base..MaxIndex : i \notin r.consumed \cup r.skipped}
           base  == IF open = {} THEN MaxIndex ELSE Min(open)
           atEnd == IF open = {} THEN {MaxIndex} ELSE {}
           kept  == {i \in r.consumed : i >= base} \ atEnd
           mid   == [r EXCEPT !.base = base, !.consumed = kept]
           left  == r.skipped \ atEnd
<1>1. Advanced(r) = WithSkipped(mid, left)
  BY DEF Advanced
<1>2. /\ r.base \in Index /\ r.known \in Index
      /\ r.consumed \subseteq Index /\ r.skipped \subseteq Index
      /\ MaxIndex \in Nat
  BY ReceiverAssumption DEF RxState
<1>3. /\ base \in r.base..MaxIndex
      /\ \A i \in r.base..MaxIndex : i < base => i \in r.consumed \cup r.skipped
      /\ base \notin kept \cup left
  <2>1. CASE open = {}
    BY <1>2, <2>1
  <2>2. CASE open # {}
    <3>1. open \in SUBSET Nat
      BY <1>2
    <3>2. Min(open) \in open /\ \A y \in open : Min(open) <= y
      BY <2>2, <3>1, MinOfNat
    <3>3. base = Min(open)
      BY <2>2
    <3> HIDE DEF base
    <3>4. base \in r.base..MaxIndex /\ base \notin r.consumed \cup r.skipped
      BY <3>2, <3>3
    <3>5. ASSUME NEW i \in r.base..MaxIndex, i < base
          PROVE  i \in r.consumed \cup r.skipped
      <4>1. i \notin open
        BY <3>2, <3>3, <3>4, <3>5, <1>2
      <4> QED
        BY <4>1
    <3> QED
      BY <3>4, <3>5
  <2> QED
    BY <2>1, <2>2
<1>4. atEnd \subseteq {MaxIndex}
  OBVIOUS
<1> HIDE DEF base, atEnd, open
<1>5. /\ mid \in RxState
      /\ mid.base = base /\ mid.consumed = kept /\ mid.skipped = r.skipped
      /\ mid.known = r.known /\ mid.missing = r.missing
  <2>1. base \in Index
    BY <1>2, <1>3
  <2>2. kept \in SUBSET Index
    BY <1>2
  <2> HIDE DEF kept
  <2> QED
    BY <2>1, <2>2 DEF RxState
<1>6. left \in SUBSET Index
  BY <1>2
<1> DEFINE s == Advanced(r)
<1>7. /\ s \in RxState
      /\ s.base = base /\ s.consumed = kept /\ s.skipped = left
      /\ s.known = r.known /\ s.missing = r.missing
  <2> HIDE DEF mid, left, kept
  <2> QED
    BY <1>1, <1>5, <1>6, WithSkippedFields
<1> HIDE DEF s
<1>8. Backed(s, read, given)
  <2>1. ASSUME NEW i \in Index, i < s.base
        PROVE  i \in read \cup given
    <3>1. CASE i < r.base
      BY <3>1 DEF Backed
    <3>2. CASE i >= r.base
      <4>1. i \in r.base..MaxIndex
        BY <1>2, <3>2
      <4>2. i \in r.consumed \cup r.skipped
        BY <1>3, <1>7, <2>1, <4>1
      <4> QED
        BY <4>2 DEF Backed
    <3> QED
      BY <1>2, <3>1, <3>2
  <2>2. /\ s.consumed \subseteq read
        /\ s.skipped \subseteq given
        /\ \A i \in s.skipped : i < s.known
    BY <1>7 DEF Backed
  <2> QED
    BY <2>1, <2>2 DEF Backed
<1>9. Extends(r, s)
  <2>1. r.base <= s.base /\ r.known <= s.known
    BY <1>2, <1>3, <1>7
  <2>2. ASSUME NEW i \in Settled(r), i # MaxIndex
        PROVE  i \in Settled(s)
    <3>1. i \in Index
      BY <1>2, <2>2, SettledMember
    <3>2. (i < s.base) \/ i \in s.consumed
      BY <1>2, <1>3, <1>4, <1>7, <2>2, <3>1, SettledMember
    <3> QED
      BY <3>1, <3>2, SettledMember
  <2> QED
    BY <2>1, <2>2 DEF Extends
<1>10. s.base \notin s.consumed \cup s.skipped
  BY <1>3, <1>7
<1>11. r.skipped \ {MaxIndex} \subseteq s.skipped
  BY <1>4, <1>7
<1> QED
  BY <1>7, <1>8, <1>9, <1>10, <1>11 DEF Good, s

(* An index from which a message was shown is recorded. *)
LEMMA RecordedIsGood ==
  ASSUME NEW r, NEW i \in Index, NEW read, NEW given, Good(r, read, given)
  PROVE  /\ Good(Recorded(r, i), read \cup {i}, given)
         /\ Extends(r, Recorded(r, i))
         /\ Recorded(r, i).known = Greatest(r.known, Least(MaxIndex, i + 1))
         /\ r.skipped \ {i, MaxIndex} \subseteq Recorded(r, i).skipped
<1> DEFINE next == Least(MaxIndex, i + 1)
           con  == IF i >= r.base THEN r.consumed \cup {i} ELSE r.consumed
           mid  == [r EXCEPT !.known      = Greatest(@, next),
                             !.missing[i] = 0,
                             !.consumed   = IF i >= r.base THEN @ \cup {i} ELSE @]
           s    == WithSkipped(mid, r.skipped \ {i})
<1>1. Recorded(r, i) = Advanced(s)
  BY DEF Recorded
<1>2. /\ r \in RxState /\ r.base \in Index /\ r.known \in Index
      /\ r.consumed \subseteq Index /\ r.skipped \subseteq Index
      /\ r.missing \in [Index -> 0..MissRounds]
      /\ MaxIndex \in Nat /\ MissRounds \in Nat
  BY ReceiverAssumption DEF Good, RxState
<1>3. /\ Greatest(r.known, next) \in Index
      /\ r.known <= Greatest(r.known, next)
  BY <1>2 DEF Least, Greatest
<1>4. con \in SUBSET Index /\ r.consumed \subseteq con /\ con \subseteq r.consumed \cup {i}
  BY <1>2
<1>5. [r.missing EXCEPT ![i] = 0] \in [Index -> 0..MissRounds]
  BY <1>2
<1>6. /\ mid \in RxState
      /\ mid.base = r.base /\ mid.consumed = con /\ mid.skipped = r.skipped
      /\ mid.known = Greatest(r.known, next)
  <2>1. mid = [r EXCEPT !.known = Greatest(r.known, next),
                        !.missing = [r.missing EXCEPT ![i] = 0],
                        !.consumed = con]
    BY <1>2 DEF RxState
  <2> HIDE DEF mid, con, next
  <2> QED
    BY <1>2, <1>3, <1>4, <1>5, <2>1 DEF RxState
<1> HIDE DEF mid, con
<1>7. /\ s \in RxState
      /\ s.base = r.base /\ s.consumed = con /\ s.skipped = r.skipped \ {i}
      /\ s.known = Greatest(r.known, next)
  BY <1>2, <1>6, WithSkippedFields
<1> HIDE DEF s
<1>12. s.known = Greatest(r.known, Least(MaxIndex, i + 1))
  BY <1>7
<1> HIDE DEF next
<1>8. Backed(s, read \cup {i}, given)
  <2>1. /\ \A j \in Index : j < s.base => j \in (read \cup {i}) \cup given
        /\ s.skipped \subseteq given
    BY <1>7 DEF Good, Backed
  <2>2. s.consumed \subseteq read \cup {i}
    BY <1>4, <1>7 DEF Good, Backed
  <2>3. \A j \in s.skipped : j < s.known
    BY <1>2, <1>3, <1>7 DEF Good, Backed
  <2> QED
    BY <2>1, <2>2, <2>3 DEF Backed
<1>9. Extends(r, s)
  <2>1. r.base <= s.base /\ r.known <= s.known
    BY <1>2, <1>3, <1>7
  <2>2. Settled(r) \ {MaxIndex} \subseteq Settled(s)
    BY <1>4, <1>7, SettledMember
  <2> QED
    BY <2>1, <2>2 DEF Extends
<1>10. /\ Good(Advanced(s), read \cup {i}, given) /\ Extends(s, Advanced(s))
       /\ Advanced(s).known = s.known
       /\ s.skipped \ {MaxIndex} \subseteq Advanced(s).skipped
  BY <1>7, <1>8, AdvancedIsGood
<1>11. Extends(r, Advanced(s))
  <2>1. Advanced(s) \in RxState
    BY <1>10 DEF Good
  <2> QED
    BY <1>2, <1>7, <1>9, <1>10, <2>1, ExtendsTransitive
<1> QED
  BY <1>1, <1>7, <1>10, <1>11, <1>12

(* The end of a sweep gives up the gaps, and nothing else. *)
LEMMA FinalizedIsGood ==
  ASSUME NEW r, NEW missed \in SUBSET Index, NEW read, NEW given,
         Good(r, read, given)
  PROVE  /\ Good(Finalized(r, missed), read, given \cup Gaps(r, missed))
         /\ Extends(r, Finalized(r, missed))
         /\ Finalized(r, missed).known = r.known
<1> DEFINE skipped == r.skipped \cup Gaps(r, missed)
           kept    == LowestFew({i \in skipped :
                                   i \in r.skipped => r.age[i] <= Retention})
           rounds  == Counted(r, missed)
           wanted  == LowestFew({i \in Index \ skipped : rounds[i] > 0})
           miss    == [i \in Index |-> IF i \in wanted THEN rounds[i] ELSE 0]
           mid     == [r EXCEPT !.missing = miss]
           s       == WithSkipped(mid, kept)
<1>1. Finalized(r, missed) = Advanced(s)
  BY DEF Finalized
<1>2. /\ r \in RxState /\ r.base \in Index /\ r.known \in Index
      /\ r.consumed \subseteq Index /\ r.skipped \subseteq Index
      /\ r.missing \in [Index -> 0..MissRounds]
      /\ MaxIndex \in Nat /\ MissRounds \in Nat
  BY ReceiverAssumption DEF Good, RxState
<1>3. rounds \in [Index -> 0..MissRounds]
  <2>1. \A i \in Index : r.missing[i] \in 0..MissRounds
    BY <1>2
  <2>2. ASSUME NEW i \in Index PROVE Least(MissRounds, r.missing[i] + 1) \in 0..MissRounds
    <3> DEFINE n == r.missing[i]
    <3>1. n \in 0..MissRounds /\ MissRounds \in Nat
      BY <1>2, <2>1
    <3> HIDE DEF n
    <3>2. n + 1 \in Nat /\ MissRounds \in 0..MissRounds
      BY <3>1
    <3>3. Least(MissRounds, n + 1) \in 0..MissRounds
      BY <3>1, <3>2 DEF Least
    <3> QED
      BY <3>3 DEF n
  <2> QED
    BY <2>1, <2>2 DEF Counted
<1>4. Gaps(r, missed) \subseteq Index /\ \A i \in Gaps(r, missed) : i < r.known
  BY DEF Gaps
<1>5. kept \subseteq skipped
  BY LowestFewSubset
<1>6. miss \in [Index -> 0..MissRounds]
  <2> HIDE DEF rounds, wanted
  <2> QED
    BY <1>2, <1>3
<1> HIDE DEF miss, kept
<1>7. /\ mid \in RxState
      /\ mid.base = r.base /\ mid.consumed = r.consumed /\ mid.known = r.known
  BY <1>2, <1>6 DEF RxState
<1> HIDE DEF mid
<1>8. kept \in SUBSET Index
  BY <1>2, <1>4, <1>5
<1>9. /\ s \in RxState
      /\ s.base = r.base /\ s.consumed = r.consumed
      /\ s.skipped = kept /\ s.known = r.known
  BY <1>7, <1>8, WithSkippedFields
<1> HIDE DEF s
<1>10. Backed(s, read, given \cup Gaps(r, missed))
  <2>1. /\ \A j \in Index : j < s.base => j \in read \cup (given \cup Gaps(r, missed))
        /\ s.consumed \subseteq read
    BY <1>9 DEF Good, Backed
  <2>2. s.skipped \subseteq given \cup Gaps(r, missed)
    BY <1>5, <1>9 DEF Good, Backed
  <2>3. \A j \in s.skipped : j < s.known
    BY <1>4, <1>5, <1>9 DEF Good, Backed
  <2> QED
    BY <2>1, <2>2, <2>3 DEF Backed
<1>11. Extends(r, s)
  BY <1>2, <1>9 DEF Extends, Settled
<1>12. /\ Good(Advanced(s), read, given \cup Gaps(r, missed))
       /\ Extends(s, Advanced(s))
       /\ Advanced(s).known = s.known
  BY <1>9, <1>10, AdvancedIsGood
<1>13. Extends(r, Advanced(s))
  <2>1. Advanced(s) \in RxState
    BY <1>12 DEF Good
  <2> QED
    BY <1>2, <1>9, <1>11, <1>12, <2>1, ExtendsTransitive
<1> QED
  BY <1>1, <1>9, <1>12, <1>13

(* A state remains good when only ages change, skipped entries go or more   *)
(* becomes known of the peer, and when the histories grow.                  *)
LEMMA GoodKept ==
  ASSUME NEW r, NEW s \in RxState, NEW read, NEW given, NEW read2, NEW given2,
         Good(r, read, given), read \subseteq read2, given \subseteq given2,
         s.base = r.base, s.consumed = r.consumed,
         s.skipped \subseteq r.skipped, r.known <= s.known
  PROVE  Good(s, read2, given2) /\ Extends(r, s)
<1>1. /\ r \in RxState /\ r.base \in Int /\ r.known \in Int /\ s.known \in Int
      /\ r.skipped \subseteq Index
  <2>1. r \in RxState
    BY DEF Good
  <2>2. r.base \in Index /\ r.known \in Index /\ r.skipped \subseteq Index
    BY <2>1 DEF RxState
  <2>3. s.known \in Index
    BY DEF RxState
  <2> QED
    BY <2>1, <2>2, <2>3, ReceiverAssumption
<1>2. \A i \in s.skipped : i < s.known
  <2>1. \A i \in s.skipped : i \in Int /\ i < r.known
    BY <1>1 DEF Good, Backed
  <2> QED
    BY <1>1, <2>1
<1>3. /\ \A i \in Index : i < s.base => i \in read2 \cup given2
      /\ s.consumed \subseteq read2
      /\ s.skipped \subseteq given2
      /\ s.base \notin s.consumed \cup s.skipped
  BY DEF Good, Backed
<1>4. Extends(r, s)
  BY <1>1 DEF Extends, Settled
<1> QED
  BY <1>2, <1>3, <1>4 DEF Good, Backed

(* What is read back from the state file is good and loses nothing. *)
LEMMA LoadedIsGood ==
  ASSUME NEW d, NEW read, NEW given, Good(d.rx, read, given)
  PROVE  Good(Loaded(d), read, given) /\ Extends(d.rx, Loaded(d))
<1> DEFINE r      == d.rx
           wanted == LowestFew({i \in Index : r.missing[i] > 0})
           miss   == [i \in Index |-> IF i \in wanted THEN r.missing[i] ELSE 0]
           mid    == [r EXCEPT !.known   = Greatest(@, r.base),
                               !.missing = [i \in Index |-> IF i \in wanted
                                                              THEN @[i] ELSE 0]]
           kept   == LowestFew(r.skipped)
<1>1. Loaded(d) = WithSkipped(mid, kept)
  BY DEF Loaded
<1>2. /\ r \in RxState /\ r.base \in Index /\ r.known \in Index
      /\ r.skipped \subseteq Index
      /\ r.missing \in [Index -> 0..MissRounds]
      /\ MissRounds \in Nat /\ MaxIndex \in Nat
  BY ReceiverAssumption DEF Good, RxState
<1>3. Greatest(r.known, r.base) \in Index /\ r.known <= Greatest(r.known, r.base)
  BY <1>2 DEF Greatest
<1>4. miss \in [Index -> 0..MissRounds]
  <2> HIDE DEF wanted
  <2> QED
    BY <1>2
<1>5. kept \in SUBSET Index /\ kept \subseteq r.skipped
  BY <1>2, LowestFewSubset
<1>6. /\ mid \in RxState
      /\ mid.base = r.base /\ mid.consumed = r.consumed
      /\ mid.known = Greatest(r.known, r.base)
  <2>1. mid = [r EXCEPT !.known = Greatest(r.known, r.base), !.missing = miss]
    BY <1>2 DEF RxState
  <2> HIDE DEF mid, miss
  <2> QED
    BY <1>2, <1>3, <1>4, <2>1 DEF RxState
<1> HIDE DEF mid, kept, wanted, miss
<1> DEFINE s == WithSkipped(mid, kept)
<1>7. /\ s \in RxState
      /\ s.base = r.base /\ s.consumed = r.consumed
      /\ s.skipped = kept /\ s.known = Greatest(r.known, r.base)
  BY <1>5, <1>6, WithSkippedFields
<1>8. Good(r, read, given)
  OBVIOUS
<1> HIDE DEF s, r
<1>9. Good(s, read, given) /\ Extends(r, s)
  BY <1>3, <1>5, <1>7, <1>8, GoodKept
<1> QED
  BY <1>1, <1>9 DEF s, r

(* Time changes the ages only, and they stay within their bounds. *)
LEMMA AgedFields ==
  ASSUME NEW r \in RxState, NEW n \in Nat
  PROVE  /\ Aged(r, n) \in RxState
         /\ Aged(r, n).base = r.base
         /\ Aged(r, n).consumed = r.consumed
         /\ Aged(r, n).skipped = r.skipped
         /\ Aged(r, n).known = r.known
<1> DEFINE a == [i \in Index |-> IF i \in r.skipped
                                   THEN Least(Retention + 1, r.age[i] + n)
                                   ELSE r.age[i]]
           p == [i \in Index |-> Least(ProbeInterval, r.probed[i] + n)]
<1>1. /\ r.age \in [Index -> 0..(Retention + 1)]
      /\ r.probed \in [Index -> 0..ProbeInterval]
  BY DEF RxState
<1>2. a \in [Index -> 0..(Retention + 1)]
  <2>1. \A i \in Index : r.age[i] \in 0..(Retention + 1)
    BY <1>1
  <2>2. \A i \in Index : Least(Retention + 1, r.age[i] + n) \in 0..(Retention + 1)
    BY <2>1, ReceiverAssumption DEF Least
  <2> QED
    BY <2>1, <2>2
<1>3. p \in [Index -> 0..ProbeInterval]
  <2>1. \A i \in Index : r.probed[i] \in 0..ProbeInterval
    BY <1>1
  <2> QED
    BY <2>1, ReceiverAssumption DEF Least
<1>4. Aged(r, n) = [r EXCEPT !.age = a, !.probed = p]
  BY DEF Aged
<1> HIDE DEF a, p
<1> QED
  BY <1>2, <1>3, <1>4 DEF RxState

-----------------------------------------------------------------------------
(***************************************************************************)
(* The inductive invariant: the state in memory and the one in the file are *)
(* good, and memory is at least as far as the file.                        *)
(***************************************************************************)
IInv ==
  /\ TypeOK
  /\ Good(rx, EverRead, everSkipped)
  /\ Good(disk.rx, EverRead, everSkipped)
  /\ Extends(disk.rx, rx)
  /\ \A i \in everSkipped : i < disk.rx.known

(* What a step does to the state file: it never falls back. *)
Forward == Extends(disk.rx, disk'.rx)

(* The targets of a sweep, one set of indexes for each kind. *)
LEMMA TargetsOfKinds ==
  ASSUME NEW a \in SUBSET Index, NEW b \in SUBSET Index, NEW c \in SUBSET Index
  PROVE  [window |-> a, forward |-> b, recovery |-> c] \in [Kinds -> SUBSET Index]
<1> DEFINE t == [window |-> a, forward |-> b, recovery |-> c]
<1>1. Kinds = {"window", "forward", "recovery"}
  BY DEF Kinds
<1>2. t \in [window : SUBSET Index, forward : SUBSET Index, recovery : SUBSET Index]
  OBVIOUS
<1>3. \A k \in Kinds : t[k] \in SUBSET Index
  BY <1>1
<1>4. t = [k \in Kinds |-> t[k]]
  BY <1>1
<1> QED
  BY <1>3, <1>4

(* It holds at the start, with nothing polled and nothing saved. *)
LEMMA InitIInv ==
  ASSUME Init
  PROVE  IInv
<1>1. FreshRx \in RxState
  BY ReceiverAssumption DEF FreshRx, RxState
<1>2. /\ FreshRx.base = 0 /\ FreshRx.consumed = {} /\ FreshRx.skipped = {}
  BY DEF FreshRx
<1>3. Good(FreshRx, EverRead, everSkipped)
  BY <1>1, <1>2 DEF Good, Backed
<1>4. /\ rx = FreshRx /\ disk.rx = FreshRx /\ everSkipped = {}
  BY DEF Init, Saved
<1>5. Extends(disk.rx, rx)
  BY <1>1, <1>4, ExtendsReflexive
<1>6. disk \in [rx : RxState, forwardProbe : Index]
  BY <1>1, ReceiverAssumption DEF Init, Saved
<1>7. NoTargets \in [Kinds -> SUBSET Index]
  BY DEF NoTargets
<1>8. TypeOK
  <2>1. 0 \in Index /\ 0 \in 0..StallRounds /\ ProbeInterval \in 0..ProbeInterval
    BY ReceiverAssumption
  <2> QED
    BY <1>1, <1>6, <1>7, <2>1, Zenon DEF Init, TypeOK
<1> QED
  BY <1>3, <1>4, <1>5, <1>8 DEF IInv

(* A step that leaves the saved state, the file and the histories alone. *)
LEMMA QuietStep ==
  ASSUME IInv, TypeOK', UNCHANGED <<rx, disk, everShown, everSkipped>>
  PROVE  IInv' /\ Forward
<1>1. disk.rx \in RxState
  BY DEF IInv, TypeOK
<1>2. Forward
  BY <1>1, ExtendsReflexive DEF Forward
<1> QED
  BY <1>2 DEF IInv, EverRead

(* Switching the offline mode on or off leaves the indexes alone. *)
LEMMA GoOfflineStep ==
  ASSUME IInv, GoOffline
  PROVE  IInv' /\ Forward
<1>1. TypeOK'
  BY DEF IInv, GoOffline, TypeOK, sweepVars, histVars
<1> QED
  BY <1>1, QuietStep DEF GoOffline, histVars

(* Leaving offline mode does not disturb a sweep under way. *)
LEMMA GoOnlineStep ==
  ASSUME IInv, GoOnline
  PROVE  IInv' /\ Forward
<1>1. TypeOK'
  BY DEF IInv, GoOnline, TypeOK, sweepVars, histVars
<1> QED
  BY <1>1, QuietStep DEF GoOnline, histVars

(* A save in the middle of a sweep moves the file up to memory. *)
LEMMA SaveStateStep ==
  ASSUME IInv, SaveState
  PROVE  IInv' /\ Forward
<1>1. /\ disk'.rx = rx
      /\ UNCHANGED <<rx, everShown, everSkipped>>
      /\ rx \in RxState /\ disk.rx \in RxState
  BY DEF IInv, SaveState, Saved, TypeOK, histVars
<1>2. TypeOK'
  BY DEF IInv, SaveState, Saved, TypeOK, sweepVars, histVars
<1>3. Forward
  BY <1>1 DEF IInv, Forward
<1>4. \A i \in everSkipped : i < rx.known
  <2>1. disk.rx.known <= rx.known /\ disk.rx.known \in Int /\ rx.known \in Int
    <3>1. disk.rx.known \in Index /\ rx.known \in Index
      BY <1>1 DEF RxState
    <3>2. disk.rx.known <= rx.known
      BY DEF IInv, Extends
    <3> QED
      BY <3>1, <3>2, ReceiverAssumption DEF Index
  <2>2. \A i \in everSkipped : i \in Int
    <3>1. everSkipped \subseteq Index
      BY DEF IInv, TypeOK
    <3> QED
      BY <3>1, ReceiverAssumption DEF Index
  <2> QED
    BY <2>1, <2>2 DEF IInv
<1>5. Extends(disk'.rx, rx')
  BY <1>1, ExtendsReflexive
<1> QED
  BY <1>1, <1>2, <1>3, <1>4, <1>5 DEF IInv, EverRead

(* A restart loads a good state that is at least as far as the file. *)
LEMMA RestartStep ==
  ASSUME IInv, Restart
  PROVE  IInv' /\ Forward
<1>1. /\ rx' = Loaded(disk)
      /\ UNCHANGED <<disk, everShown, everSkipped>>
      /\ disk \in [rx : RxState, forwardProbe : Index]
  BY DEF IInv, Restart, TypeOK, histVars
<1>2. Good(rx', EverRead, everSkipped) /\ Extends(disk.rx, rx')
  BY <1>1, LoadedIsGood DEF IInv
<1>3. TypeOK'
  <2>1. 0 \in 0..StallRounds /\ ProbeInterval \in 0..ProbeInterval
    BY ReceiverAssumption
  <2>2. NoTargets \in [Kinds -> SUBSET Index]
    BY DEF NoTargets
  <2>3. rx' \in RxState
    BY <1>2 DEF Good
  <2>4. disk.forwardProbe \in Index
    BY <1>1
  <2> QED
    BY <1>1, <2>1, <2>2, <2>3, <2>4, Zenon DEF IInv, Restart, TypeOK, histVars
<1>4. Forward
  BY <1>1, ExtendsReflexive DEF Forward
<1> QED
  BY <1>1, <1>2, <1>3, <1>4 DEF IInv, EverRead

(* The peer's index sync only adds to what is known of the peer. *)
LEMMA IndexSyncStep ==
  ASSUME IInv, NEW next \in Index, IndexSync(next)
  PROVE  IInv' /\ Forward
<1>1. /\ rx' = [rx EXCEPT !.known = Greatest(rx.known, next)]
      /\ disk' = Saved(rx', forwardProbe)
      /\ UNCHANGED <<everShown, everSkipped>>
      /\ rx \in RxState /\ disk.rx \in RxState /\ forwardProbe \in Index
  BY DEF IInv, IndexSync, TypeOK, histVars, RxState
<1>2. /\ Greatest(rx.known, next) \in Index
      /\ rx.known <= Greatest(rx.known, next)
  <2>1. rx.known \in Index
    BY <1>1 DEF RxState
  <2> QED
    BY <2>1, ReceiverAssumption DEF Greatest
<1>3. /\ rx' \in RxState
      /\ rx'.base = rx.base /\ rx'.consumed = rx.consumed
      /\ rx'.skipped = rx.skipped /\ rx.known <= rx'.known
  BY <1>1, <1>2 DEF RxState
<1>4. Good(rx', EverRead, everSkipped) /\ Extends(rx, rx')
  BY <1>3, GoodKept DEF IInv
<1>5. disk'.rx = rx' /\ disk' \in [rx : RxState, forwardProbe : Index]
  BY <1>1, <1>3 DEF Saved
<1>6. Extends(disk.rx, rx')
  BY <1>1, <1>3, <1>4, ExtendsTransitive DEF IInv
<1>7. \A i \in everSkipped : i < rx'.known
  <2>1. /\ disk.rx.known <= rx'.known
        /\ disk.rx.known \in Int /\ rx'.known \in Int
    <3>1. disk.rx.known \in Index /\ rx'.known \in Index
      BY <1>1, <1>3 DEF RxState
    <3>2. disk.rx.known <= rx'.known
      BY <1>6 DEF Extends
    <3> QED
      BY <3>1, <3>2, ReceiverAssumption
  <2>2. \A i \in everSkipped : i \in Int
    <3>1. everSkipped \subseteq Index
      BY DEF IInv, TypeOK
    <3> QED
      BY <3>1, ReceiverAssumption DEF Index
  <2> QED
    BY <2>1, <2>2 DEF IInv
<1>8. TypeOK'
  BY <1>3, <1>5, Zenon DEF IInv, IndexSync, TypeOK, sweepVars, histVars
<1>9. Extends(disk'.rx, rx')
  BY <1>3, <1>5, ExtendsReflexive
<1>10. Forward
  BY <1>5, <1>6 DEF Forward
<1>11. Good(rx', EverRead', everSkipped') /\ Good(disk'.rx, EverRead', everSkipped')
  BY <1>1, <1>4, <1>5 DEF EverRead
<1> QED
  BY <1>1, <1>5, <1>7, <1>8, <1>9, <1>10, <1>11 DEF IInv

(* The start of a sweep touches ages and probes, never the indexes. *)
LEMMA StartSweepStep ==
  ASSUME IInv, NEW n \in 0..MaxPause, StartSweep(n)
  PROVE  IInv' /\ Forward
<1> DEFINE r        == Aged(rx, n)
           e        == Aged(disk.rx, n)
           idle     == Least(ProbeInterval, sinceProbe + n)
           recovery == RecoveryTarget(r, idle)
           probe    == Greatest(forwardProbe, Least(MaxIndex, r.base + Window))
           p        == [i \in Index |-> IF i \in recovery THEN 0 ELSE r.probed[i]]
<1>1. /\ n \in Nat /\ rx \in RxState /\ disk.rx \in RxState
      /\ disk \in [rx : RxState, forwardProbe : Index]
      /\ MaxIndex \in Nat /\ Window \in Nat /\ ProbeInterval \in Nat
  BY ReceiverAssumption DEF IInv, TypeOK
<1>2. /\ r \in RxState
      /\ r.base = rx.base /\ r.consumed = rx.consumed
      /\ r.skipped = rx.skipped /\ r.known = rx.known
  BY <1>1, AgedFields
<1>3. /\ e \in RxState
      /\ e.base = disk.rx.base /\ e.consumed = disk.rx.consumed
      /\ e.skipped = disk.rx.skipped /\ e.known = disk.rx.known
  BY <1>1, AgedFields
<1>4. rx' = [r EXCEPT !.probed = p]
  BY <1>2 DEF StartSweep, RxState
<1>5. disk' = [disk EXCEPT !.rx = e]
  BY DEF StartSweep
<1>6. recovery \subseteq r.skipped
  <2> DEFINE due == {i \in r.skipped : r.probed[i] >= ProbeInterval}
  <2>1. due \in SUBSET Nat
    BY <1>1, <1>2 DEF RxState
  <2>2. due # {} => Min(due) \in due
    BY <2>1, MinOfNat
  <2> QED
    BY <2>2 DEF RecoveryTarget
<1>7. p \in [Index -> 0..ProbeInterval]
  <2>1. r.probed \in [Index -> 0..ProbeInterval]
    BY <1>2 DEF RxState
  <2> QED
    BY <1>1, <2>1
<1>8. idle \in 0..ProbeInterval
  BY <1>1 DEF IInv, TypeOK, Least
<1>9. /\ Least(MaxIndex, r.base + Window) \in Index
      /\ probe \in Index
      /\ Least(MaxIndex, probe + 1) \in Index
  <2>1. r.base \in Index /\ forwardProbe \in Index
    BY <1>2 DEF IInv, TypeOK, RxState
  <2> HIDE DEF r
  <2>2. Least(MaxIndex, r.base + Window) \in Index
    BY <1>1, <2>1 DEF Least
  <2>3. probe \in Index
    BY <2>1, <2>2 DEF Greatest
  <2> HIDE DEF probe
  <2>4. Least(MaxIndex, probe + 1) \in Index
    BY <1>1, <2>3 DEF Least
  <2> QED
    BY <2>2, <2>3, <2>4
<1>10. todo' \in [Kinds -> SUBSET Index] /\ forwardProbe' \in Index
       /\ sinceProbe' \in 0..ProbeInterval
  <2>1. RecvWindow(r) \subseteq Index
    BY <1>1, <1>2 DEF RecvWindow, RxState
  <2>2. recovery \subseteq Index
    BY <1>2, <1>6 DEF RxState
  <2>3. \E f \in SUBSET Index :
          todo' = [window |-> RecvWindow(r), forward |-> f, recovery |-> recovery]
    BY <1>9 DEF StartSweep
  <2>4. todo' \in [Kinds -> SUBSET Index]
    <3>1. PICK f \in SUBSET Index :
            todo' = [window |-> RecvWindow(r), forward |-> f, recovery |-> recovery]
      BY <2>3
    <3> HIDE DEF recovery, r
    <3> QED
      BY <2>1, <2>2, <3>1, TargetsOfKinds
  <2>5. forwardProbe' \in Index
    BY <1>9 DEF StartSweep, IInv, TypeOK
  <2>6. sinceProbe' \in 0..ProbeInterval
    BY <1>1, <1>8 DEF StartSweep
  <2> QED
    BY <2>4, <2>5, <2>6
<1> HIDE DEF r, e, p, idle, recovery, probe
<1>11. /\ rx' \in RxState
       /\ rx'.base = rx.base /\ rx'.consumed = rx.consumed
       /\ rx'.skipped = rx.skipped /\ rx'.known = rx.known
  BY <1>2, <1>4, <1>7 DEF RxState
<1>12. disk'.rx = e /\ disk' \in [rx : RxState, forwardProbe : Index]
  BY <1>1, <1>3, <1>5
<1>13. UNCHANGED <<stalled, seen, offlineMode, everShown, everSkipped>>
       /\ sweeping' = TRUE /\ misses' = {} /\ auths' = {} /\ shown' = {}
  BY DEF StartSweep, histVars
<1>14. TypeOK'
  BY <1>10, <1>11, <1>12, <1>13, Zenon DEF IInv, TypeOK
<1>15. Good(rx', EverRead, everSkipped)
  <2>1. rx.known <= rx'.known
    BY <1>1, <1>11 DEF RxState
  <2> QED
    BY <1>11, <2>1, GoodKept DEF IInv
<1>16. Good(e, EverRead, everSkipped) /\ Extends(disk.rx, e)
  <2>1. disk.rx.known <= e.known
    BY <1>1, <1>3 DEF RxState
  <2> QED
    BY <1>3, <2>1, GoodKept DEF IInv
<1>17. Extends(e, rx')
  BY <1>3, <1>11 DEF IInv, Extends, Settled
<1> QED
  BY <1>3, <1>12, <1>13, <1>14, <1>15, <1>16, <1>17 DEF IInv, Forward, EverRead

(* The end of a poll: memory, file and histories after the answer to a GET. *)
LEMMA AfterGetStep ==
  ASSUME IInv, NEW kind \in Kinds, NEW i \in Index, NEW r, NEW found \in BOOLEAN,
         NEW missed \in SUBSET Index, NEW read, EverRead \subseteq read,
         Good(r, read, everSkipped), Extends(rx, r),
         AfterGet(kind, i, r, found, missed)
  PROVE  /\ Good(rx', read, everSkipped')
         /\ Good(disk'.rx, read, everSkipped')
         /\ Extends(disk'.rx, rx')
         /\ Forward
         /\ \A j \in everSkipped' : j < disk'.rx.known
         /\ everSkipped' \subseteq Index
         /\ disk' \in [rx : RxState, forwardProbe : Index]
         /\ forwardProbe' \in Index
         /\ stalled' \in 0..StallRounds
         /\ sweeping' \in BOOLEAN
         /\ todo' \in [Kinds -> SUBSET Index]
         /\ misses' \subseteq Index
         /\ auths' \subseteq Index
<1> DEFINE left     == [todo EXCEPT ![kind] = @ \ {i}]
           auth     == IF found THEN auths \cup {i} ELSE auths
           lost     == missed \ auth
           final    == Finalized(r, lost)
           progress == final.base # r.base \/ auth # {}
<1>1. /\ TypeOK
      /\ Good(rx, EverRead, everSkipped) /\ Good(disk.rx, EverRead, everSkipped)
      /\ Extends(disk.rx, rx)
      /\ \A j \in everSkipped : j < disk.rx.known
  BY DEF IInv
<1>2. /\ rx \in RxState /\ disk.rx \in RxState /\ r \in RxState
      /\ disk.rx.known \in Index /\ r.known \in Index
  <2>1. rx \in RxState /\ disk.rx \in RxState /\ r \in RxState
    BY <1>1 DEF Good
  <2> QED
    BY <2>1 DEF RxState
<1>3. Extends(disk.rx, r)
  BY <1>1, <1>2, ExtendsTransitive
<1>4. left \in [Kinds -> SUBSET Index] /\ auth \subseteq Index
  BY <1>1 DEF TypeOK
<1>5. CASE left # NoTargets
  <2>1. /\ rx' = r /\ todo' = left /\ misses' = missed /\ auths' = auth
        /\ UNCHANGED <<sweeping, stalled, forwardProbe, disk, everSkipped>>
    BY <1>5, Zenon DEF AfterGet
  <2>2. Good(disk.rx, read, everSkipped)
    BY <1>1 DEF Good, Backed
  <2>3. Forward
    BY <1>2, <2>1, ExtendsReflexive DEF Forward
  <2>4. /\ disk' \in [rx : RxState, forwardProbe : Index] /\ forwardProbe' \in Index
        /\ stalled' \in 0..StallRounds /\ everSkipped' \subseteq Index
    BY <1>1, <2>1 DEF TypeOK
  <2>5. sweeping' \in BOOLEAN
    BY <1>1, <2>1, Zenon DEF TypeOK
  <2> QED
    BY <1>1, <1>3, <1>4, <2>1, <2>2, <2>3, <2>4, <2>5
<1>6. CASE left = NoTargets
  <2>1. /\ rx' = final /\ sweeping' = FALSE /\ todo' = NoTargets
        /\ misses' = {} /\ auths' = {}
        /\ stalled' = IF progress THEN 0 ELSE Least(StallRounds, stalled + 1)
        /\ forwardProbe' = IF progress THEN Least(MaxIndex, final.base + Window)
                                       ELSE forwardProbe
        /\ disk' = Saved(final, forwardProbe')
        /\ everSkipped' = everSkipped \cup Gaps(r, lost)
    BY <1>6, Zenon DEF AfterGet
  <2>2. /\ Good(final, read, everSkipped')
        /\ Extends(r, final)
        /\ final.known = r.known
    <3>1. lost \in SUBSET Index
      OBVIOUS
    <3> QED
      BY <2>1, <3>1, FinalizedIsGood
  <2> HIDE DEF final, progress, lost, auth, left
  <2>3. disk'.rx = final
    BY <2>1 DEF Saved
  <2>4. final \in RxState /\ final.base \in Index
    BY <2>2 DEF Good, RxState
  <2>5. Forward
    BY <1>2, <1>3, <2>2, <2>3, <2>4, ExtendsTransitive DEF Forward
  <2>6. Extends(disk'.rx, rx')
    BY <2>1, <2>3, <2>4, ExtendsReflexive
  <2>7. \A j \in everSkipped' : j < final.known
    <3>1. \A j \in Gaps(r, lost) : j < r.known
      BY DEF Gaps
    <3>2. disk.rx.known <= r.known
      BY <1>3 DEF Extends
    <3>3. \A j \in everSkipped : j \in Int
      BY <1>1, ReceiverAssumption DEF TypeOK
    <3>4. \A j \in everSkipped : j < r.known
      BY <1>1, <1>2, <3>2, <3>3, ReceiverAssumption
    <3> QED
      BY <2>1, <2>2, <3>1, <3>4
  <2>8. forwardProbe' \in Index
    <3>1. forwardProbe \in Index
      BY <1>1 DEF TypeOK
    <3>2. Least(MaxIndex, final.base + Window) \in Index
      BY <2>4, ReceiverAssumption DEF Least
    <3> QED
      BY <2>1, <3>1, <3>2
  <2>9. stalled' \in 0..StallRounds
    <3>1. stalled \in 0..StallRounds
      BY <1>1 DEF TypeOK
    <3>2. 0 \in 0..StallRounds /\ Least(StallRounds, stalled + 1) \in 0..StallRounds
      BY <3>1, ReceiverAssumption DEF Least
    <3> QED
      BY <2>1, <3>2
  <2>10. disk' \in [rx : RxState, forwardProbe : Index]
    BY <2>1, <2>4, <2>8 DEF Saved
  <2>11. todo' \in [Kinds -> SUBSET Index]
    BY <2>1 DEF NoTargets
  <2>12. everSkipped' \subseteq Index
    BY <1>1, <2>1 DEF TypeOK, Gaps
  <2>13. misses' \subseteq Index /\ auths' \subseteq Index /\ sweeping' \in BOOLEAN
    BY <2>1
  <2>14. /\ Good(rx', read, everSkipped') /\ Good(disk'.rx, read, everSkipped')
         /\ \A j \in everSkipped' : j < disk'.rx.known
    BY <2>1, <2>2, <2>3, <2>7
  <2> QED
    BY <2>5, <2>6, <2>8, <2>9, <2>10, <2>11, <2>12, <2>13, <2>14
<1> QED
  BY <1>5, <1>6

(* The poll as a whole, which adds the indexes it shows a message from. *)
LEMMA PollStep ==
  ASSUME IInv, NEW kind \in Kinds, NEW i \in Index, NEW r, NEW found \in BOOLEAN,
         NEW missed \in SUBSET Index, EverRead \subseteq EverRead',
         Good(r, EverRead', everSkipped), Extends(rx, r),
         AfterGet(kind, i, r, found, missed),
         seen' \subseteq Blob, shown' \subseteq Blob, everShown' \subseteq Blob,
         UNCHANGED <<sinceProbe, offlineMode>>
  PROVE  IInv' /\ Forward
<1> DEFINE read == EverRead'
<1>1. Good(r, read, everSkipped) /\ EverRead \subseteq read
  OBVIOUS
<1> HIDE DEF read
<1>2. /\ Good(rx', read, everSkipped')
      /\ Good(disk'.rx, read, everSkipped')
      /\ Extends(disk'.rx, rx')
      /\ Forward
      /\ \A j \in everSkipped' : j < disk'.rx.known
  BY <1>1, AfterGetStep
<1>3. /\ everSkipped' \subseteq Index
      /\ disk' \in [rx : RxState, forwardProbe : Index]
      /\ forwardProbe' \in Index
      /\ stalled' \in 0..StallRounds
      /\ sweeping' \in BOOLEAN
      /\ todo' \in [Kinds -> SUBSET Index]
      /\ misses' \subseteq Index
      /\ auths' \subseteq Index
  BY <1>1, AfterGetStep
<1>4. rx' \in RxState
  BY <1>2 DEF Good
<1>5. TypeOK'
  BY <1>3, <1>4, Zenon DEF IInv, TypeOK
<1> QED
  BY <1>2, <1>5, Zenon DEF IInv, read

(* A hit records an index from which a message is shown in this very step. *)
LEMMA PollHitStep ==
  ASSUME IInv, NEW kind \in Kinds, NEW i \in Index,
         NEW found \in SUBSET ({i} \X Copies), PollHit(kind, i, found)
  PROVE  IInv' /\ Forward
<1>1. /\ seen' = seen \cup found /\ shown' = found \ seen
      /\ everShown' = everShown \cup found /\ found \ seen # {}
      /\ AfterGet(kind, i, Recorded(rx, i), TRUE, misses)
      /\ UNCHANGED <<sinceProbe, offlineMode>>
  BY DEF PollHit
<1>2. seen \subseteq Blob /\ everShown \subseteq Blob /\ misses \in SUBSET Index
  BY DEF IInv, TypeOK
<1>3. found \subseteq Blob
  BY DEF Blob
<1>4. EverRead' = EverRead \cup {i}
  <2>1. \A b \in found : b[1] = i
    OBVIOUS
  <2>2. PICK b \in found : TRUE
    BY <1>1
  <2> QED
    BY <1>1, <2>1, <2>2 DEF EverRead
<1>5. Good(Recorded(rx, i), EverRead', everSkipped) /\ Extends(rx, Recorded(rx, i))
  BY <1>4, RecordedIsGood DEF IInv
<1> DEFINE r == Recorded(rx, i)
<1>6. AfterGet(kind, i, r, TRUE, misses)
      /\ Good(r, EverRead', everSkipped) /\ Extends(rx, r)
  BY <1>1, <1>5
<1> HIDE DEF r
<1>7. seen' \subseteq Blob /\ shown' \subseteq Blob /\ everShown' \subseteq Blob
  BY <1>1, <1>2, <1>3
<1>8. EverRead \subseteq EverRead'
  BY <1>4
<1> QED
  BY <1>1, <1>2, <1>6, <1>7, <1>8, PollStep

(* A miss is only counted, until the sweep ends. *)
LEMMA PollMissStep ==
  ASSUME IInv, NEW kind \in Kinds, NEW i \in Index, PollMiss(kind, i)
  PROVE  IInv' /\ Forward
<1> DEFINE m == IF kind # "recovery" THEN misses \cup {i} ELSE misses
<1>1. /\ shown' = {} /\ UNCHANGED <<seen, everShown, sinceProbe, offlineMode>>
      /\ AfterGet(kind, i, rx, FALSE, m)
  BY DEF PollMiss
<1>2. m \in SUBSET Index /\ seen \subseteq Blob /\ everShown \subseteq Blob
  BY DEF IInv, TypeOK
<1> HIDE DEF m
<1>3. EverRead' = EverRead
  BY <1>1 DEF EverRead
<1>4. Good(rx, EverRead', everSkipped) /\ Extends(rx, rx)
  BY <1>3, ExtendsReflexive DEF IInv, Good
<1> QED
  BY <1>1, <1>2, <1>3, <1>4, PollStep

(* An answer that says nothing changes nothing, until the sweep ends. *)
LEMMA PollNothingStep ==
  ASSUME IInv, NEW kind \in Kinds, NEW i \in Index, PollNothing(kind, i)
  PROVE  IInv' /\ Forward
<1>1. /\ shown' = {} /\ UNCHANGED <<seen, everShown, sinceProbe, offlineMode>>
      /\ AfterGet(kind, i, rx, FALSE, misses)
  BY DEF PollNothing
<1>2. misses \in SUBSET Index /\ seen \subseteq Blob /\ everShown \subseteq Blob
  BY DEF IInv, TypeOK
<1>3. EverRead' = EverRead
  BY <1>1 DEF EverRead
<1>4. Good(rx, EverRead', everSkipped) /\ Extends(rx, rx)
  BY <1>3, ExtendsReflexive DEF IInv, Good
<1> QED
  BY <1>1, <1>2, <1>3, <1>4, PollStep

-----------------------------------------------------------------------------
(* IInv is inductive, and no step sets the state file back. *)
LEMMA StepIInv ==
  ASSUME IInv, [Next]_vars
  PROVE  IInv' /\ Forward
<1>1. ASSUME NEW n \in 0..MaxPause, StartSweep(n)
      PROVE  IInv' /\ Forward
  BY <1>1, StartSweepStep
<1>2. ASSUME NEW kind \in Kinds, NEW i \in Index,
             NEW found \in SUBSET ({i} \X Copies), PollHit(kind, i, found)
      PROVE  IInv' /\ Forward
  BY <1>2, PollHitStep
<1>3. ASSUME NEW kind \in Kinds, NEW i \in Index, PollMiss(kind, i)
      PROVE  IInv' /\ Forward
  BY <1>3, PollMissStep
<1>4. ASSUME NEW kind \in Kinds, NEW i \in Index, PollNothing(kind, i)
      PROVE  IInv' /\ Forward
  BY <1>4, PollNothingStep
<1>5. CASE Poll
  BY <1>2, <1>3, <1>4, <1>5, Zenon DEF Poll
<1>6. CASE GoOffline
  BY <1>6, GoOfflineStep
<1>7. CASE GoOnline
  BY <1>7, GoOnlineStep
<1>8. ASSUME NEW next \in Index, IndexSync(next)
      PROVE  IInv' /\ Forward
  BY <1>8, IndexSyncStep
<1>9. CASE SaveState
  BY <1>9, SaveStateStep
<1>10. CASE Restart
  BY <1>10, RestartStep
<1>11. CASE UNCHANGED vars
  <2>1. TypeOK'
    BY <1>11, Zenon DEF IInv, TypeOK, vars, sweepVars, histVars
  <2> QED
    BY <1>11, <2>1, QuietStep DEF vars, histVars
<1> QED
  BY <1>1, <1>5, <1>6, <1>7, <1>8, <1>9, <1>10, <1>11, Zenon DEF Next

(* The state of the receiver has the strengthened invariant in every        *)
(* reachable state.                                                         *)
THEOREM Invariance == Spec => []IInv
<1>1. Init => IInv
  BY InitIInv
<1>2. IInv /\ [Next]_vars => IInv'
  BY StepIInv
<1> QED
  BY <1>1, <1>2, PTL DEF Spec

(* Every variable of the receiver keeps its type, with the indexes never    *)
(* beyond MaxIndex and the tables indexed as load_offline_state expects.    *)
THEOREM TypeCorrectness == Spec => []TypeOK
<1>1. IInv => TypeOK
  BY DEF IInv
<1> QED
  BY <1>1, Invariance, PTL

(* The base of the receiver, and the base that a restart would load, is     *)
(* always an index that the next sweep polls.                               *)
THEOREM BaseStaysOpen == Spec => []BaseIsOpen
<1>1. IInv => BaseIsOpen
  BY DEF IInv, Good, BaseIsOpen
<1> QED
  BY <1>1, Invariance, PTL

(* advance_drop_recv_base never loses a message by moving over it: what it  *)
(* has passed was shown or was skipped as a gap.                            *)
THEOREM NothingPassedUnsettled == Spec => []PassedIsSettled
<1>1. IInv => PassedIsSettled
  BY DEF IInv, Good, Backed, PassedIsSettled
<1> QED
  BY <1>1, Invariance, PTL

(* finalize_offline_poll_sweep gives up no index that the peer may still    *)
(* use for a message to come.                                               *)
THEOREM NoIndexGivenUpAhead == Spec => []SkippedIsPast
<1>1. IInv => SkippedIsPast
  BY DEF IInv, Good, Backed, SkippedIsPast
<1> QED
  BY <1>1, Invariance, PTL

(* No step of the receiver, a restart from the state file included, takes   *)
(* back what the file has settled or what it knows of the peer.             *)
THEOREM Durability == Spec => ProgressIsDurable
<1>1. ASSUME IInv, [Next]_vars
      PROVE  [/\ disk'.rx.base >= disk.rx.base
              /\ disk'.rx.known >= disk.rx.known
              /\ Settled(disk.rx) \ {MaxIndex} \subseteq Settled(disk'.rx)]_vars
  <2>1. Forward
    BY <1>1, StepIInv
  <2>2. IInv'
    BY <1>1, StepIInv
  <2>3. disk.rx.base \in Int /\ disk.rx.known \in Int
    <3>1. disk.rx \in RxState
      BY <1>1 DEF IInv, TypeOK
    <3>2. disk.rx.base \in Index /\ disk.rx.known \in Index
      BY <3>1 DEF RxState
    <3> QED
      BY <3>2, ReceiverAssumption
  <2>4. disk'.rx.base \in Int /\ disk'.rx.known \in Int
    <3>1. disk'.rx \in RxState
      BY <2>2 DEF IInv, TypeOK
    <3>2. disk'.rx.base \in Index /\ disk'.rx.known \in Index
      BY <3>1 DEF RxState
    <3> QED
      BY <3>2, ReceiverAssumption
  <2>5. /\ disk.rx.base <= disk'.rx.base /\ disk.rx.known <= disk'.rx.known
        /\ Settled(disk.rx) \ {MaxIndex} \subseteq Settled(disk'.rx)
    BY <2>1 DEF Forward, Extends
  <2>6. disk'.rx.base >= disk.rx.base /\ disk'.rx.known >= disk.rx.known
    BY <2>3, <2>4, <2>5
  <2> QED
    BY <2>5, <2>6
<1>2. IInv /\ [Next]_vars =>
        [/\ disk'.rx.base >= disk.rx.base
         /\ disk'.rx.known >= disk.rx.known
         /\ Settled(disk.rx) \ {MaxIndex} \subseteq Settled(disk'.rx)]_vars
  BY <1>1
<1> QED
  BY <1>2, Invariance, PTL DEF Spec, ProgressIsDurable

-----------------------------------------------------------------------------
(* What a sweep still has to poll in its window was not settled, unless it is *)
(* a gap that the base has passed, by the state in memory nor by the file.    *)
Unsettled(r, S) == \A j \in S \ {MaxIndex} : j \in Settled(r) => j \in r.skipped

TargetsOpen == Unsettled(rx, todo["window"]) /\ Unsettled(disk.rx, todo["window"])

(* The window is made of such indexes. *)
LEMMA WindowUnsettled ==
  ASSUME NEW r \in RxState
  PROVE  \A j \in RecvWindow(r) : j \notin Settled(r)
<1>1. r.base \in Int
  BY ReceiverAssumption DEF RxState
<1> QED
  BY <1>1, ReceiverAssumption DEF RecvWindow, Settled

(* An index that was read settles itself and gaps, no other open index. *)
LEMMA RecordedUnsettled ==
  ASSUME NEW r, NEW i \in Index, NEW read, NEW given, Good(r, read, given),
         NEW S \in SUBSET Index, Unsettled(r, S)
  PROVE  Unsettled(Recorded(r, i), S \ {i})
<1> DEFINE R == Recorded(r, i)
<1>1. r \in RxState /\ r.base \notin r.consumed \cup r.skipped
      /\ \A j \in r.skipped : j < r.known
  BY DEF Good, Backed
<1>2. Good(r, Settled(r), r.skipped)
  BY <1>1 DEF Good, Backed, Settled
<1>3. /\ Good(R, Settled(r) \cup {i}, r.skipped)
      /\ r.skipped \ {i, MaxIndex} \subseteq R.skipped
  BY <1>2, RecordedIsGood
<1> HIDE DEF R
<1>4. \A j \in Settled(R) : j \in Settled(r) \cup {i} \cup r.skipped
  BY <1>3 DEF Good, Backed, Settled
<1> QED
  BY <1>3, <1>4 DEF Unsettled, R

(* The targets stay open in every step, and what a poll of the window shows   *)
(* was not settled by the file.                                              *)
LEMMA TargetsStep ==
  ASSUME IInv, TargetsOpen, [Next]_vars
  PROVE  TargetsOpen'
<1>0. /\ rx \in RxState /\ disk.rx \in RxState /\ todo \in [Kinds -> SUBSET Index]
      /\ disk \in [rx : RxState, forwardProbe : Index]
      /\ Good(rx, EverRead, everSkipped) /\ Extends(disk.rx, rx)
      /\ "window" \in Kinds
  BY DEF IInv, TypeOK, Kinds
<1>1. ASSUME NEW kind \in Kinds, NEW i \in Index, NEW r, NEW found, NEW missed,
             NextTarget(kind, i), AfterGet(kind, i, r, found, missed),
             Unsettled(r, todo["window"] \ {i})
      PROVE  TargetsOpen'
  <2> DEFINE left == [todo EXCEPT ![kind] = @ \ {i}]
  <2>1. CASE left # NoTargets
    <3>1. rx' = r /\ todo' = left /\ disk' = disk
      BY <1>1, <2>1, Zenon DEF AfterGet
    <3>2. left["window"] \subseteq todo["window"] \ {i}
      BY <1>0, <1>1 DEF NextTarget, Kinds
    <3> HIDE DEF left
    <3>3. Unsettled(rx', todo'["window"]) /\ Unsettled(disk'.rx, todo'["window"])
      BY <1>1, <3>1, <3>2 DEF TargetsOpen, Unsettled
    <3> QED
      BY <3>3 DEF TargetsOpen
  <2>2. CASE left = NoTargets
    <3>1. todo' = NoTargets
      BY <1>1, <2>2, Zenon DEF AfterGet
    <3>2. todo'["window"] = {}
      BY <1>0, <3>1 DEF NoTargets
    <3> QED
      BY <3>2 DEF TargetsOpen, Unsettled
  <2> QED
    BY <2>1, <2>2
<1>2. ASSUME NEW n \in 0..MaxPause, StartSweep(n) PROVE TargetsOpen'
  <2> DEFINE r == Aged(rx, n)  e == Aged(disk.rx, n)
  <2>1. n \in Nat
    BY ReceiverAssumption
  <2>2. /\ r \in RxState /\ r.base = rx.base /\ r.consumed = rx.consumed
        /\ r.skipped = rx.skipped
        /\ e \in RxState /\ e.base = disk.rx.base /\ e.consumed = disk.rx.consumed
        /\ e.skipped = disk.rx.skipped
    BY <1>0, <2>1, AgedFields
  <2>3. todo'["window"] = RecvWindow(r) /\ disk' = [disk EXCEPT !.rx = e]
    BY <1>2 DEF StartSweep
  <2>4. \E p : rx' = [r EXCEPT !.probed = p]
    BY <1>2, <2>2 DEF StartSweep, RxState
  <2> HIDE DEF r, e
  <2>5. /\ disk'.rx = e
        /\ rx'.base = rx.base /\ rx'.consumed = rx.consumed /\ rx'.skipped = rx.skipped
    BY <1>0, <2>2, <2>3, <2>4 DEF RxState
  <2>6. \A j \in todo'["window"] : j \notin Settled(rx)
    BY <2>2, <2>3, WindowUnsettled DEF Settled
  <2>7. \A j \in todo'["window"] \ {MaxIndex} : j \notin Settled(disk.rx)
    BY <1>0, <2>6 DEF Extends
  <2>8. Settled(rx') = Settled(rx) /\ Settled(disk'.rx) = Settled(disk.rx)
    BY <2>2, <2>5 DEF Settled
  <2> QED
    BY <2>6, <2>7, <2>8 DEF TargetsOpen, Unsettled
<1>3. ASSUME NEW kind \in Kinds, NEW i \in Index,
             NEW found \in SUBSET ({i} \X Copies), PollHit(kind, i, found)
      PROVE  TargetsOpen'
  <2> DEFINE r == Recorded(rx, i)
  <2>1. Unsettled(r, todo["window"] \ {i})
    BY <1>0, RecordedUnsettled DEF TargetsOpen
  <2>2. NextTarget(kind, i) /\ AfterGet(kind, i, r, TRUE, misses)
    BY <1>3 DEF PollHit
  <2> HIDE DEF r
  <2> QED
    BY <1>1, <2>1, <2>2
<1>4. ASSUME NEW kind \in Kinds, NEW i \in Index, PollMiss(kind, i) \/ PollNothing(kind, i)
      PROVE  TargetsOpen'
  <2>1. \E missed : NextTarget(kind, i) /\ AfterGet(kind, i, rx, FALSE, missed)
    BY <1>4 DEF PollMiss, PollNothing
  <2>2. Unsettled(rx, todo["window"] \ {i})
    BY DEF TargetsOpen, Unsettled
  <2> QED
    BY <1>1, <2>1, <2>2
<1>5. CASE Poll
  BY <1>3, <1>4, <1>5, Zenon DEF Poll
<1>6. CASE GoOffline \/ GoOnline
  BY <1>6 DEF GoOffline, GoOnline, sweepVars, TargetsOpen
<1>7. ASSUME NEW next \in Index, IndexSync(next) PROVE TargetsOpen'
  <2>1. /\ rx' = [rx EXCEPT !.known = Greatest(rx.known, next)]
        /\ disk'.rx = rx' /\ UNCHANGED todo
    BY <1>0, <1>7 DEF IndexSync, Saved, RxState, sweepVars
  <2>2. rx'.base = rx.base /\ rx'.consumed = rx.consumed /\ rx'.skipped = rx.skipped
    BY <1>0, <2>1 DEF RxState
  <2> QED
    BY <2>1, <2>2 DEF TargetsOpen, Unsettled, Settled
<1>8. CASE SaveState
  BY <1>8 DEF SaveState, Saved, sweepVars, TargetsOpen
<1>9. CASE Restart
  <2>1. todo'["window"] = {}
    BY <1>0, <1>9 DEF Restart, NoTargets
  <2> QED
    BY <2>1 DEF TargetsOpen, Unsettled
<1>10. CASE UNCHANGED vars
  BY <1>10 DEF vars, TargetsOpen
<1> QED
  BY <1>2, <1>5, <1>6, <1>7, <1>8, <1>9, <1>10, Zenon DEF Next

(* A poll of the window shows nothing a second time whose index the state     *)
(* file had settled, in whichever order the sweep polls, records and saves,   *)
(* and with any restart in between (poll_deaddrops, load_offline_state).      *)
THEOREM WindowRepeatsNothing == Spec => WindowNeverRepeats
<1>1. Init => TargetsOpen
  <2> SUFFICES ASSUME Init PROVE TargetsOpen
    OBVIOUS
  <2>1. todo["window"] = {}
    BY DEF Init, NoTargets, Kinds
  <2> QED
    BY <2>1 DEF TargetsOpen, Unsettled
<1>2. IInv /\ TargetsOpen /\ [Next]_vars => TargetsOpen'
  BY TargetsStep
<1>3. IInv /\ TargetsOpen /\ [Next]_vars =>
        [\A b \in shown' \cap everShown :
           b[1] \in todo["window"] \ {MaxIndex} =>
             b[1] \notin Settled(disk.rx) \ disk.rx.skipped]_vars
  BY DEF TargetsOpen, Unsettled
<1> QED
  BY <1>1, <1>2, <1>3, Invariance, PTL DEF Spec, WindowNeverRepeats
=============================================================================
