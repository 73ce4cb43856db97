--------------------------- MODULE OfflineReceiver ---------------------------
(***************************************************************************)
(* The receiving half of Termchat-I2P's offline channel: the poller that   *)
(* searches the dead drops for the messages of the locked peer             *)
(* (termchat-i2p.py: poll_deaddrops and the operators it calls).           *)
(*                                                                         *)
(* The peer stores its message number i under a key derived from i, so the *)
(* receiver has to guess which indexes are in use.  It keeps a base, the   *)
(* first index whose fate is open, and repeatedly sweeps over              *)
(*   - the window of indexes from the base on ("window"),                  *)
(*   - after some fruitless sweeps one index beyond it ("forward"),        *)
(*   - once in a while one index it has given up on ("recovery").          *)
(* An index the peer is known to be past, and for which a server has       *)
(* confirmed a MISS in several sweeps, is a gap: it is skipped so that the *)
(* base can move on.                                                       *)
(*                                                                         *)
(* The servers are the environment here: a GET may be answered in every    *)
(* way named by Answers.  OfflineDelivery.tla puts real servers and the    *)
(* sender in their place.                                                  *)
(*                                                                         *)
(* Time is counted in ticks, and only the ages that the code compares are  *)
(* kept: how long ago an index was skipped and was last probed.  Each age  *)
(* stops at the value from which on the comparison no longer changes.      *)
(***************************************************************************)
EXTENDS Integers, FiniteSets, FiniteSetsExt

CONSTANTS
  MaxIndex,       \* OFFLINE_MAX_U64
  Window,         \* drop_window
  MissRounds,     \* OFFLINE_GAP_MISS_ROUNDS
  StallRounds,    \* OFFLINE_FORWARD_PROBE_STALL_ROUNDS
  SkipLimit,      \* OFFLINE_RECOVERY_STATE_LIMIT
  Retention,      \* OFFLINE_SKIPPED_RETENTION_SECONDS, in ticks
  ProbeInterval,  \* OFFLINE_RECOVERY_PROBE_INTERVAL_SECONDS, in ticks
  MaxPause,       \* bound: ticks that may pass between two sweeps
  Copies,         \* messages that may be stored under one index
  Answers,        \* what a GET may come back with
  Restarts        \* whether the program may stop and start again

ASSUME ReceiverAssumption ==
  /\ MaxIndex \in Nat
  /\ Window \in Nat \ {0}
  /\ MissRounds \in Nat \ {0}
  /\ StallRounds \in Nat
  /\ SkipLimit \in Nat
  /\ Retention \in Nat
  /\ ProbeInterval \in Nat
  /\ MaxPause \in Nat
  /\ Answers \subseteq {"hit", "miss", "indeterminate", "rejected"}
  /\ Restarts \in BOOLEAN

Index == 0..MaxIndex
Blob  == Index \X Copies
Kinds == {"window", "forward", "recovery"}

VARIABLES
  rx,           \* the indexes of the receiver, as save_offline_state writes them
  forwardProbe, \* forward_probe_index
  stalled,      \* deaddrop_stalled_sweeps
  sinceProbe,   \* ticks since deaddrop_last_recovery_probe_ts
  seen,         \* seen_drop_msgs
  offlineMode,  \* offline_mode
  sweeping,     \* a sweep is under way
  todo,         \* its targets that have not been polled, by kind
  misses,       \* its confirmed_misses
  auths,        \* its authenticated_indexes
  disk,         \* the offline state file
  shown,        \* the messages that the last step put into the chat
  everShown,    \* history: the messages ever shown
  everSkipped   \* history: indexes ever skipped as a gap

sweepVars == <<sweeping, todo, misses, auths>>
histVars  == <<everShown, everSkipped>>
vars == <<rx, forwardProbe, stalled, sinceProbe, seen, offlineMode, sweeping,
          todo, misses, auths, disk, shown, everShown, everSkipped>>

-----------------------------------------------------------------------------
(***************************************************************************)
(* The state that is saved, and the operators on it                        *)
(***************************************************************************)

Least(a, b)    == IF a <= b THEN a ELSE b
Greatest(a, b) == IF a >= b THEN a ELSE b

RxState ==
  [base     : Index,
   consumed : SUBSET Index,
   missing  : [Index -> 0..MissRounds],      \* confirmed_miss_rounds, 0 for none
   skipped  : SUBSET Index,
   age      : [Index -> 0..(Retention + 1)], \* ticks since skipped_at_ms
   probed   : [Index -> 0..ProbeInterval],   \* ticks since last_recovery_probe_ms
   known    : Index]                         \* known_remote_next_send

FreshRx ==
  [base     |-> 0,
   consumed |-> {},
   missing  |-> [i \in Index |-> 0],
   skipped  |-> {},
   age      |-> [i \in Index |-> 0],
   probed   |-> [i \in Index |-> ProbeInterval],
   known    |-> 0]

(* The SkipLimit lowest members of S (bound_offline_recovery_state).        *)
LowestFew(S) == {i \in S : Cardinality({j \in S : j < i}) < SkipLimit}

(* r with S as its skipped indexes: the ones that are new are skipped now   *)
(* and were never probed.                                                   *)
WithSkipped(r, S) ==
  [r EXCEPT !.skipped = S,
            !.age     = [i \in Index |-> IF i \in S \cap r.skipped THEN @[i] ELSE 0],
            !.probed  = [i \in Index |-> IF i \in S \cap r.skipped
                                           THEN @[i] ELSE ProbeInterval]]

(* Faulty variants of Advanced, which the properties must tell from it: the *)
(* base stops at a gap, and the base jumps past the highest index read.     *)
AdvancedPastReadOnly(r) ==
  LET open == {i \in r.base..MaxIndex : i \notin r.consumed}
  IN  [r EXCEPT !.base     = IF open = {} THEN MaxIndex ELSE Min(open),
                !.consumed = {i \in @ : i >= Min(open \cup {MaxIndex})}]

AdvancedPastHighest(r) ==
  [r EXCEPT !.base     = Greatest(@, Least(MaxIndex, Max(r.consumed \cup {-1}) + 1)),
            !.consumed = {}]

(* advance_drop_recv_base: the base moves to the first index that is        *)
(* neither consumed nor skipped.  The last index of all can be settled, but *)
(* not passed: it is forgotten instead.                                     *)
Advanced(r) ==
  LET open  == {i \in r.base..MaxIndex : i \notin r.consumed \cup r.skipped}
      base  == IF open = {} THEN MaxIndex ELSE Min(open)
      atEnd == IF open = {} THEN {MaxIndex} ELSE {}
  IN  WithSkipped([r EXCEPT !.base     = base,
                            !.consumed = {i \in @ : i >= base} \ atEnd],
                  r.skipped \ atEnd)

(* A faulty variant of Recorded: the next index may run out of range.       *)
RecordedUnbounded(r, i) ==
  Advanced([r EXCEPT !.known      = Greatest(@, i + 1),
                     !.missing[i] = 0,
                     !.consumed   = IF i >= r.base THEN @ \cup {i} ELSE @])

(* record_authenticated_offline_index *)
Recorded(r, i) ==
  LET next == Least(MaxIndex, i + 1)
  IN  Advanced(WithSkipped(
        [r EXCEPT !.known      = Greatest(@, next),
                  !.missing[i] = 0,
                  !.consumed   = IF i >= r.base THEN @ \cup {i} ELSE @],
        r.skipped \ {i}))

(* The rounds of finalize_offline_poll_sweep: one more for every index that *)
(* was confirmed missing and not found after all.                           *)
Counted(r, missed) ==
  [i \in Index |-> IF i \in missed THEN Least(MissRounds, r.missing[i] + 1)
                                   ELSE r.missing[i]]

(* Faulty variants of Gaps: it does not ask what is known of the peer, and  *)
(* it waits for one round too many.                                         *)
GapsAhead(r, missed) ==
  {i \in Index : Counted(r, missed)[i] >= MissRounds /\ r.base <= i}

GapsNever(r, missed) ==
  {i \in Index : Counted(r, missed)[i] > MissRounds /\ r.base <= i /\ i < r.known}

(* The gaps finalize_offline_poll_sweep finds. *)
Gaps(r, missed) ==
  {i \in Index : /\ Counted(r, missed)[i] >= MissRounds
                 /\ r.base <= i
                 /\ i < r.known}

(* The rest of finalize_offline_poll_sweep on the saved state: a gap is     *)
(* skipped and no longer missing, an entry past its retention is dropped,   *)
(* both tables keep their lowest entries only, and the base advances.       *)
Finalized(r, missed) ==
  LET skipped == r.skipped \cup Gaps(r, missed)
      kept    == LowestFew({i \in skipped :
                              i \in r.skipped => r.age[i] <= Retention})
      rounds  == Counted(r, missed)
      wanted  == LowestFew({i \in Index \ skipped : rounds[i] > 0})
  IN  Advanced(WithSkipped(
        [r EXCEPT !.missing = [i \in Index |-> IF i \in wanted THEN rounds[i]
                                                               ELSE 0]],
        kept))

(* A faulty variant of Loaded: it forgets the consumed indexes.             *)
LoadedBaseOnly(d) ==
  [d.rx EXCEPT !.known = Greatest(@, d.rx.base), !.consumed = {}]

(* save_offline_state and load_offline_state *)
Saved(r, probe) == [rx |-> r, forwardProbe |-> probe]

Loaded(d) ==
  LET wanted == LowestFew({i \in Index : d.rx.missing[i] > 0})
  IN  WithSkipped([d.rx EXCEPT !.known   = Greatest(@, d.rx.base),
                               !.missing = [i \in Index |-> IF i \in wanted
                                                              THEN @[i] ELSE 0]],
                  LowestFew(d.rx.skipped))

(* The passing of n ticks, which a table of skipped indexes feels in memory *)
(* and on disk alike.                                                       *)
Aged(r, n) ==
  [r EXCEPT !.age    = [i \in Index |-> IF i \in r.skipped
                                          THEN Least(Retention + 1, @[i] + n)
                                          ELSE @[i]],
            !.probed = [i \in Index |-> Least(ProbeInterval, @[i] + n)]]

-----------------------------------------------------------------------------
NoTargets == [k \in Kinds |-> {}]

Init ==
  /\ rx = FreshRx
  /\ forwardProbe = 0
  /\ stalled = 0
  /\ sinceProbe = ProbeInterval
  /\ seen = {}
  /\ offlineMode = FALSE
  /\ sweeping = FALSE
  /\ todo = NoTargets
  /\ misses = {}
  /\ auths = {}
  /\ disk = Saved(FreshRx, 0)
  /\ shown = {}
  /\ everShown = {}
  /\ everSkipped = {}

(* A faulty variant of RecvWindow: it polls consumed indexes again.         *)
RecvWindowWhole(r) == {i \in r.base..MaxIndex : i < r.base + Window}

(* get_deaddrop_recv_window *)
RecvWindow(r) == {i \in r.base..MaxIndex : i < r.base + Window /\ i \notin r.consumed}

(* A faulty variant of RecoveryTarget: nothing is probed again.             *)
RecoveryTargetNone(r, idle) == {}

(* The skipped index that build_offline_poll_targets probes again, if any:  *)
(* the first one, in the order of the indexes, that is due.                 *)
RecoveryTarget(r, idle) ==
  LET due == {i \in r.skipped : r.probed[i] >= ProbeInterval}
  IN  IF idle >= ProbeInterval /\ due # {} THEN {Min(due)} ELSE {}

(* The head of poll_deaddrops with build_offline_poll_targets, n ticks      *)
(* after the previous sweep.                                                *)
StartSweep(n) ==
  LET r        == Aged(rx, n)
      idle     == Least(ProbeInterval, sinceProbe + n)
      probing  == stalled >= StallRounds
      probe    == Greatest(forwardProbe, Least(MaxIndex, r.base + Window))
      recovery == RecoveryTarget(r, idle)
  IN  /\ offlineMode
      /\ ~sweeping
      /\ sweeping' = TRUE
      /\ todo' = [window   |-> RecvWindow(r),
                  forward  |-> IF probing THEN {probe} ELSE {},
                  recovery |-> recovery]
      /\ forwardProbe' = IF probing THEN Least(MaxIndex, probe + 1) ELSE forwardProbe
      /\ rx' = [r EXCEPT !.probed = [i \in Index |-> IF i \in recovery THEN 0 ELSE @[i]]]
      /\ sinceProbe' = IF recovery # {} THEN 0 ELSE idle
      /\ disk' = [disk EXCEPT !.rx = Aged(@, n)]
      /\ misses' = {}
      /\ auths' = {}
      /\ shown' = {}
      /\ UNCHANGED <<stalled, seen, offlineMode, histVars>>

(* The loop polls the window, then the forward and the recovery target.     *)
NextTarget(kind, i) ==
  /\ sweeping
  /\ i \in todo[kind]
  /\ \A j \in todo[kind] : i <= j
  /\ kind = "forward" => todo["window"] = {}
  /\ kind = "recovery" => todo["window"] = {} /\ todo["forward"] = {}

(* What follows the answer to a GET, when r is the saved state, found says  *)
(* whether a message came with it and missed are the confirmed misses: the  *)
(* next GET or, after the last target, finalize_offline_poll_sweep.         *)
AfterGet(kind, i, r, found, missed) ==
  LET left     == [todo EXCEPT ![kind] = @ \ {i}]
      auth     == IF found THEN auths \cup {i} ELSE auths
      done     == left = NoTargets
      final    == Finalized(r, missed \ auth)
      progress == final.base # r.base \/ auth # {}
  IN  IF ~done
      THEN /\ rx' = r
           /\ todo' = left
           /\ misses' = missed
           /\ auths' = auth
           /\ UNCHANGED <<sweeping, stalled, forwardProbe, disk, everSkipped>>
      ELSE /\ rx' = final
           /\ sweeping' = FALSE
           /\ todo' = NoTargets
           /\ misses' = {}
           /\ auths' = {}
           /\ stalled' = IF progress THEN 0 ELSE Least(StallRounds, stalled + 1)
           /\ forwardProbe' = IF progress THEN Least(MaxIndex, final.base + Window)
                                          ELSE forwardProbe
           /\ disk' = Saved(final, forwardProbe')
           /\ everSkipped' = everSkipped \cup Gaps(r, missed \ auth)

(* A faulty variant of PollHit: blobs seen before are shown again.          *)
PollHitAgain(kind, i, found) ==
  /\ NextTarget(kind, i)
  /\ found \subseteq {i} \X Copies
  /\ found # {}
  /\ seen' = seen \cup found
  /\ shown' = found
  /\ everShown' = everShown \cup found
  /\ AfterGet(kind, i, Recorded(rx, i), TRUE, misses)
  /\ UNCHANGED <<sinceProbe, offlineMode>>

(* Some server had blobs that authenticate and have not been seen: each of  *)
(* them is shown.                                                           *)
PollHit(kind, i, found) ==
  /\ NextTarget(kind, i)
  /\ found \subseteq {i} \X Copies
  /\ found \ seen # {}
  /\ seen' = seen \cup found
  /\ shown' = found \ seen
  /\ everShown' = everShown \cup found
  /\ AfterGet(kind, i, Recorded(rx, i), TRUE, misses)
  /\ UNCHANGED <<sinceProbe, offlineMode>>

(* No blob, and at least one server said MISS.  A recovery probe does not   *)
(* count misses.                                                            *)
PollMiss(kind, i) ==
  /\ NextTarget(kind, i)
  /\ shown' = {}
  /\ AfterGet(kind, i, rx, FALSE,
              IF kind # "recovery" THEN misses \cup {i} ELSE misses)
  /\ UNCHANGED <<seen, sinceProbe, offlineMode, everShown>>

(* No server answered, or every blob was seen before or was rejected.       *)
PollNothing(kind, i) ==
  /\ NextTarget(kind, i)
  /\ shown' = {}
  /\ AfterGet(kind, i, rx, FALSE, misses)
  /\ UNCHANGED <<seen, sinceProbe, offlineMode, everShown>>

(* /offline *)
GoOffline ==
  /\ ~offlineMode
  /\ offlineMode' = TRUE
  /\ shown' = {}
  /\ UNCHANGED <<rx, forwardProbe, stalled, sinceProbe, seen, sweepVars, disk, histVars>>

(* /online, /connect, /accept: a sweep that is under way goes on.           *)
GoOnline ==
  /\ offlineMode
  /\ offlineMode' = FALSE
  /\ shown' = {}
  /\ UNCHANGED <<rx, forwardProbe, stalled, sinceProbe, seen, sweepVars, disk, histVars>>

(* The peer's index sync, an 'I' frame of a live session: it names the      *)
(* index of the peer's next message.                                        *)
IndexSync(next) ==
  /\ ~offlineMode
  /\ rx' = [rx EXCEPT !.known = Greatest(@, next)]
  /\ disk' = Saved(rx', forwardProbe)
  /\ shown' = {}
  /\ UNCHANGED <<forwardProbe, stalled, sinceProbe, seen, offlineMode, sweepVars, histVars>>

(* Another handler saves the offline state, in the middle of a sweep or not.*)
SaveState ==
  /\ disk' = Saved(rx, forwardProbe)
  /\ shown' = {}
  /\ UNCHANGED <<rx, forwardProbe, stalled, sinceProbe, seen, offlineMode, sweepVars, histVars>>

(* The program ends, by a crash or not, and starts again: __init__ and      *)
(* load_offline_state.                                                      *)
Restart ==
  /\ Restarts
  /\ rx' = Loaded(disk)
  /\ forwardProbe' = disk.forwardProbe
  /\ stalled' = 0
  /\ sinceProbe' = ProbeInterval
  /\ seen' = {}
  /\ offlineMode' = FALSE
  /\ sweeping' = FALSE
  /\ todo' = NoTargets
  /\ misses' = {}
  /\ auths' = {}
  /\ shown' = {}
  /\ UNCHANGED <<disk, histVars>>

Poll ==
  \E kind \in Kinds, i \in Index :
    \/ "hit" \in Answers /\ \E found \in SUBSET ({i} \X Copies) : PollHit(kind, i, found)
    \/ "miss" \in Answers /\ PollMiss(kind, i)
    \/ /\ \/ Answers \cap {"indeterminate", "rejected"} # {}
          \/ seen \cap ({i} \X Copies) # {}
       /\ PollNothing(kind, i)

Next ==
  \/ \E n \in 0..MaxPause : StartSweep(n)
  \/ Poll
  \/ GoOffline
  \/ GoOnline
  \/ \E next \in Index : IndexSync(next)
  \/ SaveState
  \/ Restart

Spec == Init /\ [][Next]_vars

-----------------------------------------------------------------------------
TypeOK ==
  /\ rx \in RxState
  /\ forwardProbe \in Index
  /\ stalled \in 0..StallRounds
  /\ sinceProbe \in 0..ProbeInterval
  /\ seen \subseteq Blob
  /\ offlineMode \in BOOLEAN
  /\ sweeping \in BOOLEAN
  /\ todo \in [Kinds -> SUBSET Index]
  /\ misses \subseteq Index
  /\ auths \subseteq Index
  /\ disk \in [rx : RxState, forwardProbe : Index]
  /\ shown \subseteq Blob
  /\ everShown \subseteq Blob
  /\ everSkipped \subseteq Index

(* The indexes from which a message was ever shown. *)
EverRead == {b[1] : b \in everShown}

(* The indexes that a saved state takes for settled: passed or consumed.    *)
Settled(r) == {i \in Index : i < r.base} \cup r.consumed

(* Whenever the event loop is free, the base is an index still to be        *)
(* settled, in memory and in the state file: every sweep polls it, so the   *)
(* window cannot get stuck behind an index that nobody polls any more.      *)
BaseIsOpen ==
  \A r \in {rx, disk.rx} : r.base \notin r.consumed \cup r.skipped

(* The base passes an index only if a message was shown from it or it was   *)
(* skipped as a gap, whatever the restarts and the order of the polls.      *)
PassedIsSettled ==
  \A r \in {rx, disk.rx} : \A i \in Index :
    i < r.base => i \in EverRead \cup everSkipped

(* Only an index that the peer is known to be past is ever given up: not    *)
(* one that the peer may still use for its next message.                    *)
SkippedIsPast ==
  /\ \A r \in {rx, disk.rx} : \A i \in r.skipped : i < r.known
  /\ \A i \in everSkipped : i < disk.rx.known

(* What the state file has settled stays settled through sweeps, saves and  *)
(* restarts, and what it knows of the peer never shrinks.  The last index   *)
(* of all is exempt: advance_drop_recv_base forgets it to poll it again.    *)
ProgressIsDurable ==
  [][/\ disk'.rx.base >= disk.rx.base
     /\ disk'.rx.known >= disk.rx.known
     /\ Settled(disk.rx) \ {MaxIndex} \subseteq Settled(disk'.rx)]_vars

(* A poll of the window never shows a second time a message whose index the *)
(* state file had settled, even if the program has restarted in between and *)
(* lost seen_drop_msgs.                                                     *)
WindowNeverRepeats ==
  [][\A b \in shown' \cap everShown :
       b[1] \in todo["window"] \ {MaxIndex} =>
         b[1] \notin Settled(disk.rx) \ disk.rx.skipped]_vars

(* README.md, Deaddrop Server Retention: "old messages do not normally      *)
(* reappear unless client state is lost or rolled back".  A message whose   *)
(* index the state file has recorded as consumed is not shown again.  The   *)
(* forward probe of build_offline_poll_targets, which ignores the consumed  *)
(* indexes, breaks this.                                                    *)
ReadOnce ==
  [][\A b \in shown' \cap everShown :
       b[1] \notin disk.rx.consumed \ {MaxIndex}]_vars

-----------------------------------------------------------------------------
(***************************************************************************)
(* Fairness: a user who leaves offline mode comes back to it, and while    *)
(* time passes poll_deaddrops keeps sweeping: every GET comes back, since  *)
(* deaddrop.py waits for a drop's answer under a timeout.  The program may *)
(* be restarted for ever, but not in the middle of every sweep.            *)
(***************************************************************************)
Fairness ==
  /\ []<><<\E n \in 1..MaxPause : StartSweep(n)>>_vars
  /\ []<><<Poll /\ ~sweeping'>>_vars

FairSpec == Spec /\ Fairness

(* The base catches up with what the peer has announced: every index below  *)
(* that is read or skipped in the end, even if its message was lost, so no   *)
(* lost message holds up the ones after it for ever, and restarts lose       *)
(* neither what is known of the peer nor the misses that were counted.  The  *)
(* announcements end, as MaxIndex is the last index.                        *)
BaseProgress == []<>(rx.base >= disk.rx.known)

(* The lowest skipped index, once it is due for it, is probed again before  *)
(* its retention drops it, over restarts too, unless its message has come   *)
(* by another poll or a lower index is skipped.  The last index of all is   *)
(* exempt: Advanced forgets it.                                             *)
LowestGapIsProbed ==
  \A i \in Index \ {MaxIndex} :
    (/\ i \in rx.skipped /\ \A j \in rx.skipped : i <= j
     /\ rx.probed[i] >= ProbeInterval) ~>
    (\/ i \in todo["recovery"]
     \/ i \in EverRead
     \/ \E j \in rx.skipped : j < i)

=============================================================================
