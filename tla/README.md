# Termchat-I2P in TLA+

Termchat-I2P is a terminal chat over I2P. Two users talk in a *live session*
over an I2P stream when both are on line, and leave each other messages at
*dead drops*, small blob servers, when they are not. This directory holds TLA+
models of that program, TLC configurations that check them on small instances,
and proofs for all sizes. Every definition is written from the source, Python
and, for one of the two servers, Rust, and `PROJECT.json` ("map") names the lines
each one stands for. All paths below are relative to `src/`.

    tlc -workers 2 -config OfflineReceiver.cfg OfflineReceiver
    tlc -workers 2 -config LiveSession.cfg MCLiveSession
    tlapm OfflineReceiverProofs.tla

`PROJECT.json` ("runs") pairs each configuration with its module.

## 1. Inventory

The client is one asyncio program (`termchat-i2p.py` and the modules it
imports). Its handlers run one at a time but interleave at every `await`. The
composer starts a worker per line typed, and the poller, the heartbeat, the
receive loop and the accept loop run beside each other. A sweep or a send that
was begun in one state therefore ends in another.

| component | state | operations | hard behaviour | what makes it correct |
|---|---|---|---|---|
| **offline sender** `termchat-i2p.py` 1594-1632 | `drop_send_index` and its saved copy | send (PUT at all drops, then move the index on), index sync in, load/save | sends overlap; a PUT that timed out may be stored; stop between PUT and save | one key per message; a delivered message is stored and its index never reused |
| **offline receiver** 2455-2765, 6996-7217 | base, consumed, missing and skipped indexes, what is known of the peer, probes, `seen_drop_msgs`, state file | sweep (window, forward and recovery targets), finalize, index sync, save, load | late answers, answers in any order, restarts that lose `seen_drop_msgs`, a mode switch in mid-sweep, bounded tables | nothing is passed that was not read or confirmed missing; progress is durable; nothing blocks the base for ever |
| **dead drop client** `deaddrop.py` | per-drop statistics, tokens, sessions | `put` and `get_with_stats` to all drops at once | partial failure, timeouts | one OK or EXISTS is success; one confirmed MISS is a miss |
| **dead drop server, Python** `SERVER/deaddrop-server.py` | files by key, rate counters, connection slots | PUT, GET, collector | PUT during collection, limits | a blob is never overwritten while it lives; slots come back |
| **dead drop server, Rust** `SERVER/main.rs` | the same | the same, with awaits between check and write | two PUTs of one key; collection of a fresh blob | the same |
| **vault** `vault.py`, 7251-7272 | encrypted or plain storage, salt, instance counter | start, leave, encrypt, decrypt, crash | last instance leaves while another starts; crash in mid-write | storage is encrypted when no instance runs, and never taken from a running one; no edit is lost |
| **live session** 1942-2120, 4145-4416 | connection, pending call, peer, heartbeat times | connect, accept, decline, disconnect, heartbeat, receive | both peers call at once; timeout against a late pong | both ends keep the same stream; one live peer at a time |
| **key exchange** `e2e.py`, 4481-4995 | K, Q and Y material, session keys | frame handlers, finalize | frames cross; hybrid secret of both sides | both ends derive the same key or none |
| **offline pairing** 2785-2880, 3833-3950 | shared secret, locked peer, files | lock, unlock, secret sync | one side unlocks, renews, locks again | the two locked peers share one secret |
| **groups** `group_ops.py`, 5130-6589 | roster, version, invitations, links | create, invite, join, rename, remove, connect | versions that tie, tokens that stay valid, links opened from both ends | members converge on one roster; a removed member stays out |
| **SAM runtime** `sam_runtime.py`, `sam_client.py` | sessions, streams under way | open, connect, accept, close | closing while others connect | no stream outlives its session |
| **transfer**, **server list and ranking**, **watcher** (`ddwatcher.py`) | chunk counters; scores; a second reader of the state file | see the source | reset in mid-transfer; file read while it is replaced | complete file or none; the watcher never takes a message away |
| **user interface**, **profiles, export, wipe** | none of the protocol | | | not modelled |

How they meet: the composer calls the sender; the poller calls the receiver's
operators; both use the drop client, which talks to the servers through SAM
streams. Sender and receiver of one profile share the state file, which index
sync, the poller, the sender and lock/unlock all write. In a live session an `I`
frame carries `drop_send_index` and `drop_recv_base` to the other side; it is the
only way the receiver learns of indexes it has not read.

The two servers are given the same protocol by the same document, and a drop
client cannot tell them apart. The vault is below everything: all files that
any part saves lie in the storage it packs. Groups and live sessions share the
SAM runtime and the frame format and nothing else; a link of a group has its own
keys, tasks and timeouts.

The hazards, each at its line, are in `PROJECT.json`, with the properties that
would catch them going wrong, or the reason why none does.

## 2. Plan

In the order of work, the behaviour that users depend on most first:

1. **Offline channel**: `OfflineReceiver`, `OfflineSender`, `OfflineDelivery`,
   the abstract `OfflineChannel`. *Done*; all of its safety is proved.
2. **Dead drop servers**: `DeadDropServer`, both implementations of it in one
   module. *Done*; all of its safety is proved.
3. **Vault**: `Vault`, instances entering, leaving and killed around encryption.
   *Done*; all of its safety is proved.
4. **Live session**: `LiveSession`, two programs with their calls, their
   heartbeats, the key exchange and the exchange of the offline secret. It was
   planned as three modules; they share every handler, so it became one. *Done*;
   all of its safety is proved.
5. **Groups**: `Groups`, the roster, its invites and the links, which need each
   other: a roster travels over links, and decides which links are wanted.
   *Done*; all of its safety is proved.

Every safety property of the passing runs is a theorem. Left: the files of a
locked profile, which would join `LiveSession` to `OfflineReceiver`. What is not going
to be modelled is in section 7.

## 3. Modules

### OfflineReceiver

The state of `poll_deaddrops` and of every handler that touches it. The record
`rx` has the fields `save_offline_state` writes: `base` is `drop_recv_base`,
`consumed` is `consumed_drop_recv`, `missing` the rounds of
`confirmed_miss_rounds` (0 stands for no entry), `skipped`, `age` and `probed`
the entries of `skipped_drop_recv` with their two times, `known` is
`known_remote_next_send`. `disk` is the file. The rest of the state is lost in
a restart.

| definition | code |
|---|---|
| `Advanced` | `advance_drop_recv_base`; the last index of all is forgotten there and polled again |
| `Recorded` | `record_authenticated_offline_index` |
| `Counted`, `Gaps`, `Finalized` | `finalize_offline_poll_sweep`: rounds, gaps, retention, bounds, advance, save |
| `LowestFew` | `bound_offline_recovery_state` |
| `RecvWindow`, `RecoveryTarget`, `StartSweep` | `get_deaddrop_recv_window`, `build_offline_poll_targets` and the head of the loop |
| `PollHit`, `PollMiss`, `PollNothing`, `AfterGet` | one GET and what follows it; after the last target the sweep is finalized |
| `GoOffline`, `GoOnline`, `IndexSync`, `SaveState`, `Restart` | the handlers that interleave with the sweep |

Between two targets any other handler may run, so a sweep is one step per GET.
Times are ages in ticks, each stopped at the value beyond which the code's
comparison no longer changes. What a GET brings back is chosen freely from
`Answers`: a hit with any set of the blobs of that index, a confirmed miss, or
nothing of use (no answer, blobs seen before, blobs that do not authenticate).
Left out: ranking of the drops, PoW, texts, and the pause between sweeps, of
which only the order and the number of ticks remain.

### OfflineSender

`send_offline_message` in two actions, up to its await (`Send`: it reads the
index) and after it (`Finish`: it moves the *current* index on and saves). The
PUTs in between reach the drops in any order (`ServePut`; a drop never
overwrites), fail for the client but perhaps not at the drop (`PutFails`), and
their answers may be lost. `BaseSync` is the peer's index sync, `SenderRestart`
a stop at any point, `Expire` the drop's collector.

### OfflineDelivery and OfflineChannel

One direction of the channel with both programs and the drops. A GET is answered
by each drop from what it holds at that moment (`AnswerGet`), and `Poll` hands
the combination to the receiver's actions by the rule of `get_with_stats`. The
two index syncs carry the sender's index (perhaps an older one, as a frame may
be on its way) and the receiver's base. `OfflineChannel` is what the users are
promised: what is shown was sent, and nothing twice while the receiver's program
runs. `since` remembers what was shown since the last start; it is the
`onScreen` of `OfflineChannel`, and a restart of the receiver is its `Restart`.

`MCOfflineSender` and `MCOfflineDelivery` add the symmetry of messages and drops.

### DeadDropServer

One drop of either server; `impl` says which, and does not change. What a handler
does between two awaits is one action, and `pc[c]` says at which await the handler
of connection `c` stands: `line`, `rate`, `body`, `stat`, `write`, `rename`, `read`,
`remove`, `reply` or `closing`.

| definition | code (`SERVER/deaddrop-server.py`, `SERVER/main.rs`) |
|---|---|
| `Connect`, `ClientLeaves`, `Close` | `handle_client_limited` and the semaphore: a slot is held from the first line to the closing of the stream; Python waits for that without a timeout (`closing`), and the client may leave it out |
| `BadLine`, `PutLine`, `GetLine` | the parsing of the first line in `handle_client`; Python's `allow_put` and its whole GET run in the same step |
| `AllowPut`, `PutRate`, `Kept` | `allow_put`, in Rust with the clock read before the lock |
| `PutBody`, `Stored` | the body and its proof of work; Python stores in the same step |
| `PutStat`, `PutWrite`, `PutRename` | Rust: look for the file, write the temporary file, rename it |
| `GetStat`, `GetRemove`, `GetRead` | Rust: age, removal if expired, content |
| `Collect`; `CollectStat`, `CollectRemove` | `gc_loop` in Python; `walk_and_gc_dir` in Rust, with its await |
| `ReadTimeout`, `WriteTimeout`, `Deliver` | the timeouts of the reads and of the answer, and the answer |
| `Restart` | the process ends anywhere; the files stay |

Left out: the proof of work itself (a body is good or it is not), directories
(each key has one file) and the SAM side. `Tick` may not pass a handler that has
just noted the time and is about to use it; what such a delay could do beyond a
tick is that the file is a tick older than it seems.

### Vault

The storage directory, the vault file with the file of its salt, and the
instances of one user. `Launch`, `Verify`, `Decrypt`, `Extract` and `Enter` are the
start (`termchat-i2p.py` at its end, `fs_verify_passphrase`, `fs_decrypt`,
`fs_runtime_enter`); `Leave`, `Encrypt`, `WriteVault`, `Fill`, `WriteMeta`, `Remove`
and `Removed` are the end (`fs_runtime_leave`, `fs_encrypt`, `fs_remove_plain`), one
action per write that a kill can separate from the next. `Edit` stands for all that
instances save. `Import`, `DeleteProfile` and `Wipe` are the operations on whole
storages, `Crash` a kill at any step; the system frees the locks of who is killed.
A vault that is being written is `torn`; one whose salt is that of an earlier
key is `stale`. Extraction and removal each have a step in their middle, where any
part of the files may be there. The counter is in the storage, so that it is
packed and unpacked with it, as in the code.

`Wipe` asks for nothing but its own start, as `secure_wipe_all` does: it may
meet any other instance, takes the lock file away with the rest, and what an
instance unpacks or packs then ends up in a storage or a vault that was removed
(`Unpacked`, `Packed`). `AfterWipe` bounds how many instances may run at a time
once that has happened. Four history variables record what the properties
exempt: `untidy` (an instance was killed, or `--delete-profile` left the storage
unpacked), `overlapped` (a start met the first unpacking or the last packing),
`wiped` (`--wipe-all` met an instance past its start) and `broken` (a storage
that was left half unpacked or half removed has been packed).

### LiveSession

Two programs, `Low` and `High` by their addresses, because the address decides
which of two colliding calls stays (`PrefersOutbound`). A stream has two ends (`up`)
and two queues (`wire`), and may be `silent`.

| definition | code (`termchat-i2p.py`) |
|---|---|
| `Dial`, `Reach`, `DialFails`, `Connected` | `connect_to_peer` with the SAM connect task |
| `Listen`, `Identify`, `Refuse`, `AcceptAtOnce` | `accept_loop`: identity line, refusals, collision, pending call |
| `Accept`, `Decline`, `PendingEnded`, `EndPending` | `accept_pending_incoming`, `/decline`, `pending_incoming_watch_worker` |
| `HangUp`, `Disconnect`, `Exit`, `ReceiveLoopEnds`, `HeartbeatTimeout` | the ends of a session |
| `Fresh`, `Ready`, `Hello`, `NewKeys`, `GetK`, `GetQ`, `GetY` | `E2E` in `e2e.py` and the handlers of K, Q and Y |
| `Say`, `GetU`, `GetUnwanted` | sending and reading a line, and frames that come too early |
| `Lock`, `Unlock`, `Schedule`, `RunTask`, `SendSecret`, `GetX`, `GetRequest` | `/lock`, `/unlock`, the tasks that exchange the offline secret, their frames |
| `GetQuit`, `Receive` | `receive_loop` and `handle_parsed_frame` |

A key is what it is derived from: the identifiers of the two key pairs and, with
`--pq`, the encapsulation that was mixed in. `garbled` remembers who read a line
with another key than it was written with. `refused` remembers why a call was
refused. Frames of identity (`S`), pictures and files are left out, as are index
syncs (they are in `OfflineDelivery`), `/offline`, and third callers and
unknown identities, which end in a refusal. Awaiting a cancelled task, and closing
one's own end, are part of the action that does it, and what the peer had sent
before is not read any more after one's own close. `Exit` stops a program and
starts it again: its files, `locked` and `secret`, stay.

### Groups

The owner and its members. `rec` is `active_group`, `disk` is `group.json`,
`peer[x][y]` is the entry of `y` in `group_peers` of `x`, and `conn` are the streams.

| definition | code (`termchat-i2p.py`, `group_ops.py`) |
|---|---|
| `Issue`, `IssueElsewhere`, `Join` | `issue_group_invite`, the same for a group that is not open (another instance has it), joining by the invite |
| `Open`, `Opened`, `Publish`, `Leave` | `open_group` in three steps, `close_group` |
| `Rename`, `Remove`, `RemoveDone` | `rename_in_group`; `remove_group_member` before and after it waits for the link |
| `Dial`, `Reached`, `DialFails` | `connect_group_peer` and the loop that dials |
| `LetIn`, `Refuse`, `Collide`, `Accept`, `AcceptTimeout` | `group_accept_loop` |
| `AcceptFails` | its `except` clause: `send_group_handshake` has raised, and the entry is `stuck`: its `writer` is set, but nothing reads the stream or times it |
| `GetKey`, `GetProof`, `GetRoster`, `Redeemed`, `Merged` | the handshake, the redemption of a token, `merge_group_roster_sync` |
| `Reconciled`, `SyncAll` | `reconcile_group_peers`, the broadcast of the roster |
| `Ended`, `HandshakeTimeout`, `HeartbeatTimeout`, `Break` | a stream that is closed, and one that went silent |

`Issue` reads and writes the record in the file, as `issue_group_invite_for_key`
does. `AcceptFails` may happen at any time to a stream whose caller has closed it,
and at the expense of a budget to any other. A `stuck` entry is dialled by nobody
on its side and takes part in the collision rule like a live one (5970-5974), until an accepted stream replaces
it, the member is forgotten or the group is closed.

A name is 0 or 1, which tells a rename from none. The roster's signature is left
out: only the owner makes rosters. Left out as well are messages, pictures and
their receipts (they go to whoever is ready and keep no state that decides
anything), the deletion of a group record, the merging of invites in the old
format, and the request of a member to be renamed, which nothing sends. A dial
that is cancelled is gone at once; the accept loop takes the streams in any order;
`reconcile_group_peers` is one step although it awaits the closing of links.

In all modules the definitions called *a faulty variant of* or *mutant* are not
part of any specification: they are the mistakes that the properties have to
notice.

## 4. Runs

| run | checks | shows |
|---|---|---|
| `receiver` | `TypeOK`, `BaseIsOpen`, `PassedIsSettled`, `SkippedIsPast`, `ProgressIsDurable`, `WindowNeverRepeats`, `BaseProgress`, `LowestGapIsProbed` | 4 indexes, a window of 2, two rounds per miss, restarts and saves anywhere: nothing is passed that was not shown or given up, nothing the peer may still use is given up, the file never falls back, a window poll never repeats a message the file had settled; the base catches up with what the peer has announced, and the lowest skipped index is probed before it is dropped, although restarts go on |
| `receiver_read_once` | `ReadOnce`, violated | see findings |
| `sender` | `SenderTypeOK`, `DeliveredIsPast`, `DeliveredIndexWasStored` | 2 messages at 2 drops, overlapping, with every fault |
| `sender_keys` | `DeliveredWasStored`, violated | see findings |
| `delivery` | `TypeOK`, `KnownIsHonest`, `FutureIsOpen`, `ImplementsChannel` | both programs, which also stop and start again at any point, and a drop that fails: what is shown was sent, and nothing is shown twice while the receiver's program runs; what the receiver knows of the sender, and gives up because of it, stays sound |
| `delivery_late` | `SkippedIsRecovered`, violated | see findings |
| `server` | `TypeOK`, `AnswersWereTrue`, `AcceptedIsKept`, `PutsWithinRate`, `SlotsComeBack`, `ExpiredIsCollected`, `LiveFileStays` | both servers: what is answered was true while the request ran, the Python server keeps what it accepted, the rate limit holds up to the slots, every handler ends but for Python's wait for the closing, expired files are removed; the Rust server takes a live file away only in the two ways that `LiveFileStays` names |
| `server_overwrite` | `OverwriteIsRefused`, violated | see findings |
| `vault` | `TypeOK`, `StorageStays`, `NothingIsLost`, `ClosedIsPacked`, `VaultOrStorage`, `LockComesFree` | two instances, a kill at any step and `--wipe-all` at any moment: a vault that does not open has its storage beside it, unless `--wipe-all` has met a running instance; the lock comes free; no edit is lost and no running instance loses its storage *except* in the cases that the properties name, in which the code does lose them (section 5) |
| `vault_shutdown` | `EncryptedOnShutdown`, violated | see findings |
| `session` | `TypeOK`, `OneCallAtATime`, `KeysAgree`, `MessagesAreRead`, `SecretsAgree`, `CallsSettle`, `PairingCompletes` | every mixture of `--pq`: one call at a time and no stream left behind, one session key and readable messages but in the cases named there, one offline secret; calls that collide or break settle |
| `groups` | `TypeOK`, `NobodyIsDropped`, `LinksSettle`, `RostersSettle` | invites, collisions, broken links, answers that fail, removal, renaming: nobody who was taken in is dropped but in the overlap named there, two members end up with one ready link and all with the owner's roster but for the dead ends and lost invites named there |

No run claims that every stored message is shown, for it is not so: of three
messages, two sends that overlap can leave a true gap behind which the third is
skipped and never probed. `delivery_late` reports that fault.

**Bounds.** The constants of the code (window 8, 64-bit indexes, days of
retention) matter only by their order. A window of 1 or 2 below the number of
indexes gives indexes before, in and beyond the window. `MissRounds` 2 separates
counting from giving up. `SkipLimit` 1 in `receiver`, below the four indexes, lets the table
overflow. `Retention` and `ProbeInterval` of 0 or 1 tick with pauses of 0 or 1 let
an entry be due, not due, and over age. `MaxIndex` 3 in `receiver` is
`OFFLINE_MAX_U64`: the last index is really reached, which is why the properties
about durability exempt it. In the delivery runs two messages are enough for one
to overtake the other, and `MaxIndex` is no lower than any index that the sender
uses. Index syncs ahead of the sends make one more index per send, hence 4 in
`delivery_late`. `Faults` names what may go wrong in a run; `delivery` has all of
it but the expiry of blobs, which `sender` has. `delivery_late` has none. `BusySync` is TRUE only in
`delivery_late`: an index sync that raises the index while a PUT is under way is
what that run is about.

`server` has two connections and two blobs at one key: every overlap that the
properties speak of is of two handlers, or of one and the collector, at one file.
One PUT per window (two in `server_overwrite`, which needs both in one), one tick of life and three times let a file and a rate entry
be fresh, at the limit and beyond it. `vault` has two instances, one edit and two
passphrases; the counter stops at 3, which lets it stay above the number of
instances after two kills. `AfterWipe` 1 lets one instance at a time start
once `--wipe-all` has met a running one, besides those that go on: after that
only `TypeOK` and `LockComesFree` claim anything. `session` has every subset of programs with `--pq`
and three scenarios (`MCBudgets`): two calls that may collide; one call with two
lines, a break and an exit; one call with three locks and one unlock. `groups` has
five: one link with a collision, a break, a failure (of a dial or of an answer)
and a closing; an invite
from another instance; a member removed; a member removed beside another one; all
three linked and one renamed. There a stream number is used again once both ends
are closed, so `MaxStreams` bounds the streams at one time, never their number.

**Fairness.** `receiver` assumes that sweeps are begun with time between them, and
completed, again and again (`poll_deaddrops` is an endless loop with a sleep, and a
GET always ends, by its timeout). That includes that a user who leaves offline mode
comes back to it, and that restarts, which may go on for ever, do not fall into
every sweep. `delivery_late` assumes the beginnings of sweeps as well, that a user
comes back to offline mode, that a PUT under way
arrives and that the sender goes on once all have come back (every request of
`deaddrop.py` runs under a timeout, and `put` gathers them). Nothing is assumed of
the user's sends, of index syncs or of saves. A user who never returns to offline
mode receives nothing, and no run claims otherwise.

`server` assumes that a handler whose file operation is under way goes on, that
the timeouts of reads and writes fire, and that the collector comes round. Its two
steps in Rust have strong fairness: a restart between them makes it start over, and
a server that restarts for ever between them collects nothing. Nothing is assumed of
clients: they may send nothing, take nothing and never close. So `SlotsComeBack`
claims a free slot for the Rust server only; a Python handler is shown to come as
far as its `wait_closed()`, which has no timeout (`deaddrop-server.py:389-392`), and
there a client that neither reads nor closes keeps the slot. `vault` has
strong fairness on the steps under the lock: `fs_file_lock` blocks in the system,
which wakes one waiter each time the lock is freed. `session` assumes that each
event loop goes on as long as it has something to do, which includes the heartbeat
on a silent stream, and nothing of users. `groups` assumes that each coroutine goes
on, which includes the loop that dials again and the two timeouts. No run
assumes that a user does anything.

## 5. Findings

- **A message can be shown again after a restart** (`ReadOnce`).
  `build_offline_poll_targets` (line 7005) takes the forward probe without
  looking at `consumed_drop_recv`. An index ahead of a gap, read, recorded and
  saved, is fetched again, and as `seen_drop_msgs` is not saved its message is
  shown a second time. `README.md` line 761 says that this needs lost or rolled
  back state.
- **A message can be shown as delivered that was stored nowhere**
  (`DeliveredWasStored`). Two sends that overlap read one index; so do a send
  after a timed-out PUT that was stored after all, and a send after a stop
  between PUT and save. The drop answers EXISTS for the second, which line 1619
  takes for success. `README.md` lines 665 and 722 promise one key per message
  and restart-safe sending.
- **Late recovery can starve** (`SkippedIsRecovered`). At most one skipped index
  is probed per interval, always the lowest that is due, and it is due again when
  the next probe is allowed. Behind a true gap no other skipped index is
  probed before retention drops it, whatever line 7086 tells the user. Without
  any fault this happens so: an index sync raises `drop_send_index` while a PUT
  is under way, and the send then moves it once more, which leaves an index
  unused (a true gap). The next message is stored just after its index was polled,
  and the peer is known to be past it before the sweep ends, so it is skipped
  too.

- **The Rust server replaces a live blob** (`OverwriteIsRefused`). It looks for the
  file (`main.rs:477`), writes a temporary file and renames it, with an await at
  each. Of two PUTs of one key that overlap both find nothing, both are answered
  OK, and the second takes the place of the first. `README.md` line 651 says of the
  dead drop server "overwrite is refused".
- **The storage stays unencrypted after a kill** (`EncryptedOnShutdown`). The
  counter of instances lies in the storage and is never reset (`vault.py:321`): an
  instance that was killed stays counted, and no later shutdown, however orderly,
  sees zero and packs. `README.md` line 45 says that on shutdown the storage "is
  encrypted again so profiles, blobs, received files, and images remain unreadable
  while the app is closed". `--delete-profile` (`termchat-i2p.py:542`) ends its own
  run with the storage unpacked as well.

Other properties hold only outside cases that they name. In those cases
the code does not give what a user would expect, and the property does not hide
that it fails there: each exemption is a fault of the code or a limit of its
design. Lines of the documents that touch on them are quoted.

- *Server.* The collector, or a GET that saw the file expired, can remove a file
  stored meanwhile in the Rust server (`main.rs:328`, `main.rs:509`). The rate
  limit there can be exceeded by the number of slots less one, and both servers
  charge it before the body has come. A PUT of a key whose blob has expired but
  was not removed yet is answered EXISTS. A client that never closes keeps a slot
  of the Python server (`deaddrop-server.py:389`).
- *Vault.* A start that meets the first unpacking or the last packing may lose
  its storage or the edits made in it: `fs_decrypt` does not look again whether
  the storage is there (`vault.py:217`), and the counter is left before the lock of
  the vault is taken (`termchat-i2p.py:7265`). `README.md` line 44 says that several
  instances are supported and that the encryption "must account for this"; in these
  two overlaps it does not (`overlapped`). A kill in the middle of an extraction or
  a removal leaves half a storage; the next start takes it for the storage
  (`termchat-i2p.py:510`), and if that instance packs it, the complete vault is
  overwritten with the half (`broken`). One instance is enough for that, without any
  overlap. `--wipe-all` checks for nobody (`termchat-i2p.py:253`): a running
  instance loses its storage, one that packs may write a vault, or the salt of one,
  after all, and one that unpacks brings back a part of the storage (`wiped`).
- *Session.* If the caller's Q has not come when a hybrid call is accepted, the
  two Qs cross, each side takes the secret that the other one made, and their
  keys differ for the whole session (4820; `KeysAgree` exempts `early`): both show
  a ready session in which neither can read the other. `README-HybridPQ.md` line 3
  says that the hybrid exchange "derives one final session key from both"; the two
  are the classical and the post-quantum secret, and the sentence says how each side
  makes its key, not that the sides agree, so this is listed here and not as a
  finding. What
  the callee sends before the caller has its Y is unreadable there. Accepting a
  call can lose the frame that is being read (2246), and if it was a key the
  session never gets ready; a peer that goes silent before that is never noticed,
  as the heartbeat waits for a ready session (2033). Of two calls that collide
  both may be refused. An offline secret that the peer already has is not
  replaced (2826), so after an unlock and a lock on the side that makes it the
  two differ. `OneCallAtATime` shows that `connect_to_peer` never meets the
  session or pending call that lines 4204-4231 look for.
- *Groups.* If the handshake on an inbound stream cannot be written, the entry keeps
  a writer that nobody reads or times (5986-6007, unlike 5869-5871 for a dialled
  stream): this side never dials again (5774) and, if it prefers its own calls, closes
  every inbound one (5974), so the link is dead until it closes the group or forgets
  the member (`DeadEnd`, which `LinksSettle` and `RostersSettle` exempt; the runs show that the
  side that prefers inbound calls recovers). A member taken in while the owner waits in `remove_group_member` is
  dropped again (5526). An invite made by an instance that does not have the group
  open is forgotten when the other instance saves (5210). The owner's own
  rename keeps the version, so members that have this version keep the old name
  until something else raises it (5490). A removed member keeps
  its token, and its next connection redeems it again (6264).

## 6. Proofs

`OfflineReceiverProofs` proves for every window, limit, retention, number of
indexes and choice of answers, from `ReceiverAssumption` alone (all parameters
are natural numbers, window and rounds positive):

| theorem | |
|---|---|
| `TypeCorrectness` | `Spec => []TypeOK` |
| `BaseStaysOpen` | `Spec => []BaseIsOpen` |
| `NothingPassedUnsettled` | `Spec => []PassedIsSettled` |
| `NoIndexGivenUpAhead` | `Spec => []SkippedIsPast` |
| `Durability` | `Spec => ProgressIsDurable` |
| `WindowRepeatsNothing` | `Spec => WindowNeverRepeats` |

None of the invariants is inductive alone. The step that consumes an index and
the one that moves the base over it are apart in time, so what the base passes
must be accounted for while it is still in the tables. `IInv` therefore says
of memory and of the file that they are `Good`: consumed indexes have been read,
skipped ones given up, the skipped ones lie below `known`, and the base is open.
And it says that memory `Extends` the file, for otherwise a save could take
back what the file has settled, and a restart could take back what memory has.
The proof has one lemma per operator (`AdvancedIsGood`, `RecordedIsGood`,
`FinalizedIsGood`, `LoadedIsGood`, each yields a good state at least as far as
its argument) and one per action. `Advanced` needs that `Min`, a CHOOSE, is the
least member of a nonempty set of naturals, which `MinOfNat` derives from the
library's well-foundedness of `<`. `StepIInv` puts the actions together and shows
that the file never falls back, from which `Durability` follows.
`WindowRepeatsNothing` needs one invariant more, `TargetsOpen`: what a sweep has
still to poll in the window is settled neither in memory nor in the file,
although other handlers record, skip and save while it waits. An answer settles
the index it was asked for, and gaps close only at the end of a sweep.

The other proof modules, each from the assumption on the constants that its model
names, and for every value of them:

| module | theorem | |
|---|---|---|
| `OfflineSenderProofs` | `TypeCorrectness` | `SenderSpec => []SenderTypeOK` |
| | `DeliveredStored` | `SenderSpec => []DeliveredIndexWasStored` |
| | `DeliveredStaysPast` | `SenderSpec /\ []InRange => []DeliveredIsPast` |
| `OfflineDeliveryProofs` | `Refinement` | `Spec => ImplementsChannel` |
| `OfflineDeliveryInvariants` | `ReceiverRefinement` | `Spec => RP!Spec` |
| | `SenderRefinement` | `Spec /\ []SP!InRange => SP!SenderSpec` |
| | `TypeCorrectness` | `Spec => []TypeOK` |
| | `Honesty` | `Spec /\ []SP!InRange => []KnownIsHonest` |
| | `FutureStaysOpen` | `Spec /\ []SP!InRange => []FutureIsOpen` |
| `DeadDropServerProofs` | `TrueAnswers` | `Spec => []AnswersWereTrue` |
| | `AcceptedKept` | `Spec => []AcceptedIsKept` |
| | `LiveFilesStay` | `Spec => LiveFileStays` |
| | `TypeCorrectness` | `Spec => []TypeOK` |
| | `RateLimited` | `Spec => []PutsWithinRate` |
| `VaultProofs` | `TypeCorrectness` | `Spec => []TypeOK` |
| | `StorageKept` | `Spec => []StorageStays` |
| | `EditsKept` | `Spec => []NothingIsLost` |
| | `ClosedPacked` | `Spec => []ClosedIsPacked` |
| | `TornVaultHasStorage` | `Spec => []VaultOrStorage` |
| `LiveSessionProofs` | `OneCall` | `Spec => []OneCallAtATime` |
| | `TypeCorrectness` | `Spec => []TypeOK` |
| | `KeyAgreement` | `Spec => []KeysAgree` |
| | `MessagesRead` | `Spec => []MessagesAreRead` |
| | `OneSecret` | `Spec => []SecretsAgree` |
| `GroupsProofs` | `NobodyDropped` | `Spec => []NobodyIsDropped` |
| | `TypeCorrectness` | `Spec => []TypeOK` |

*Sender.* That something was stored under the index of a delivered message rests
on the answers: each OK or EXISTS that has reached the client stands for a file
that was there under that index (`AnswersCovered`), if only that of another
message, which is the second finding. That the index stays past needs `InRange`,
the saved index being at most `MaxIndex`: `parse_offline_u64` takes a larger one for
0 at the next start, and all indexes are used again. The program does not
prevent it; it takes 2^64 sends, or an index sync of a peer that claims as much.

*Refinement.* `OfflineChannel` sees the messages that were sent and those shown. The
invariant has to say why what a sweep shows was sent: a drop's answer is a blob of
the index that is being polled (`Answered`), also while the sweep waits for other
drops and the sender goes on; and why nothing is shown twice: the receiver
remembers all it has shown since it was started (`Remembered`). A
restart forgets both `since` and `seen`. Each action then
maps to `Send`, to `Show`, to `Restart` or to a stutter (`Maps`).

*Composition.* `OfflineDeliveryInvariants` instantiates the proof modules of receiver
and sender with the composition's own state (`RP`, `SP`). That the receiver's part
of each step is a step of `OfflineReceiver`, whatever the drops answer
(`ReceiverRefinement`), brings every theorem about the receiver into the
composition. The sender's own steps are those of `OfflineSender`, but for the index
sync: there `SenderNext` allows only a base up to the send index, or one that follows
the index of a stored message, and here it is the receiver's. That the receiver's base is of that kind follows from its honesty
(`HInv`): what it knows of the sender, in memory and in the file, is at most the
send index, or follows the index of a message that was stored. The second
case is a blob that is read before its sender has learned that it was stored. What
the base has passed was read, or skipped below what is known (`PassedIsSettled`
and `SkippedIsPast`, taken from the receiver), so it is of that kind too
(`BaseHonest`), which gives `FutureIsOpen` and `SenderRefinement`: the bases that
`OfflineSender` allows are enough. `InRange` is needed for the reason given
for the sender: after an index that a restart reads back as 0 the receiver is
ahead.

*Server.* What was true when a Rust handler looked may be false when it answers,
so the invariant remembers for each `pc` what the request has seen: `AllSeen` says
that a handler about to rename or remove has seen its key free, and that an answer
was seen. Only the steps that begin a request or give an answer have to be looked
at for it, as `seen` only grows in the others. `AckedKept` needs `Placed`: the
Python server is never at one of the awaits between check and write.

The rate limit has an invariant of its own, `RateInv`. `PutsAreLast`: `drop_put_times`
is what the list of all charges ends with, and what was dropped of it is older than a
window. So the charges of a window that is still open are among the last
`Len(puts)`, and these are at most `MaxPuts`. A window that ended more than a tick
ago gets no charge any more (`Closed`): a Rust handler that waits for the lock has
noted the present time or the one before (`Punctual`). Between the two is the
window that ended with the last tick (`Closing`): handlers that are `Late` may
still charge it, and once a handler that is on time has dropped what counts for
the late ones, nothing holds them back. But that handler has a slot itself, and the
semaphore is never overdrawn (`Slots`), so they are at most `MaxActive - 1`. In
the Python server nobody is late, and the limit is exact.

*Vault.* Who packs or unpacks holds the lock (`Mutex`), and beside it is nobody
who runs (`Alone`), so what it has packed is still what the storage holds
(`Safe`) when the vault is overwritten. That needs the counter to be at least the
number of running instances (`Counted`), and exactly that if nobody was killed
(`Exact`), for which the cardinality lemmas of the library are used; `Guarded`
and `VaultOrStorage` are about the order of the writes, `Manned` says that an
unpacked storage belongs to somebody. Each part has its own lemma, with one step
per action. `--wipe-all` may break all of them but the types, so the inductive
invariant is `TypeOK /\ (~wiped => Orderly)`: the parts hold until it meets an
instance that is past its start. The theorems say no more than the properties: they
show, for any number of instances, that the cases named there are the only ones.

*Session.* `OneCallAtATime` is inductive with `OneOffer`: the accept loop has at
most one stream, and neither waits for a caller while it has one nor has
anything while a call rings (`IInv`). The other properties depend on all that may be
on the wire, so `SessionInv` says what can be there, for each stream and direction:

- `Unused`, `Roles`: a stream that was not dialled yet is nowhere; a program dials
  its own calls and is offered those of the other one.
- `FramesOK`, `KeysOK`: the keys that a frame carries, and those that a program of a
  call holds, belong to that call's stream; a PQ secret is there only if both have `--pq`.
- `HelloFirst`: on its way to a program that does not know the other's key, no line
  (U) comes before a K, and if both are in the call the K is there, unless a frame was
  lost in accepting.
- `CallsOK`, of the caller and the callee of a stream: while the caller still dials,
  nothing has been written to the callee, and a hybrid call that is answered then is
  `early` (`Calling`); while it rings, the callee has written no key of its own, but may
  have answered the caller's Q (`Ringing`); once a hybrid call is answered, and not early,
  the lines to the callee are written with the callee's secret or, behind a Y, with the
  caller's (`Talking`), and either the callee's Q is on its way or the caller has
  answered it (`Exchange`).
- `SecretsOK`: every offline secret on its way goes to `High` and is the one that
  `Low` holds, and so is the one `High` holds, unless it was `renewed`.
- `GarbledUsed`, `RestTypes`: what the history variables speak of, and the other types.

Most parts have one step per action, which rests on lemmas about what the action
does (`DialFacts`, `AcceptFacts`, `KeyReadFacts`, ...) and on lemmas about queues
(`AddedOn`, `TailOrder`, `SpokenTail`, ...).
The proof shows that the cases which `KeysAgree`, `MessagesAreRead` and `SecretsAgree`
exempt are all there are, for any number of calls. TLC found that the
invariants hold on the instance of the run before they were proved.

*Groups.* The members in the owner's memory are those in its file (`SameList`), and
the list that a removal has worked out holds everybody taken in but the removed and
those who came during it (`RestIsComplete`).

`TypeOK` says more of the links than types, and needs `LinksOK`: each entry of a node
that has a stream, or dials one, `Claims` an end of it, and the two ends of a stream
belong to its caller and its callee, so entries of one node never share a stream
(`OwnStreams`). What a node does to many streams at once (closing, telling the
roster) is an `Evolve`: whoever had an end keeps it, but for the node itself and the
streams that it gives up. Each step is then shown to give up only streams of entries that
it clears, by one of `EntryStep`, `RowStep`, `StreamStep`, `DropStep`, `ReconcileStep`;
there is a lemma for each operator on a stream (`CutStream`, `PutStream`,
`TakenStream`) and on a record (`RedeemedTyped`, `MergedTyped`, ...).

Only model-checked: everything under fairness (liveness is beyond the prover), and the
violated properties.

## 7. Not modelled

- **SAM**: the dialogue with the router, in client and servers. A connect, an accept
  and a close are steps of the models; the dialogue needs a router to say more.
- **File and image transfer**: chunks of one ordered stream, counted up to the
  announced size, with nothing beside them.
- **Server list and ranking**: lists that only grow, and arithmetic on latencies
  that decides no question of safety. Pools of drops are taken as fixed.
- **Watcher** (`ddwatcher.py`): a program of its own that reads the state file and
  sends GETs, which change nothing at the drops but files that have expired.
- **Messages, images and receipts of groups**, see section 3.
- **Files of a locked profile**: `/lock` and `/unlock` change the files of
  `OfflineReceiver`; `LiveSession` has only what the peers tell each other.
- **User interface**, and exporting, which copies files and changes none.

Cryptography is left out throughout: a blob authenticates or it does not, a key
is what it was derived from. An index that a save writes beyond 64 bits is in
`SenderRestart`, but no run comes near it.
