-------------------------------- MODULE Vault --------------------------------
(***************************************************************************)
(* The storage under ~/.termchat-i2p and its encrypted vault (vault.py, the *)
(* start and the end of termchat-i2p.py), shared by the instances of the    *)
(* program that one user runs.                                              *)
(*                                                                         *)
(* The first instance extracts the vault, every instance counts itself in a *)
(* file of the storage, and the one that leaves the counter at zero packs   *)
(* the storage, overwrites the vault with it, writes the salt of its key    *)
(* and removes the storage.  Only the unpacking and the packing hold the    *)
(* lock of the vault.  A program may be killed between any two steps, and    *)
(* --wipe-all, which asks nobody but the user, may meet any of them.         *)
(***************************************************************************)
EXTENDS Integers, FiniteSets

CONSTANTS
  Insts,    \* the instances that may run at the same time
  Edits,    \* what instances save in the storage, each once
  Passes,   \* passphrases
  NoOne,    \* the vault lock is free; a vault has no passphrase
  MaxCount, \* bound: the instance counter, which crashes drive up
  AfterWipe \* bound: the instances that may run at the same time once
            \* --wipe-all has met running ones

ASSUME VaultAssumption ==
  /\ IsFiniteSet(Insts)
  /\ NoOne \notin Insts \cup Passes
  /\ MaxCount \in Nat \ {0}
  /\ AfterWipe \in Nat

VARIABLES
  plain,     \* the storage: whether it is there, the edits in it and its counter
  vault,     \* the vault file
  meta,      \* the file with its salt: "none", "stale" or "fits" the vault
  lock,      \* the holder of the vault lock
  tar,       \* the archive that each instance has in memory
  pc,        \* where each instance is
  pass,      \* FS_PASSPHRASE of each instance
  made,      \* history: the edits saved and not deleted by the user
  untidy,    \* history: an instance was killed, or --delete-profile has left
             \* the storage unpacked
  overlapped,\* history: a start met the first unpacking or the last packing
  wiped,     \* history: --wipe-all met an instance that was past its start
  broken     \* history: a storage that was left half unpacked or half removed
             \* has been packed

fileVars == <<plain, vault, meta>>
instVars == <<lock, tar, pc, pass>>
histVars == <<made, untidy, overlapped, wiped, broken>>
vars == <<fileVars, instVars, histVars>>

NoPlain == [there |-> FALSE, data |-> {}, count |-> 0, whole |-> TRUE]
NoTar   == [data |-> {}, count |-> 0]
NoVault == [is |-> "none", data |-> {}, count |-> 0, pass |-> NoOne]
Torn    == [NoVault EXCEPT !.is = "torn"]

Init ==
  /\ plain = NoPlain
  /\ vault = NoVault
  /\ meta = "none"
  /\ lock = NoOne
  /\ tar = [i \in Insts |-> NoTar]
  /\ pc = [i \in Insts |-> "off"]
  /\ pass = [i \in Insts |-> NoOne]
  /\ made = {}
  /\ untidy = FALSE
  /\ overlapped = FALSE
  /\ wiped = FALSE
  /\ broken = FALSE

At(S) == {i \in Insts : pc[i] \in S}
Running  == At({"running"})
Starting == At({"verify", "decrypt", "extract", "enter"})
Packing  == At({"encrypt", "write", "fill", "meta", "remove", "removing"})

Opens == vault.is = "sealed" /\ meta = "fits"
OpensWith(p) == Opens /\ vault.pass = p

GoTo(i, where) == pc' = [pc EXCEPT ![i] = where]
Quit(i) == GoTo(i, "off") /\ pass' = [pass EXCEPT ![i] = NoOne]

-----------------------------------------------------------------------------
(* The passphrase is asked for, and what is on disk decides how it is used. *)
Launch(i) ==
  /\ pc[i] = "off"
  /\ wiped => Cardinality(Insts \ At({"off"})) < AfterWipe
  /\ \E p \in Passes : pass' = [pass EXCEPT ![i] = p]
  /\ GoTo(i, IF vault.is = "none" THEN "enter"
             ELSE IF plain.there THEN "verify" ELSE "decrypt")
  /\ overlapped' = (overlapped \/ Packing # {} \/ (Starting # {} /\ Running = {}))
  /\ UNCHANGED <<fileVars, lock, tar, made, untidy, wiped, broken>>

(* fs_verify_passphrase, without the lock: a vault that is being rewritten  *)
(* may look like a wrong passphrase.                                        *)
Verify(i) ==
  /\ pc[i] = "verify"
  /\ \/ /\ vault.is = "none" \/ meta = "none" \/ OpensWith(pass[i])
        /\ GoTo(i, "enter") /\ UNCHANGED pass
     \/ /\ vault.is # "none" /\ meta # "none"
        /\ ~OpensWith(pass[i]) \/ lock # NoOne
        /\ Quit(i)
  /\ UNCHANGED <<fileVars, lock, tar, histVars>>

(* fs_decrypt with the lock, up to the middle of the extraction: it does    *)
(* not look whether the storage is there by now.                            *)
Decrypt(i) ==
  /\ pc[i] = "decrypt" /\ lock = NoOne
  /\ \/ /\ vault.is = "none"
        /\ GoTo(i, "enter")
        /\ UNCHANGED <<plain, lock, tar, pass>>
     \/ /\ vault.is # "none" /\ ~OpensWith(pass[i])
        /\ Quit(i)
        /\ UNCHANGED <<plain, lock, tar>>
     \/ /\ OpensWith(pass[i])
        /\ lock' = i
        /\ tar' = [tar EXCEPT ![i] = [data |-> vault.data, count |-> vault.count]]
        /\ GoTo(i, "extract")
        /\ \E part \in SUBSET vault.data :
             plain' = [plain EXCEPT !.there = TRUE, !.data = @ \cup part, !.whole = FALSE]
        /\ UNCHANGED pass
  /\ UNCHANGED <<vault, meta, histVars>>

(* The rest of the extraction.  Files of the archive replace those of the   *)
(* storage, its counter included; if the storage was wiped meanwhile, only  *)
(* what comes after that is there.                                          *)
Unpacked(i) ==
  \E part \in SUBSET tar[i].data, kept \in SUBSET (plain.data \ tar[i].data),
     n \in {0, tar[i].count} :
    /\ ~plain.whole => part = tar[i].data /\ n = tar[i].count
    /\ plain' = [there |-> TRUE, data |-> part \cup kept, count |-> n,
                 whole |-> ~plain.whole]

(* mutant: the lock file is not given back *)
ExtractHoldingLock(i) ==
  /\ pc[i] = "extract"
  /\ Unpacked(i)
  /\ tar' = [tar EXCEPT ![i] = NoTar]
  /\ GoTo(i, "enter")
  /\ UNCHANGED <<vault, meta, lock, pass, histVars>>

Extract(i) ==
  /\ pc[i] = "extract"
  /\ Unpacked(i)
  /\ lock' = IF lock = i THEN NoOne ELSE lock
  /\ tar' = [tar EXCEPT ![i] = NoTar]
  /\ GoTo(i, "enter")
  /\ UNCHANGED <<vault, meta, pass, histVars>>

(* The directories are made and fs_runtime_enter counts the instance. *)
Enter(i) ==
  /\ pc[i] = "enter"
  /\ plain.count < MaxCount
  /\ plain' = [plain EXCEPT !.there = TRUE, !.count = @ + 1]
  /\ GoTo(i, "running")
  /\ UNCHANGED <<vault, meta, lock, tar, pass, histVars>>

(* --delete-profile: the program ends without having counted itself, and    *)
(* the storage stays as it is.                                              *)
DeleteProfile(i) ==
  /\ pc[i] = "enter"
  /\ \E gone \in SUBSET plain.data :
       /\ plain' = [plain EXCEPT !.data = @ \ gone]
       /\ made' = made \ gone
  /\ untidy' = (untidy \/ plain.there)
  /\ Quit(i)
  /\ UNCHANGED <<vault, meta, lock, tar, overlapped, wiped, broken>>

(* --wipe-all: everything goes, whoever else runs, starts or packs, and the  *)
(* lock file with it: who holds the lock goes on, but keeps nobody out.      *)
Wipe(i) ==
  /\ pc[i] = "enter"
  /\ plain' = NoPlain /\ vault' = NoVault /\ meta' = "none"
  /\ lock' = NoOne
  /\ made' = {}
  /\ wiped' = (wiped \/ At({"off", "verify", "decrypt"}) # Insts \ {i})
  /\ Quit(i)
  /\ UNCHANGED <<tar, untidy, overlapped, broken>>

(* Something is saved; directories that are gone are made again. *)
Edit(i) ==
  /\ pc[i] = "running"
  /\ \E e \in Edits \ made :
       /\ plain' = [plain EXCEPT !.there = TRUE, !.data = @ \cup {e}]
       /\ made' = made \cup {e}
  /\ UNCHANGED <<vault, meta, instVars, untidy, overlapped, wiped, broken>>

(* mutant: the counter is not kept above zero *)
LeaveBelowZero(i) ==
  /\ pc[i] = "running"
  /\ plain' = [plain EXCEPT !.count = @ - 1]
  /\ Quit(i)
  /\ UNCHANGED <<vault, meta, lock, tar, histVars>>

(* mutant: the last but one packs *)
LeaveAtOne(i) ==
  /\ pc[i] = "running" /\ plain.there
  /\ plain' = [plain EXCEPT !.count = IF @ > 0 THEN @ - 1 ELSE 0]
  /\ IF plain.count <= 2 THEN GoTo(i, "encrypt") /\ UNCHANGED pass ELSE Quit(i)
  /\ overlapped' = (overlapped \/ (Running = {i} /\ Starting # {}))
  /\ UNCHANGED <<vault, meta, lock, tar, made, untidy, wiped, broken>>

(* mutant: the counter that was read is not saved *)
LeaveUncounted(i) ==
  /\ pc[i] = "running" /\ plain.there
  /\ IF plain.count = 1 THEN GoTo(i, "encrypt") /\ UNCHANGED pass ELSE Quit(i)
  /\ overlapped' = (overlapped \/ (Running = {i} /\ Starting # {}))
  /\ UNCHANGED <<plain, vault, meta, lock, tar, made, untidy, wiped, broken>>

(* The program ends: fs_runtime_leave, and the last one packs. *)
Leave(i) ==
  /\ pc[i] = "running"
  /\ IF ~plain.there
     THEN Quit(i) /\ UNCHANGED plain
     ELSE LET remaining == IF plain.count > 0 THEN plain.count - 1 ELSE 0
          IN  /\ plain' = [plain EXCEPT !.count = remaining]
              /\ IF remaining = 0 THEN GoTo(i, "encrypt") /\ UNCHANGED pass ELSE Quit(i)
  /\ overlapped' = (overlapped \/ (Running = {i} /\ Starting # {}))
  /\ UNCHANGED <<vault, meta, lock, tar, made, untidy, wiped, broken>>

(* fs_encrypt: the storage is packed with the lock held ... *)
Encrypt(i) ==
  /\ pc[i] = "encrypt" /\ lock = NoOne
  /\ IF ~plain.there
     THEN Quit(i) /\ UNCHANGED <<lock, tar, broken>>
     ELSE /\ lock' = i
          /\ tar' = [tar EXCEPT ![i] = [data |-> plain.data, count |-> plain.count]]
          /\ broken' = (broken \/ ~plain.whole)
          /\ GoTo(i, "write")
          /\ UNCHANGED pass
  /\ UNCHANGED <<fileVars, made, untidy, overlapped, wiped>>

(* ... the vault is opened for writing, which empties it, and filled, ... *)
WriteVault(i) ==
  /\ pc[i] = "write"
  /\ vault' = Torn
  /\ meta' = IF meta = "none" THEN "none" ELSE "stale"
  /\ GoTo(i, "fill")
  /\ UNCHANGED <<plain, lock, tar, pass, histVars>>

(* What is written when the vault, which may have been wiped meanwhile, is    *)
(* filled.                                                                  *)
Packed(i) ==
  vault' = IF vault.is = "none" THEN vault
           ELSE [is |-> "sealed", data |-> tar[i].data, count |-> tar[i].count,
                 pass |-> pass[i]]

(* mutant: the storage is removed before the salt is written *)
FillForgettingMeta(i) ==
  /\ pc[i] = "fill"
  /\ Packed(i)
  /\ GoTo(i, "remove")
  /\ UNCHANGED <<plain, meta, lock, tar, pass, histVars>>

Fill(i) ==
  /\ pc[i] = "fill"
  /\ Packed(i)
  /\ GoTo(i, "meta")
  /\ UNCHANGED <<plain, meta, lock, tar, pass, histVars>>

(* ... the salt of its key is written, ... *)
WriteMeta(i) ==
  /\ pc[i] = "meta"
  /\ meta' = IF vault.is = "none" THEN "stale" ELSE "fits"
  /\ GoTo(i, "remove")
  /\ UNCHANGED <<plain, vault, lock, tar, pass, histVars>>

(* ... and fs_remove_plain removes the storage, file by file. *)
Remove(i) ==
  /\ pc[i] = "remove"
  /\ \E rest \in SUBSET plain.data, n \in {0, plain.count} :
       plain' = [plain EXCEPT !.data = rest, !.count = n, !.whole = ~plain.there]
  /\ GoTo(i, "removing")
  /\ UNCHANGED <<vault, meta, lock, tar, pass, histVars>>

Removed(i) ==
  /\ pc[i] = "removing"
  /\ plain' = NoPlain
  /\ lock' = IF lock = i THEN NoOne ELSE lock
  /\ tar' = [tar EXCEPT ![i] = NoTar]
  /\ Quit(i)
  /\ UNCHANGED <<vault, meta, histVars>>

(* import_encrypted_vault: a vault from another computer, if there is nothing *)
(* here yet.                                                                 *)
Import ==
  /\ ~plain.there /\ vault.is = "none" /\ meta = "none"
  /\ \E d \in SUBSET Edits, p \in Passes :
       /\ vault' = [is |-> "sealed", data |-> d, count |-> 0, pass |-> p]
       /\ made' = d
  /\ meta' = "fits"
  /\ overlapped' = (overlapped \/ At({"off"}) # Insts)
  /\ UNCHANGED <<plain, instVars, untidy, wiped, broken>>

(* The program is killed; the system frees its locks. *)
Crash(i) ==
  /\ pc[i] # "off"
  /\ Quit(i)
  /\ lock' = IF lock = i THEN NoOne ELSE lock
  /\ tar' = [tar EXCEPT ![i] = NoTar]
  /\ untidy' = TRUE
  /\ UNCHANGED <<fileVars, made, overlapped, wiped, broken>>

UnlockStep(i) == Decrypt(i) \/ Extract(i)
PackStep(i) ==
  Encrypt(i) \/ WriteVault(i) \/ Fill(i) \/ WriteMeta(i) \/ Remove(i) \/ Removed(i)

Next ==
  \/ \E i \in Insts :
       \/ Launch(i) \/ Verify(i) \/ Enter(i) \/ DeleteProfile(i) \/ Wipe(i)
       \/ Edit(i) \/ Leave(i) \/ UnlockStep(i) \/ PackStep(i) \/ Crash(i)
  \/ Import

Spec == Init /\ [][Next]_vars

(* The steps under the lock go on, and who waits for it gets it in the end. *)
Fairness == \A i \in Insts : SF_vars(UnlockStep(i)) /\ SF_vars(PackStep(i))

FairSpec == Spec /\ Fairness

-----------------------------------------------------------------------------
PlainType == [there: BOOLEAN, data: SUBSET Edits, count: 0..MaxCount, whole: BOOLEAN]
VaultType == [is: {"none", "torn", "sealed"}, data: SUBSET Edits, count: 0..MaxCount,
              pass: Passes \cup {NoOne}]

TypeOK ==
  /\ plain \in PlainType
  /\ vault \in VaultType
  /\ meta \in {"none", "stale", "fits"}
  /\ lock \in Insts \cup {NoOne}
  /\ tar \in [Insts -> [data: SUBSET Edits, count: 0..MaxCount]]
  /\ pc \in [Insts -> {"off", "verify", "decrypt", "extract", "enter", "running",
                       "encrypt", "write", "fill", "meta", "remove", "removing"}]
  /\ pass \in [Insts -> Passes \cup {NoOne}]
  /\ made \subseteq Edits
  /\ {untidy, overlapped, wiped, broken} \subseteq BOOLEAN

(* An instance that runs has its storage, and its counter keeps the others   *)
(* from packing it, after crashes too (fs_runtime_enter, fs_runtime_leave).   *)
(* Two things take it away: a start that met the first unpacking or the last  *)
(* packing, as the storage is looked for at 511 before the lock is taken and  *)
(* the counter is left at 7265 before fs_encrypt takes it; and --wipe-all.    *)
StorageStays ==
  ~overlapped /\ ~wiped /\ Running # {} =>
    plain.there /\ plain.count >= Cardinality(Running)

(* Every edit is in the storage or in a vault that opens, at every moment of *)
(* packing and unpacking and when the program is killed in between           *)
(* (fs_encrypt, fs_decrypt).  It may be lost by the two things named above,   *)
(* and once a half storage is packed: after a kill in the middle of an        *)
(* unpacking or a removal the next start takes what is left for the storage   *)
(* (510-513), and its last instance packs that over the complete vault.       *)
NothingIsLost ==
  ~overlapped /\ ~wiped /\ ~broken =>
    made \subseteq (plain.data \cup (IF Opens THEN vault.data ELSE {}))

(* When no instance is left the storage is packed, as long as no instance    *)
(* was ever killed, no --delete-profile ran, and the two things named above   *)
(* did not happen (fs_runtime_leave, fs_remove_plain).  That a single kill    *)
(* ends this for good is what EncryptedOnShutdown shows.                      *)
ClosedIsPacked ==
  ~overlapped /\ ~wiped /\ ~untidy /\ At({"off"}) = Insts => ~plain.there

(* README.md:45: "on shutdown, it is encrypted again so profiles, blobs,     *)
(* received files, and images remain unreadable while the app is closed".    *)
(* So when the last instance ends in good order the storage is gone.  The    *)
(* counter of an instance that was killed stays in the storage (vault.py:321 *)
(* counts on from it): from then on the last one to leave never sees zero.   *)
EncryptedOnShutdown ==
  [][\A i \in Insts : (Leave(i) \/ Removed(i)) /\ At({"off"})' = Insts => ~plain'.there]_vars

(* Whoever is killed and whatever starts overlap, a vault that does not open *)
(* lies beside the storage it was to hold, unless --wipe-all has taken that   *)
(* away (the order of fs_encrypt's writes, the vault lock).                   *)
VaultOrStorage == ~wiped /\ vault.is # "none" /\ ~Opens => plain.there

(* Who waits for the vault lock gets it, also from a holder that is killed   *)
(* (fs_file_lock).                                                           *)
LockComesFree ==
  \A i \in Insts : pc[i] \in {"decrypt", "encrypt"} ~> pc[i] \notin {"decrypt", "encrypt"}
=============================================================================
