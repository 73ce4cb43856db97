----------------------------- MODULE VaultProofs -----------------------------
(***************************************************************************)
(* Proofs about Vault, for any instances, edits, passphrases and counter:   *)
(* its type invariant and its four safety invariants.                       *)
(***************************************************************************)
EXTENDS Vault, FiniteSetTheorems, TLAPS

Holders == {"extract", "write", "fill", "meta", "remove", "removing"}

(* Only the holder of the vault lock unpacks and packs. *)
Mutex == \A i \in Insts : pc[i] \in Holders <=> lock = i

(* What holds for the holder of the lock, whatever the others do: the vault  *)
(* is only touched while the storage is there, only when it opens again is   *)
(* the storage removed, and what is unpacked is what the vault holds.        *)
Guarded ==
  \A i \in Insts :
    /\ pc[i] \in {"extract", "write", "fill", "meta"} => plain.there
    /\ pc[i] \in {"extract", "remove", "removing"} => Opens
    /\ pc[i] = "meta" => vault.is = "sealed"
    /\ pc[i] = "fill" => vault.is = "torn"
    /\ pc[i] = "extract" =>
         ~plain.whole /\ tar[i].data = vault.data /\ tar[i].count = vault.count

Empty == ~plain.there => plain = NoPlain

(* The counter covers those who run. *)
Counted ==
  ~overlapped =>
    /\ Running # {} => plain.there
    /\ plain.count >= Cardinality(Running)

(* Who unpacks or packs is alone. *)
Alone ==
  ~overlapped =>
    \A i \in Insts :
      /\ pc[i] \in Holders \cup {"decrypt", "encrypt"} =>
           \A j \in Insts \ {i} : pc[j] = "off"
      /\ pc[i] = "decrypt" => ~plain.there
      /\ pc[i] \in {"verify", "enter"} => plain.there \/ vault.is = "none"

(* Where the edits are, as a vault is unpacked and packed. *)
Safe ==
  ~overlapped /\ ~broken =>
    /\ NothingIsLost
    /\ plain.there /\ plain.whole => made \subseteq plain.data
    /\ ~plain.whole => Opens
    /\ \A i \in Insts :
         /\ pc[i] \in {"write", "fill", "meta", "remove"} => plain.whole
         /\ pc[i] = "encrypt" => plain.there
         /\ pc[i] \in {"write", "fill"} => made \subseteq tar[i].data
         /\ pc[i] \in {"extract", "meta", "remove", "removing"} => made \subseteq vault.data

(* Where nobody was killed the counter is exact, also the one in the vault ... *)
Exact ==
  ~overlapped /\ ~untidy =>
    /\ plain.count = Cardinality(Running)
    /\ vault.is = "sealed" => vault.count = 0
    /\ \A i \in Insts : pc[i] \in {"write", "fill"} => tar[i].count = 0

(* ... and the storage lies open only while somebody is there to pack it. *)
Manned ==
  ~overlapped /\ ~untidy /\ plain.there =>
    \E i \in Insts : pc[i] \notin {"off", "verify", "decrypt"}

Orderly ==
  /\ Mutex /\ Guarded /\ Empty /\ VaultOrStorage
  /\ Counted /\ Alone /\ Safe /\ Exact /\ Manned

(* All of it holds until --wipe-all meets an instance past its start. *)
IInv == TypeOK /\ (~wiped => Orderly)

-----------------------------------------------------------------------------
(* Every step keeps the types. *)
LEMMA TypeStep ==
  ASSUME TypeOK, [Next]_vars
  PROVE  TypeOK'
<1> USE VaultAssumption DEF TypeOK, PlainType, VaultType, GoTo, Quit,
    fileVars, instVars, histVars
<1>1. ASSUME NEW i \in Insts, Launch(i) PROVE TypeOK'
  BY <1>1 DEF Launch
<1>2. ASSUME NEW i \in Insts, Verify(i) PROVE TypeOK'
  BY <1>2 DEF Verify
<1>3. ASSUME NEW i \in Insts, Decrypt(i) PROVE TypeOK'
  <2>1. plain' \in PlainType
    <3>1. CASE OpensWith(pass[i])
      <4>1. PICK part \in SUBSET vault.data :
              plain' = [plain EXCEPT !.there = TRUE, !.data = @ \cup part, !.whole = FALSE]
        BY <1>3, <3>1 DEF Decrypt, OpensWith, Opens
      <4> QED
        BY <4>1
    <3>2. CASE ~OpensWith(pass[i])
      BY <1>3, <3>2 DEF Decrypt
    <3> QED
      BY <3>1, <3>2
  <2>2. /\ lock' \in Insts \cup {NoOne} /\ pass' \in [Insts -> Passes \cup {NoOne}]
    BY <1>3 DEF Decrypt
  <2>4. tar' \in [Insts -> [data: SUBSET Edits, count: 0..MaxCount]]
    <3>1. tar' \in {tar, [tar EXCEPT ![i] = [data |-> vault.data, count |-> vault.count]]}
      BY <1>3 DEF Decrypt
    <3>2. [data |-> vault.data, count |-> vault.count] \in [data: SUBSET Edits, count: 0..MaxCount]
      OBVIOUS
    <3> QED
      BY <3>1, <3>2
  <2>3. pc' \in [Insts -> {"off", "verify", "decrypt", "extract", "enter", "running",
                          "encrypt", "write", "fill", "meta", "remove", "removing"}]
    BY <1>3 DEF Decrypt
  <2> QED
    BY <1>3, <2>1, <2>2, <2>3, <2>4 DEF Decrypt
<1>4. ASSUME NEW i \in Insts, Extract(i) PROVE TypeOK'
  <2>1. PICK part \in SUBSET tar[i].data, kept \in SUBSET (plain.data \ tar[i].data),
             n \in {0, tar[i].count} :
          plain' = [there |-> TRUE, data |-> part \cup kept, count |-> n,
                    whole |-> ~plain.whole]
    <3>1. Unpacked(i)
      BY <1>4 DEF Extract
    <3> HIDE DEF TypeOK, PlainType, VaultType, GoTo, Quit, fileVars, instVars, histVars
    <3> QED
      BY <3>1, Zenon DEF Unpacked
  <2>2. plain' \in PlainType
    <3>1. tar[i].data \in SUBSET Edits /\ tar[i].count \in 0..MaxCount
      OBVIOUS
    <3>2. part \cup kept \in SUBSET Edits /\ n \in 0..MaxCount
      BY <3>1
    <3> QED
      BY <2>1, <3>2
  <2>3. tar' \in [Insts -> [data: SUBSET Edits, count: 0..MaxCount]]
    BY <1>4 DEF Extract, NoTar
  <2> QED
    BY <1>4, <2>2, <2>3 DEF Extract
<1>5. ASSUME NEW i \in Insts, Enter(i) PROVE TypeOK'
  <2>1. plain.count + 1 \in 0..MaxCount
    BY <1>5 DEF Enter
  <2>2. plain' \in PlainType
    BY <1>5, <2>1 DEF Enter
  <2> QED
    BY <1>5, <2>2 DEF Enter
<1>6. ASSUME NEW i \in Insts, DeleteProfile(i) PROVE TypeOK'
  BY <1>6 DEF DeleteProfile
<1>7. ASSUME NEW i \in Insts, Wipe(i) PROVE TypeOK'
  BY <1>7 DEF Wipe, NoPlain, NoVault
<1>8. ASSUME NEW i \in Insts, Edit(i) PROVE TypeOK'
  <2>1. PICK e \in Edits \ made :
          /\ plain' = [plain EXCEPT !.there = TRUE, !.data = @ \cup {e}]
          /\ made' = made \cup {e}
    BY <1>8, Zenon DEF Edit
  <2>2. plain' \in PlainType /\ made' \subseteq Edits
    BY <2>1
  <2> QED
    BY <1>8, <2>2 DEF Edit
<1>9. ASSUME NEW i \in Insts, Leave(i) PROVE TypeOK'
  BY <1>9, SMTT(60) DEF Leave
<1>10. ASSUME NEW i \in Insts, Encrypt(i) PROVE TypeOK'
  <2>1. tar' \in [Insts -> [data: SUBSET Edits, count: 0..MaxCount]]
    <3>1. tar' \in {tar, [tar EXCEPT ![i] = [data |-> plain.data, count |-> plain.count]]}
      BY <1>10 DEF Encrypt
    <3>2. [data |-> plain.data, count |-> plain.count] \in [data: SUBSET Edits, count: 0..MaxCount]
      OBVIOUS
    <3> QED
      BY <3>1, <3>2
  <2> QED
    BY <1>10, <2>1 DEF Encrypt
<1>11. ASSUME NEW i \in Insts, WriteVault(i) PROVE TypeOK'
  BY <1>11 DEF WriteVault, Torn, NoVault
<1>12. ASSUME NEW i \in Insts, Fill(i) PROVE TypeOK'
  BY <1>12 DEF Fill, Packed
<1>13. ASSUME NEW i \in Insts, WriteMeta(i) PROVE TypeOK'
  BY <1>13 DEF WriteMeta
<1>14. ASSUME NEW i \in Insts, Remove(i) PROVE TypeOK'
  <2>1. PICK rest \in SUBSET plain.data, n \in {0, plain.count} :
          plain' = [plain EXCEPT !.data = rest, !.count = n, !.whole = ~plain.there]
    BY <1>14 DEF Remove
  <2>2. n \in 0..MaxCount /\ rest \in SUBSET Edits
    OBVIOUS
  <2>3. plain' \in PlainType
    BY <2>1, <2>2
  <2> QED
    BY <1>14, <2>3 DEF Remove
<1>15. ASSUME NEW i \in Insts, Removed(i) PROVE TypeOK'
  BY <1>15 DEF Removed, NoPlain, NoTar
<1>16. ASSUME NEW i \in Insts, Crash(i) PROVE TypeOK'
  BY <1>16 DEF Crash, NoTar
<1>17. ASSUME Import PROVE TypeOK'
  BY <1>17 DEF Import, fileVars, instVars
<1>18. CASE UNCHANGED vars
  BY <1>18 DEF vars, fileVars, instVars, histVars
<1> QED
  BY <1>1, <1>2, <1>3, <1>4, <1>5, <1>6, <1>7, <1>8, <1>9, <1>10, <1>11,
     <1>12, <1>13, <1>14, <1>15, <1>16, <1>17, <1>18 DEF Next, UnlockStep,
     PackStep

(* What --wipe-all meets while the invariant still counts. *)
LEMMA WipeMeets ==
  ASSUME TypeOK, NEW i \in Insts, Wipe(i), ~wiped'
  PROVE  \A j \in Insts : pc'[j] \in {"off", "verify", "decrypt"}
<1>1. At({"off", "verify", "decrypt"}) = Insts \ {i}
  BY DEF Wipe
<1>2. \A j \in Insts \ {i} : pc[j] \in {"off", "verify", "decrypt"}
  BY <1>1 DEF At
<1> QED
  BY <1>2 DEF Wipe, Quit, GoTo, TypeOK

(* An extraction that nobody disturbs brings all of the vault. *)
LEMMA ExtractBrings ==
  ASSUME TypeOK, Guarded, NEW i \in Insts, Extract(i)
  PROVE  /\ plain'.there /\ plain'.whole
         /\ vault.data \subseteq plain'.data
         /\ plain'.count = vault.count
<1>1. ~plain.whole /\ tar[i].data = vault.data /\ tar[i].count = vault.count
  BY DEF Extract, Guarded
<1>2. PICK kept \in SUBSET (plain.data \ tar[i].data) :
        plain' = [there |-> TRUE, data |-> tar[i].data \cup kept, count |-> tar[i].count,
                  whole |-> ~plain.whole]
  BY <1>1 DEF Extract, Unpacked
<1> QED
  BY <1>1, <1>2

(* The lock is taken before a vault is unpacked or packed, and kept until the end. *)
LEMMA MutexStep ==
  ASSUME TypeOK, Mutex, [Next]_vars, ~wiped'
  PROVE  Mutex'
<1> USE VaultAssumption DEF TypeOK, Mutex, Holders, GoTo, Quit, fileVars,
    instVars, histVars
<1>1. ASSUME NEW i \in Insts, Launch(i) PROVE Mutex'
  BY <1>1 DEF Launch
<1>2. ASSUME NEW i \in Insts, Verify(i) PROVE Mutex'
  BY <1>2 DEF Verify
<1>3. ASSUME NEW i \in Insts, Decrypt(i) PROVE Mutex'
  <2>1. \A j \in Insts : pc[j] \notin Holders
    BY <1>3 DEF Decrypt
  <2>2. CASE lock' = i
    BY <1>3, <2>1, <2>2 DEF Decrypt
  <2>3. CASE lock' = lock /\ (GoTo(i, "enter") \/ GoTo(i, "off"))
    BY <1>3, <2>1, <2>3 DEF Decrypt
  <2> QED
    BY <1>3, <2>2, <2>3 DEF Decrypt
<1>4. ASSUME NEW i \in Insts, Extract(i) PROVE Mutex'
  BY <1>4 DEF Extract
<1>5. ASSUME NEW i \in Insts, Enter(i) PROVE Mutex'
  BY <1>5 DEF Enter
<1>6. ASSUME NEW i \in Insts, DeleteProfile(i) PROVE Mutex'
  BY <1>6 DEF DeleteProfile
<1>7. ASSUME NEW i \in Insts, Wipe(i) PROVE Mutex'
  BY <1>7, WipeMeets DEF Wipe, NoPlain, NoVault
<1>8. ASSUME NEW i \in Insts, Edit(i) PROVE Mutex'
  BY <1>8 DEF Edit
<1>9. ASSUME NEW i \in Insts, Leave(i) PROVE Mutex'
  BY <1>9 DEF Leave
<1>10. ASSUME NEW i \in Insts, Encrypt(i) PROVE Mutex'
  BY <1>10 DEF Encrypt
<1>11. ASSUME NEW i \in Insts, WriteVault(i) PROVE Mutex'
  BY <1>11 DEF WriteVault, Torn, NoVault
<1>12. ASSUME NEW i \in Insts, Fill(i) PROVE Mutex'
  BY <1>12 DEF Fill, Packed
<1>13. ASSUME NEW i \in Insts, WriteMeta(i) PROVE Mutex'
  BY <1>13 DEF WriteMeta
<1>14. ASSUME NEW i \in Insts, Remove(i) PROVE Mutex'
  BY <1>14 DEF Remove
<1>15. ASSUME NEW i \in Insts, Removed(i) PROVE Mutex'
  BY <1>15 DEF Removed, NoPlain, NoTar
<1>16. ASSUME NEW i \in Insts, Crash(i) PROVE Mutex'
  BY <1>16 DEF Crash, NoTar
<1>17. ASSUME Import PROVE Mutex'
  BY <1>17 DEF Import, fileVars, instVars
<1>18. CASE UNCHANGED vars
  BY <1>18 DEF vars, fileVars, instVars, histVars
<1> QED
  BY <1>1, <1>2, <1>3, <1>4, <1>5, <1>6, <1>7, <1>8, <1>9, <1>10, <1>11,
     <1>12, <1>13, <1>14, <1>15, <1>16, <1>17, <1>18 DEF Next, UnlockStep,
     PackStep

(* The vault is touched with the storage there, the storage removed with a vault that opens. *)
LEMMA GuardedStep ==
  ASSUME TypeOK, Mutex, Guarded, [Next]_vars, ~wiped'
  PROVE  Guarded'
<1> USE VaultAssumption DEF TypeOK, Mutex, Guarded, PlainType, VaultType,
    Holders, Opens, OpensWith, GoTo, Quit, fileVars, instVars, histVars
<1>1. ASSUME NEW i \in Insts, Launch(i) PROVE Guarded'
  BY <1>1 DEF Launch
<1>2. ASSUME NEW i \in Insts, Verify(i) PROVE Guarded'
  BY <1>2 DEF Verify
<1>3. ASSUME NEW i \in Insts, Decrypt(i) PROVE Guarded'
  <2>1. CASE vault.is = "none"
    BY <1>3, <2>1 DEF Decrypt, OpensWith, Opens
  <2>2. CASE vault.is # "none" /\ ~OpensWith(pass[i])
    BY <1>3, <2>2, ZenonT(60) DEF Decrypt, OpensWith, Opens
  <2>3. CASE OpensWith(pass[i])
    <3>1. /\ pc' = [pc EXCEPT ![i] = "extract"] /\ vault' = vault /\ meta' = meta
          /\ tar'[i] = [data |-> vault.data, count |-> vault.count]
          /\ plain'.there /\ ~plain'.whole
      BY <1>3, <2>3 DEF Decrypt
    <3>2. \A j \in Insts : pc[j] \notin Holders
      BY <1>3 DEF Decrypt
    <3> QED
      BY <2>3, <3>1, <3>2
  <2> QED
    BY <2>1, <2>2, <2>3
<1>4. ASSUME NEW i \in Insts, Extract(i) PROVE Guarded'
  BY <1>4, ExtractBrings DEF Extract
<1>5. ASSUME NEW i \in Insts, Enter(i) PROVE Guarded'
  BY <1>5 DEF Enter
<1>6. ASSUME NEW i \in Insts, DeleteProfile(i) PROVE Guarded'
  BY <1>6 DEF DeleteProfile
<1>7. ASSUME NEW i \in Insts, Wipe(i) PROVE Guarded'
  BY <1>7, WipeMeets
<1>8. ASSUME NEW i \in Insts, Edit(i) PROVE Guarded'
  BY <1>8 DEF Edit
<1>9. ASSUME NEW i \in Insts, Leave(i) PROVE Guarded'
  BY <1>9, SMTT(60) DEF Leave
<1>10. ASSUME NEW i \in Insts, Encrypt(i) PROVE Guarded'
  BY <1>10 DEF Encrypt
<1>11. ASSUME NEW i \in Insts, WriteVault(i) PROVE Guarded'
  BY <1>11 DEF WriteVault, Torn, NoVault
<1>12. ASSUME NEW i \in Insts, Fill(i) PROVE Guarded'
  BY <1>12 DEF Fill, Packed
<1>13. ASSUME NEW i \in Insts, WriteMeta(i) PROVE Guarded'
  BY <1>13 DEF WriteMeta
<1>14. ASSUME NEW i \in Insts, Remove(i) PROVE Guarded'
  BY <1>14 DEF Remove
<1>15. ASSUME NEW i \in Insts, Removed(i) PROVE Guarded'
  BY <1>15 DEF Removed, NoPlain, NoTar
<1>16. ASSUME NEW i \in Insts, Crash(i) PROVE Guarded'
  BY <1>16 DEF Crash, NoTar
<1>17. ASSUME Import PROVE Guarded'
  BY <1>17 DEF Import, fileVars, instVars
<1>18. CASE UNCHANGED vars
  BY <1>18 DEF vars, fileVars, instVars, histVars
<1> QED
  BY <1>1, <1>2, <1>3, <1>4, <1>5, <1>6, <1>7, <1>8, <1>9, <1>10, <1>11,
     <1>12, <1>13, <1>14, <1>15, <1>16, <1>17, <1>18 DEF Next, UnlockStep,
     PackStep

(* A vault that does not open has its storage. *)
LEMMA StorageStep ==
  ASSUME TypeOK, Mutex, Guarded, Empty, VaultOrStorage, [Next]_vars, ~wiped'
  PROVE  (Empty /\ VaultOrStorage)'
<1> USE VaultAssumption DEF TypeOK, Mutex, Guarded, Empty, VaultOrStorage,
    NoPlain, PlainType, VaultType, Holders, Opens, OpensWith, GoTo, Quit,
    fileVars, instVars, histVars
<1>1. ASSUME NEW i \in Insts, Launch(i) PROVE (Empty /\ VaultOrStorage)'
  BY <1>1 DEF Launch
<1>2. ASSUME NEW i \in Insts, Verify(i) PROVE (Empty /\ VaultOrStorage)'
  BY <1>2 DEF Verify
<1>3. ASSUME NEW i \in Insts, Decrypt(i) PROVE (Empty /\ VaultOrStorage)'
  BY <1>3 DEF Decrypt
<1>4. ASSUME NEW i \in Insts, Extract(i) PROVE (Empty /\ VaultOrStorage)'
  BY <1>4, ExtractBrings DEF Extract
<1>5. ASSUME NEW i \in Insts, Enter(i) PROVE (Empty /\ VaultOrStorage)'
  BY <1>5 DEF Enter
<1>6. ASSUME NEW i \in Insts, DeleteProfile(i) PROVE (Empty /\ VaultOrStorage)'
  <2>1. PICK gone \in SUBSET plain.data : plain' = [plain EXCEPT !.data = @ \ gone]
    BY <1>6 DEF DeleteProfile
  <2>2. CASE plain.there
    BY <1>6, <2>1, <2>2 DEF DeleteProfile
  <2>3. CASE ~plain.there
    <3>1. plain' = plain
      BY <2>1, <2>3
    <3> QED
      BY <1>6, <2>3, <3>1 DEF DeleteProfile
  <2> QED
    BY <2>2, <2>3
<1>7. ASSUME NEW i \in Insts, Wipe(i) PROVE (Empty /\ VaultOrStorage)'
  BY <1>7, WipeMeets DEF Wipe, NoVault
<1>8. ASSUME NEW i \in Insts, Edit(i) PROVE (Empty /\ VaultOrStorage)'
  BY <1>8 DEF Edit
<1>9. ASSUME NEW i \in Insts, Leave(i) PROVE (Empty /\ VaultOrStorage)'
  BY <1>9 DEF Leave
<1>10. ASSUME NEW i \in Insts, Encrypt(i) PROVE (Empty /\ VaultOrStorage)'
  BY <1>10 DEF Encrypt
<1>11. ASSUME NEW i \in Insts, WriteVault(i) PROVE (Empty /\ VaultOrStorage)'
  BY <1>11 DEF WriteVault, Torn, NoVault
<1>12. ASSUME NEW i \in Insts, Fill(i) PROVE (Empty /\ VaultOrStorage)'
  BY <1>12 DEF Fill, Packed
<1>13. ASSUME NEW i \in Insts, WriteMeta(i) PROVE (Empty /\ VaultOrStorage)'
  BY <1>13 DEF WriteMeta
<1>14. ASSUME NEW i \in Insts, Remove(i) PROVE (Empty /\ VaultOrStorage)'
  <2>1. PICK rest \in SUBSET plain.data, n \in {0, plain.count} :
          plain' = [plain EXCEPT !.data = rest, !.count = n, !.whole = ~plain.there]
    BY <1>14 DEF Remove
  <2>2. CASE plain.there
    BY <1>14, <2>1, <2>2 DEF Remove
  <2>3. CASE ~plain.there
    <3>1. rest = {} /\ n = 0
      BY <2>3
    <3>2. plain' = NoPlain
      BY <2>1, <2>3, <3>1
    <3> QED
      BY <1>14, <2>3, <3>2 DEF Remove
  <2> QED
    BY <2>2, <2>3
<1>15. ASSUME NEW i \in Insts, Removed(i) PROVE (Empty /\ VaultOrStorage)'
  BY <1>15 DEF Removed, NoTar
<1>16. ASSUME NEW i \in Insts, Crash(i) PROVE (Empty /\ VaultOrStorage)'
  BY <1>16 DEF Crash, NoTar
<1>17. ASSUME Import PROVE (Empty /\ VaultOrStorage)'
  BY <1>17 DEF Import, fileVars, instVars
<1>18. CASE UNCHANGED vars
  BY <1>18 DEF vars, fileVars, instVars, histVars
<1> QED
  BY <1>1, <1>2, <1>3, <1>4, <1>5, <1>6, <1>7, <1>8, <1>9, <1>10, <1>11,
     <1>12, <1>13, <1>14, <1>15, <1>16, <1>17, <1>18 DEF Next, UnlockStep,
     PackStep

-----------------------------------------------------------------------------
(* How a step of one instance changes the number of those that run. *)
LEMMA RunningCount ==
  ASSUME NEW i \in Insts, \A j \in Insts \ {i} : pc'[j] = pc[j]
  PROVE  /\ Cardinality(Running) \in Nat
         /\ pc[i] = "running" => Cardinality(Running) > 0
         /\ Running = {} => Cardinality(Running) = 0
         /\ (pc[i] = "running" <=> pc'[i] = "running") => Running' = Running
         /\ pc[i] # "running" /\ pc'[i] = "running" =>
              Cardinality(Running') = Cardinality(Running) + 1
         /\ pc[i] = "running" /\ pc'[i] # "running" =>
              Cardinality(Running') = Cardinality(Running) - 1
<1>1. IsFiniteSet(Running) /\ Cardinality(Running) \in Nat
  <2>1. Running \subseteq Insts
    BY DEF Running, At
  <2> QED
    BY <2>1, VaultAssumption, FS_Subset, FS_CardinalityType
<1>2. pc[i] = "running" => Cardinality(Running) > 0
  <2>1. SUFFICES ASSUME pc[i] = "running" PROVE Running # {}
    BY <1>1, FS_EmptySet
  <2> QED
    BY <2>1 DEF Running, At
<1>3. (pc[i] = "running" <=> pc'[i] = "running") => Running' = Running
  BY DEF Running, At
<1>4. ASSUME pc[i] # "running", pc'[i] = "running"
      PROVE  Cardinality(Running') = Cardinality(Running) + 1
  <2>1. Running' = Running \cup {i} /\ i \notin Running
    BY <1>4 DEF Running, At
  <2> QED
    BY <1>1, <2>1, FS_AddElement
<1>5. ASSUME pc[i] = "running", pc'[i] # "running"
      PROVE  Cardinality(Running') = Cardinality(Running) - 1
  <2>1. Running' = Running \ {i} /\ i \in Running
    BY <1>5 DEF Running, At
  <2> QED
    BY <1>1, <2>1, FS_RemoveElement
<1>6. Running = {} => Cardinality(Running) = 0
  BY FS_EmptySet
<1> QED
  BY <1>6, <1>1, <1>2, <1>3, <1>4, <1>5

(* Running instances keep the storage, and the counter above their number. *)
LEMMA CountedStep ==
  ASSUME TypeOK, Guarded, Empty, Counted, Alone, [Next]_vars, ~wiped'
  PROVE  Counted'
<1>1. ASSUME NEW i \in Insts, Launch(i) PROVE Counted'
  <2>1. /\ \A j \in Insts \ {i} : pc'[j] = pc[j]
        /\ pc[i] # "running" /\ pc'[i] # "running"
    BY <1>1 DEF Launch, GoTo, Quit, TypeOK
  <2>2. Running' = Running
    BY <2>1, RunningCount
  <2> QED
    BY <1>1, <2>2, RunningCount DEF Launch, Counted, histVars, fileVars
<1>2. ASSUME NEW i \in Insts, Verify(i) PROVE Counted'
  <2>1. /\ \A j \in Insts \ {i} : pc'[j] = pc[j]
        /\ pc[i] # "running" /\ pc'[i] # "running"
    BY <1>2 DEF Verify, GoTo, Quit, TypeOK
  <2>2. Running' = Running
    BY <2>1, RunningCount
  <2> QED
    BY <1>2, <2>2, RunningCount DEF Verify, Counted, histVars, fileVars
<1>3. ASSUME NEW i \in Insts, Decrypt(i) PROVE Counted'
  <2>1. /\ \A j \in Insts \ {i} : pc'[j] = pc[j]
        /\ pc[i] # "running" /\ pc'[i] # "running"
    BY <1>3 DEF Decrypt, GoTo, Quit, TypeOK
  <2>2. Running' = Running
    BY <2>1, RunningCount
  <2>3. plain'.count = plain.count /\ (plain.there => plain'.there)
    <3>1. CASE OpensWith(pass[i])
      <4>1. PICK part \in SUBSET vault.data :
              plain' = [plain EXCEPT !.there = TRUE, !.data = @ \cup part, !.whole = FALSE]
        BY <1>3, <3>1 DEF Decrypt, OpensWith, Opens
      <4> QED
        BY <4>1 DEF TypeOK, PlainType
    <3>2. CASE ~OpensWith(pass[i])
      BY <1>3, <3>2 DEF Decrypt
    <3> QED
      BY <3>1, <3>2
  <2> QED
    BY <1>3, <2>2, <2>3 DEF Decrypt, Counted, histVars
<1>4. ASSUME NEW i \in Insts, Extract(i) PROVE Counted'
  <2>1. \A j \in Insts \ {i} : pc'[j] = pc[j]
    BY <1>4 DEF Extract, GoTo, Quit, TypeOK
  <2>2. SUFFICES ASSUME ~overlapped PROVE Counted'
    BY <1>4 DEF Extract, Counted, histVars
  <2>3. Running = {} /\ pc'[i] # "running" /\ pc[i] # "running"
    BY <1>4, <2>2 DEF Extract, GoTo, Quit, Running, At, Alone, Holders, TypeOK
  <2>4. Running' = {} /\ Cardinality(Running') = 0
    BY <2>1, <2>3, RunningCount
  <2>5. plain'.count >= 0
    BY <1>4, ExtractBrings DEF TypeOK, VaultType
  <2> QED
    BY <2>4, <2>5 DEF Counted
<1>5. ASSUME NEW i \in Insts, Enter(i) PROVE Counted'
  <2>1. Cardinality(Running') = Cardinality(Running) + 1 /\ Cardinality(Running) \in Nat
    BY <1>5, RunningCount DEF Enter, GoTo, TypeOK
  <2> QED
    BY <1>5, <2>1 DEF Enter, Counted, TypeOK, PlainType, histVars
<1>6. ASSUME NEW i \in Insts, DeleteProfile(i) PROVE Counted'
  <2>1. /\ \A j \in Insts \ {i} : pc'[j] = pc[j]
        /\ pc[i] # "running" /\ pc'[i] # "running"
    BY <1>6 DEF DeleteProfile, GoTo, Quit, TypeOK
  <2>2. Running' = Running
    BY <2>1, RunningCount
  <2> QED
    BY <1>6, <2>2, RunningCount DEF DeleteProfile, Counted, histVars, fileVars
<1>7. ASSUME NEW i \in Insts, Wipe(i) PROVE Counted'
  <2>1. Running' = {}
    BY <1>7, WipeMeets DEF Running, At
  <2>2. Cardinality(Running') = 0
    BY <2>1, FS_EmptySet
  <2> QED
    BY <1>7, <2>1, <2>2 DEF Wipe, NoPlain, Counted
<1>8. ASSUME NEW i \in Insts, Edit(i) PROVE Counted'
  <2>1. Running' = Running
    BY <1>8 DEF Edit, instVars, Running, At
  <2> QED
    BY <1>8, <2>1 DEF Edit, Counted, TypeOK, PlainType
<1>9. ASSUME NEW i \in Insts, Leave(i) PROVE Counted'
  <2>1. /\ Cardinality(Running') = Cardinality(Running) - 1
        /\ Cardinality(Running) \in Nat
        /\ i \in Running /\ Running' \subseteq Running
    BY <1>9, RunningCount DEF Leave, GoTo, Quit, TypeOK, Running, At
  <2>2. SUFFICES ASSUME ~overlapped PROVE Counted'
    BY <1>9 DEF Leave, Counted
  <2>3. plain.there /\ plain.count >= Cardinality(Running)
    BY <2>1, <2>2 DEF Counted
  <2>4. plain'.there /\ plain'.count \in Int /\ plain'.count >= plain.count - 1
    BY <1>9, <2>3 DEF Leave, TypeOK, PlainType
  <2>5. plain'.count >= Cardinality(Running')
    <3>1. plain.count \in Int
      BY VaultAssumption DEF TypeOK, PlainType
    <3> QED
      BY <2>1, <2>3, <2>4, <3>1
  <2> QED
    BY <2>4, <2>5 DEF Counted
<1>10. ASSUME NEW i \in Insts, Encrypt(i) PROVE Counted'
  <2>1. /\ \A j \in Insts \ {i} : pc'[j] = pc[j]
        /\ pc[i] # "running" /\ pc'[i] # "running"
    BY <1>10 DEF Encrypt, GoTo, Quit, TypeOK
  <2>2. Running' = Running
    BY <2>1, RunningCount
  <2> QED
    BY <1>10, <2>2, RunningCount DEF Encrypt, Counted, histVars, fileVars
<1>11. ASSUME NEW i \in Insts, WriteVault(i) PROVE Counted'
  <2>1. /\ \A j \in Insts \ {i} : pc'[j] = pc[j]
        /\ pc[i] # "running" /\ pc'[i] # "running"
    BY <1>11 DEF WriteVault, GoTo, Quit, TypeOK
  <2>2. Running' = Running
    BY <2>1, RunningCount
  <2> QED
    BY <1>11, <2>2, RunningCount DEF WriteVault, Torn, NoVault, Counted, histVars, fileVars
<1>12. ASSUME NEW i \in Insts, Fill(i) PROVE Counted'
  <2>1. /\ \A j \in Insts \ {i} : pc'[j] = pc[j]
        /\ pc[i] # "running" /\ pc'[i] # "running"
    BY <1>12 DEF Fill, GoTo, Quit, TypeOK
  <2>2. Running' = Running
    BY <2>1, RunningCount
  <2> QED
    BY <1>12, <2>2, RunningCount DEF Fill, Counted, histVars, fileVars
<1>13. ASSUME NEW i \in Insts, WriteMeta(i) PROVE Counted'
  <2>1. /\ \A j \in Insts \ {i} : pc'[j] = pc[j]
        /\ pc[i] # "running" /\ pc'[i] # "running"
    BY <1>13 DEF WriteMeta, GoTo, Quit, TypeOK
  <2>2. Running' = Running
    BY <2>1, RunningCount
  <2> QED
    BY <1>13, <2>2, RunningCount DEF WriteMeta, Counted, histVars, fileVars
<1>14. ASSUME NEW i \in Insts, Remove(i) PROVE Counted'
  <2>1. \A j \in Insts \ {i} : pc'[j] = pc[j]
    BY <1>14 DEF Remove, GoTo, Quit, TypeOK
  <2>2. SUFFICES ASSUME ~overlapped PROVE Counted'
    BY <1>14 DEF Remove, Counted, histVars
  <2>3. Running = {} /\ pc'[i] # "running" /\ pc[i] # "running"
    BY <1>14, <2>2 DEF Remove, GoTo, Quit, Running, At, Alone, Holders, TypeOK
  <2>4. Running' = {} /\ Cardinality(Running') = 0
    BY <2>1, <2>3, RunningCount
  <2>5. plain'.count >= 0
    BY <1>14 DEF Remove, TypeOK, VaultType, PlainType
  <2> QED
    BY <2>4, <2>5 DEF Counted
<1>15. ASSUME NEW i \in Insts, Removed(i) PROVE Counted'
  <2>1. \A j \in Insts \ {i} : pc'[j] = pc[j]
    BY <1>15 DEF Removed, GoTo, Quit, TypeOK
  <2>2. SUFFICES ASSUME ~overlapped PROVE Counted'
    BY <1>15 DEF Removed, Counted, histVars
  <2>3. Running = {} /\ pc'[i] # "running" /\ pc[i] # "running"
    BY <1>15, <2>2 DEF Removed, GoTo, Quit, Running, At, Alone, Holders, TypeOK
  <2>4. Running' = {} /\ Cardinality(Running') = 0
    BY <2>1, <2>3, RunningCount
  <2>5. plain'.count >= 0
    BY <1>15 DEF Removed, NoPlain, NoTar, TypeOK, VaultType, PlainType
  <2> QED
    BY <2>4, <2>5 DEF Counted
<1>16. ASSUME NEW i \in Insts, Crash(i) PROVE Counted'
  <2>1. /\ \A j \in Insts \ {i} : pc'[j] = pc[j]
        /\ pc'[i] # "running"
        /\ Running' \subseteq Running
    BY <1>16 DEF Crash, GoTo, Quit, TypeOK, Running, At
  <2>2. /\ Cardinality(Running) \in Nat
        /\ \/ Cardinality(Running') = Cardinality(Running)
           \/ Cardinality(Running') = Cardinality(Running) - 1
    BY <2>1, RunningCount
  <2> QED
    BY <1>16, <2>1, <2>2 DEF Crash, Counted, TypeOK, PlainType, fileVars
<1>17. ASSUME Import PROVE Counted'
  <2>1. Running' = Running
    BY <1>17 DEF Import, instVars, Running, At
  <2> QED
    BY <1>17, <2>1 DEF Import, Counted
<1>18. CASE UNCHANGED vars
  BY <1>18 DEF Counted, Running, At, vars, fileVars, instVars, histVars
<1> QED
  BY <1>1, <1>2, <1>3, <1>4, <1>5, <1>6, <1>7, <1>8, <1>9, <1>10, <1>11,
     <1>12, <1>13, <1>14, <1>15, <1>16, <1>17, <1>18 DEF Next, UnlockStep,
     PackStep

(* Nobody starts beside an unpacking or a packing unless it is noted as overlapping. *)
LEMMA AloneStep ==
  ASSUME TypeOK, Mutex, Guarded, Empty, Counted, Alone, [Next]_vars, ~wiped'
  PROVE  Alone'
<1> USE VaultAssumption DEF TypeOK, Mutex, Empty, Counted, Alone, PlainType,
    VaultType, Holders, At, Starting, Packing, NoPlain, GoTo, Quit, fileVars,
    instVars, histVars
<1>1. ASSUME NEW i \in Insts, Launch(i) PROVE Alone'
  <2>1. SUFFICES ASSUME ~overlapped' PROVE Alone'
    OBVIOUS
  <2>2. Packing = {} /\ (Starting = {} \/ Running # {}) /\ ~overlapped
    BY <1>1, <2>1 DEF Launch
  <2>3. \A j \in Insts : pc[j] \notin Holders \cup {"encrypt", "decrypt"}
    BY <2>2 DEF Running
  <2>4. CASE vault.is = "none" \/ plain.there
    BY <1>1, <2>2, <2>3, <2>4 DEF Launch
  <2>5. CASE vault.is # "none" /\ ~plain.there
    <3>1. Running = {}
      BY <2>2, <2>5
    <3>2. \A j \in Insts : pc[j] = "off"
      BY <2>2, <3>1 DEF Running
    <3> QED
      BY <1>1, <2>5, <3>2 DEF Launch
  <2> QED
    BY <2>4, <2>5
<1>2. ASSUME NEW i \in Insts, Verify(i) PROVE Alone'
  BY <1>2 DEF Verify
<1>3. ASSUME NEW i \in Insts, Decrypt(i) PROVE Alone'
  <2>1. SUFFICES ASSUME ~overlapped' PROVE Alone'
    OBVIOUS
  <2>2. \A j \in Insts \ {i} : pc[j] = "off" /\ pc'[j] = "off"
    <3>1. pc[i] = "decrypt" /\ ~overlapped
      BY <1>3, <2>1 DEF Decrypt
    <3>2. \A j \in Insts \ {i} : pc[j] = "off"
      BY <3>1
    <3>3. \A j \in Insts \ {i} : pc'[j] = pc[j]
      BY <1>3, ZenonT(60) DEF Decrypt
    <3> QED
      BY <3>2, <3>3
  <2>3. CASE GoTo(i, "enter") /\ vault.is = "none"
    BY <1>3, <2>2, <2>3, ZenonT(60) DEF Decrypt
  <2>4. CASE pc'[i] \in {"extract", "off"}
    BY <2>2, <2>4
  <2> QED
    <3>1. \/ (GoTo(i, "enter") /\ vault.is = "none") \/ GoTo(i, "off") \/ GoTo(i, "extract")
      BY <1>3 DEF Decrypt
    <3> QED
      BY <2>3, <2>4, <3>1
<1>4. ASSUME NEW i \in Insts, Extract(i) PROVE Alone'
  <2>1. plain'.there
    BY <1>4, ExtractBrings
  <2>2. pc' = [pc EXCEPT ![i] = "enter"] /\ UNCHANGED <<vault, overlapped>>
    BY <1>4 DEF Extract
  <2>3. ~overlapped => \A j \in Insts \ {i} : pc'[j] = "off"
    BY <1>4, <2>2 DEF Extract
  <2>4. pc'[i] = "enter"
    BY <2>2
  <2> QED
    BY <2>1, <2>2, <2>3, <2>4
<1>5. ASSUME NEW i \in Insts, Enter(i) PROVE Alone'
  BY <1>5 DEF Enter
<1>6. ASSUME NEW i \in Insts, DeleteProfile(i) PROVE Alone'
  BY <1>6 DEF DeleteProfile
<1>7. ASSUME NEW i \in Insts, Wipe(i) PROVE Alone'
  BY <1>7, WipeMeets DEF Wipe, NoVault
<1>8. ASSUME NEW i \in Insts, Edit(i) PROVE Alone'
  BY <1>8 DEF Edit
<1>9. ASSUME NEW i \in Insts, Leave(i) PROVE Alone'
  <2>1. SUFFICES ASSUME ~overlapped' PROVE Alone'
    OBVIOUS
  <2>2. /\ plain.there /\ plain'.there /\ vault' = vault
        /\ Cardinality(Running) \in Nat /\ plain.count >= Cardinality(Running)
        /\ ~overlapped /\ (Running # {i} \/ Starting = {})
    <3>1. i \in Running /\ Cardinality(Running) \in Nat
      BY <1>9, RunningCount, ZenonT(60) DEF Leave, Running
    <3>2. plain.there
      BY <1>9, <2>1, <3>1 DEF Leave
    <3> QED
      BY <1>9, <2>1, <3>1, <3>2 DEF Leave
  <2>3. \A j \in Insts \ {i} : pc'[j] = pc[j] /\ pc[j] \notin Holders \cup {"decrypt", "encrypt"}
    BY <1>9, <2>2 DEF Leave
  <2>4. CASE pc'[i] = "off"
    BY <2>2, <2>3, <2>4
  <2>5. CASE pc'[i] = "encrypt"
    <3>1. plain.count <= 1
      BY <1>9, <2>2, <2>5 DEF Leave
    <3>2. Cardinality(Running') = 0
      BY <1>9, <2>2, <2>3, <2>5, <3>1, RunningCount DEF Leave
    <3>3. Running' = {}
      BY <3>2, FS_EmptySet, FS_Subset, VaultAssumption DEF Running
    <3>4. Running = {i}
      BY <1>9, <2>3, <3>3 DEF Leave, Running
    <3>5. \A j \in Insts \ {i} : pc[j] = "off"
      BY <2>2, <2>3, <3>4 DEF Running
    <3> QED
      BY <2>2, <2>3, <2>5, <3>5
  <2> QED
    BY <1>9, <2>2, <2>4, <2>5 DEF Leave
<1>10. ASSUME NEW i \in Insts, Encrypt(i) PROVE Alone'
  BY <1>10 DEF Encrypt
<1>11. ASSUME NEW i \in Insts, WriteVault(i) PROVE Alone'
  BY <1>11 DEF WriteVault, Torn, NoVault
<1>12. ASSUME NEW i \in Insts, Fill(i) PROVE Alone'
  BY <1>12 DEF Fill, Packed
<1>13. ASSUME NEW i \in Insts, WriteMeta(i) PROVE Alone'
  BY <1>13 DEF WriteMeta
<1>14. ASSUME NEW i \in Insts, Remove(i) PROVE Alone'
  BY <1>14 DEF Remove
<1>15. ASSUME NEW i \in Insts, Removed(i) PROVE Alone'
  BY <1>15 DEF Removed, NoTar
<1>16. ASSUME NEW i \in Insts, Crash(i) PROVE Alone'
  BY <1>16 DEF Crash, NoTar
<1>17. ASSUME Import PROVE Alone'
  BY <1>17 DEF Import, fileVars, instVars
<1>18. CASE UNCHANGED vars
  BY <1>18 DEF vars, fileVars, instVars, histVars
<1> QED
  BY <1>1, <1>2, <1>3, <1>4, <1>5, <1>6, <1>7, <1>8, <1>9, <1>10, <1>11,
     <1>12, <1>13, <1>14, <1>15, <1>16, <1>17, <1>18 DEF Next, UnlockStep,
     PackStep

(* Edits are handed from storage to archive to vault and back without a gap. *)
LEMMA SafeStep ==
  ASSUME TypeOK, Mutex, Guarded, Empty, Counted, Alone, Safe, [Next]_vars, ~wiped, ~wiped'
  PROVE  Safe'
<1> USE VaultAssumption DEF TypeOK, Mutex, Guarded, Empty, Counted, Alone,
    Safe, NothingIsLost, PlainType, VaultType, Holders, Opens, OpensWith,
    NoPlain, GoTo, Quit, fileVars, instVars, histVars
<1>1. ASSUME NEW i \in Insts, Launch(i) PROVE Safe'
  BY <1>1 DEF Launch
<1>2. ASSUME NEW i \in Insts, Verify(i) PROVE Safe'
  BY <1>2 DEF Verify
<1>3. ASSUME NEW i \in Insts, Decrypt(i) PROVE Safe'
  <2>1. SUFFICES ASSUME ~overlapped, ~broken PROVE Safe'
    BY <1>3 DEF Decrypt
  <2>2. ~plain.there /\ plain.data = {} /\ \A j \in Insts \ {i} : pc'[j] = "off"
    <3>1. pc[i] = "decrypt" /\ \A j \in Insts \ {i} : pc'[j] = pc[j]
      BY <1>3, ZenonT(60) DEF Decrypt
    <3>2. ~plain.there /\ \A j \in Insts \ {i} : pc[j] = "off"
      BY <2>1, <3>1
    <3> QED
      BY <3>1, <3>2
  <2>3. CASE OpensWith(pass[i])
    <3>1. /\ pc' = [pc EXCEPT ![i] = "extract"] /\ ~plain'.whole
          /\ UNCHANGED <<vault, meta, made>>
      <4> HIDE DEF Mutex, Guarded, Empty, Counted, Alone, Safe, NothingIsLost, Holders
      <4>1. pc' = [pc EXCEPT ![i] = "extract"] /\ UNCHANGED <<vault, meta, made>>
        BY <1>3, <2>3 DEF Decrypt
      <4>2. PICK part \in SUBSET vault.data :
              plain' = [plain EXCEPT !.there = TRUE, !.data = @ \cup part, !.whole = FALSE]
        BY <1>3, <2>3 DEF Decrypt
      <4> QED
        BY <4>1, <4>2
    <3>2. made \subseteq vault.data
      BY <2>1, <2>2
    <3> QED
      BY <2>2, <2>3, <3>1, <3>2
  <2>4. CASE ~OpensWith(pass[i])
    <3>1. /\ pc' \in {[pc EXCEPT ![i] = "enter"], [pc EXCEPT ![i] = "off"]}
          /\ UNCHANGED <<plain, vault, meta, made>>
      BY <1>3, <2>4 DEF Decrypt
    <3> QED
      BY <2>1, <2>2, <3>1
  <2> QED
    BY <2>3, <2>4
<1>4. ASSUME NEW i \in Insts, Extract(i) PROVE Safe'
  <2>1. plain'.there /\ plain'.whole /\ vault.data \subseteq plain'.data
    BY <1>4, ExtractBrings
  <2>2. /\ pc' = [pc EXCEPT ![i] = "enter"]
        /\ UNCHANGED <<vault, meta, made, overlapped, broken>>
    BY <1>4 DEF Extract
  <2>3. \A j \in Insts \ {i} : pc'[j] \notin Holders /\ (~overlapped => pc'[j] = "off")
    BY <1>4, <2>2 DEF Extract
  <2>4. pc'[i] = "enter"
    BY <2>2
  <2>5. SUFFICES ASSUME ~overlapped, ~broken PROVE Safe'
    BY <2>2
  <2>6. made \subseteq vault.data
    BY <1>4, <2>5 DEF Extract
  <2> QED
    BY <2>1, <2>2, <2>3, <2>4, <2>5, <2>6
<1>5. ASSUME NEW i \in Insts, Enter(i) PROVE Safe'
  BY <1>5 DEF Enter
<1>6. ASSUME NEW i \in Insts, DeleteProfile(i) PROVE Safe'
  BY <1>6 DEF DeleteProfile
<1>7. ASSUME NEW i \in Insts, Wipe(i) PROVE Safe'
  BY <1>7, WipeMeets DEF Wipe, NoVault
<1>8. ASSUME NEW i \in Insts, Edit(i) PROVE Safe'
  <2>1. PICK e \in Edits \ made :
          /\ plain' = [plain EXCEPT !.there = TRUE, !.data = @ \cup {e}]
          /\ made' = made \cup {e}
    BY <1>8, Zenon DEF Edit
  <2>2. /\ plain'.data = plain.data \cup {e} /\ plain'.whole = plain.whole
        /\ plain'.there
        /\ UNCHANGED <<vault, meta, pc, tar, overlapped, broken>>
    BY <1>8, <2>1 DEF Edit
  <2>3. SUFFICES ASSUME ~overlapped, ~broken PROVE Safe'
    BY <2>2
  <2>4. plain.there /\ \A j \in Insts : pc[j] \notin Holders \cup {"encrypt"}
    BY <1>8, <2>3 DEF Edit, Running, At
  <2> QED
    BY <2>1, <2>2, <2>3, <2>4
<1>9. ASSUME NEW i \in Insts, Leave(i) PROVE Safe'
  BY <1>9 DEF Leave
<1>10. ASSUME NEW i \in Insts, Encrypt(i) PROVE Safe'
  BY <1>10 DEF Encrypt
<1>11. ASSUME NEW i \in Insts, WriteVault(i) PROVE Safe'
  BY <1>11 DEF WriteVault, Torn, NoVault
<1>12. ASSUME NEW i \in Insts, Fill(i) PROVE Safe'
  BY <1>12 DEF Fill, Packed
<1>13. ASSUME NEW i \in Insts, WriteMeta(i) PROVE Safe'
  BY <1>13 DEF WriteMeta
<1>14. ASSUME NEW i \in Insts, Remove(i) PROVE Safe'
  BY <1>14 DEF Remove
<1>15. ASSUME NEW i \in Insts, Removed(i) PROVE Safe'
  BY <1>15 DEF Removed, NoTar
<1>16. ASSUME NEW i \in Insts, Crash(i) PROVE Safe'
  BY <1>16 DEF Crash, NoTar
<1>17. ASSUME Import PROVE Safe'
  BY <1>17 DEF Import, fileVars, instVars
<1>18. CASE UNCHANGED vars
  BY <1>18 DEF vars, fileVars, instVars, histVars
<1> QED
  BY <1>1, <1>2, <1>3, <1>4, <1>5, <1>6, <1>7, <1>8, <1>9, <1>10, <1>11,
     <1>12, <1>13, <1>14, <1>15, <1>16, <1>17, <1>18 DEF Next, UnlockStep,
     PackStep

(* While nobody is killed the counter is exact. *)
LEMMA ExactStep ==
  ASSUME TypeOK, Guarded, Empty, Counted, Alone, Exact, [Next]_vars, ~wiped'
  PROVE  Exact'
<1>1. ASSUME NEW i \in Insts, Launch(i) PROVE Exact'
  <2>1. /\ \A j \in Insts \ {i} : pc'[j] = pc[j]
        /\ pc[i] # "running" /\ pc'[i] # "running"
    BY <1>1 DEF Launch, GoTo, Quit, TypeOK
  <2>2. Running' = Running
    BY <2>1, RunningCount
  <2> QED
    BY <1>1, <2>1, <2>2
       DEF Launch, Exact, GoTo, Quit, TypeOK, PlainType, VaultType, histVars, fileVars
<1>2. ASSUME NEW i \in Insts, Verify(i) PROVE Exact'
  <2>1. /\ \A j \in Insts \ {i} : pc'[j] = pc[j]
        /\ pc[i] # "running" /\ pc'[i] # "running"
    BY <1>2 DEF Verify, GoTo, Quit, TypeOK
  <2>2. Running' = Running
    BY <2>1, RunningCount
  <2> QED
    BY <1>2, <2>1, <2>2
       DEF Verify, Exact, GoTo, Quit, TypeOK, PlainType, VaultType, histVars, fileVars
<1>3. ASSUME NEW i \in Insts, Decrypt(i) PROVE Exact'
  <2>1. /\ \A j \in Insts \ {i} : pc'[j] = pc[j]
        /\ pc[i] # "running" /\ pc'[i] # "running"
    BY <1>3 DEF Decrypt, GoTo, Quit, TypeOK
  <2>2. Running' = Running
    BY <2>1, RunningCount
  <2>3. plain'.count = plain.count /\ (plain.there => plain'.there)
    <3>1. CASE OpensWith(pass[i])
      <4>1. PICK part \in SUBSET vault.data :
              plain' = [plain EXCEPT !.there = TRUE, !.data = @ \cup part, !.whole = FALSE]
        BY <1>3, <3>1 DEF Decrypt, OpensWith, Opens
      <4> QED
        BY <4>1 DEF TypeOK, PlainType
    <3>2. CASE ~OpensWith(pass[i])
      BY <1>3, <3>2 DEF Decrypt
    <3> QED
      BY <3>1, <3>2
  <2> QED
    BY <1>3, <2>2, <2>3, ZenonT(60) DEF Decrypt, Exact, GoTo, Quit, TypeOK, histVars
<1>4. ASSUME NEW i \in Insts, Extract(i) PROVE Exact'
  <2>1. \A j \in Insts \ {i} : pc'[j] = pc[j]
    BY <1>4 DEF Extract, GoTo, Quit, TypeOK
  <2>2. SUFFICES ASSUME ~overlapped, ~untidy PROVE Exact'
    BY <1>4 DEF Extract, Exact, histVars
  <2>3. /\ Running = {} /\ pc'[i] \notin {"running", "fill"} /\ pc[i] # "running"
        /\ \A j \in Insts \ {i} : pc[j] = "off"
    BY <1>4, <2>2 DEF Extract, GoTo, Quit, Running, At, Alone, Holders, TypeOK
  <2>4. Running' = {} /\ Cardinality(Running') = 0 /\ plain.count = 0
    BY <2>1, <2>2, <2>3, RunningCount DEF Exact
  <2>5. plain'.count = 0 /\ (vault'.is = "sealed" => vault'.count = 0)
    BY <1>4, <2>2, <2>4, ExtractBrings DEF Extract, Exact, Guarded, Opens
  <2>6. \A j \in Insts : pc'[j] = "write" => tar'[j].count = 0
    BY <1>4, <2>1, <2>3, <2>4 DEF Extract, GoTo, Quit, TypeOK
  <2> QED
    BY <2>1, <2>3, <2>4, <2>5, <2>6 DEF Exact
<1>5. ASSUME NEW i \in Insts, Enter(i) PROVE Exact'
  <2>1. Cardinality(Running') = Cardinality(Running) + 1 /\ Cardinality(Running) \in Nat
    BY <1>5, RunningCount DEF Enter, GoTo, TypeOK
  <2> QED
    BY <1>5, <2>1 DEF Enter, Exact, GoTo, TypeOK, PlainType, histVars
<1>6. ASSUME NEW i \in Insts, DeleteProfile(i) PROVE Exact'
  <2>1. /\ \A j \in Insts \ {i} : pc'[j] = pc[j]
        /\ pc[i] # "running" /\ pc'[i] # "running"
    BY <1>6 DEF DeleteProfile, GoTo, Quit, TypeOK
  <2>2. Running' = Running
    BY <2>1, RunningCount
  <2> QED
    BY <1>6, <2>1, <2>2
       DEF DeleteProfile, Exact, GoTo, Quit, TypeOK, PlainType, VaultType, histVars, fileVars
<1>7. ASSUME NEW i \in Insts, Wipe(i) PROVE Exact'
  <2>1. Running' = {} /\ \A j \in Insts : pc'[j] \notin {"write", "fill"}
    BY <1>7, WipeMeets DEF Running, At
  <2>2. Cardinality(Running') = 0
    BY <2>1, FS_EmptySet
  <2> QED
    BY <1>7, <2>1, <2>2 DEF Wipe, NoPlain, NoVault, Exact
<1>8. ASSUME NEW i \in Insts, Edit(i) PROVE Exact'
  <2>1. Running' = Running
    BY <1>8 DEF Edit, instVars, Running, At
  <2> QED
    BY <1>8, <2>1 DEF Edit, Exact, TypeOK, PlainType, instVars
<1>9. ASSUME NEW i \in Insts, Leave(i) PROVE Exact'
  <2>1. /\ Cardinality(Running') = Cardinality(Running) - 1
        /\ Cardinality(Running) \in Nat /\ Cardinality(Running) > 0
        /\ i \in Running
    BY <1>9, RunningCount DEF Leave, GoTo, Quit, TypeOK, Running, At
  <2>2. SUFFICES ASSUME ~overlapped, ~untidy PROVE Exact'
    BY <1>9 DEF Leave, Exact
  <2>3. plain.there /\ plain.count = Cardinality(Running)
    BY <2>1, <2>2 DEF Counted, Exact
  <2>4. plain'.count = plain.count - 1
    BY <1>9, <2>1, <2>3 DEF Leave, TypeOK, PlainType
  <2>5. \A j \in Insts : pc'[j] \in {"write", "fill"} => pc[j] \in {"write", "fill"}
    BY <1>9 DEF Leave, GoTo, Quit, TypeOK
  <2> QED
    BY <1>9, <2>1, <2>2, <2>3, <2>4, <2>5 DEF Leave, Exact
<1>10. ASSUME NEW i \in Insts, Encrypt(i) PROVE Exact'
  <2>1. \A j \in Insts \ {i} : pc'[j] = pc[j]
    BY <1>10 DEF Encrypt, GoTo, Quit, TypeOK
  <2>2. SUFFICES ASSUME ~overlapped, ~untidy PROVE Exact'
    BY <1>10 DEF Encrypt, Exact, histVars
  <2>3. /\ Running = {} /\ pc'[i] \notin {"running", "fill"} /\ pc[i] # "running"
        /\ \A j \in Insts \ {i} : pc[j] = "off"
    BY <1>10, <2>2 DEF Encrypt, GoTo, Quit, Running, At, Alone, Holders, TypeOK
  <2>4. Running' = {} /\ Cardinality(Running') = 0 /\ plain.count = 0
    BY <2>1, <2>2, <2>3, RunningCount DEF Exact
  <2>5. plain'.count = 0 /\ (vault'.is = "sealed" => vault'.count = 0)
    BY <1>10, <2>2, <2>4
       DEF Encrypt, TypeOK, VaultType, PlainType, Exact, Guarded, Opens, fileVars
  <2>6. \A j \in Insts : pc'[j] = "write" => tar'[j].count = 0
    BY <1>10, <2>1, <2>3, <2>4 DEF Encrypt, GoTo, Quit, TypeOK
  <2> QED
    BY <2>1, <2>3, <2>4, <2>5, <2>6 DEF Exact
<1>11. ASSUME NEW i \in Insts, WriteVault(i) PROVE Exact'
  <2>1. /\ \A j \in Insts \ {i} : pc'[j] = pc[j]
        /\ pc[i] # "running" /\ pc'[i] # "running"
    BY <1>11 DEF WriteVault, GoTo, Quit, TypeOK
  <2>2. Running' = Running
    BY <2>1, RunningCount
  <2> QED
    BY <1>11, <2>1, <2>2
       DEF WriteVault, Torn, NoVault, Exact, GoTo, Quit, TypeOK, PlainType, VaultType,
           histVars, fileVars
<1>12. ASSUME NEW i \in Insts, Fill(i) PROVE Exact'
  <2>1. /\ \A j \in Insts \ {i} : pc'[j] = pc[j]
        /\ pc[i] # "running" /\ pc'[i] # "running"
    BY <1>12 DEF Fill, GoTo, Quit, TypeOK
  <2>2. Running' = Running
    BY <2>1, RunningCount
  <2> QED
    BY <1>12, <2>1, <2>2
       DEF Fill, Packed, Guarded, Exact, GoTo, Quit, TypeOK, PlainType, VaultType, histVars, fileVars
<1>13. ASSUME NEW i \in Insts, WriteMeta(i) PROVE Exact'
  <2>1. /\ \A j \in Insts \ {i} : pc'[j] = pc[j]
        /\ pc[i] # "running" /\ pc'[i] # "running"
    BY <1>13 DEF WriteMeta, GoTo, Quit, TypeOK
  <2>2. Running' = Running
    BY <2>1, RunningCount
  <2> QED
    BY <1>13, <2>1, <2>2
       DEF WriteMeta, Exact, GoTo, Quit, TypeOK, PlainType, VaultType, histVars, fileVars
<1>14. ASSUME NEW i \in Insts, Remove(i) PROVE Exact'
  <2>1. \A j \in Insts \ {i} : pc'[j] = pc[j]
    BY <1>14 DEF Remove, GoTo, Quit, TypeOK
  <2>2. SUFFICES ASSUME ~overlapped, ~untidy PROVE Exact'
    BY <1>14 DEF Remove, Exact, histVars
  <2>3. /\ Running = {} /\ pc'[i] \notin {"running", "fill"} /\ pc[i] # "running"
        /\ \A j \in Insts \ {i} : pc[j] = "off"
    BY <1>14, <2>2 DEF Remove, GoTo, Quit, Running, At, Alone, Holders, TypeOK
  <2>4. Running' = {} /\ Cardinality(Running') = 0 /\ plain.count = 0
    BY <2>1, <2>2, <2>3, RunningCount DEF Exact
  <2>5. plain'.count = 0 /\ (vault'.is = "sealed" => vault'.count = 0)
    BY <1>14, <2>2, <2>4
       DEF Remove, TypeOK, VaultType, PlainType, Exact, Guarded, Opens, fileVars
  <2>6. \A j \in Insts : pc'[j] = "write" => tar'[j].count = 0
    BY <1>14, <2>1, <2>3, <2>4 DEF Remove, GoTo, Quit, TypeOK
  <2> QED
    BY <2>1, <2>3, <2>4, <2>5, <2>6 DEF Exact
<1>15. ASSUME NEW i \in Insts, Removed(i) PROVE Exact'
  <2>1. \A j \in Insts \ {i} : pc'[j] = pc[j]
    BY <1>15 DEF Removed, GoTo, Quit, TypeOK
  <2>2. SUFFICES ASSUME ~overlapped, ~untidy PROVE Exact'
    BY <1>15 DEF Removed, Exact, histVars
  <2>3. /\ Running = {} /\ pc'[i] \notin {"running", "fill"} /\ pc[i] # "running"
        /\ \A j \in Insts \ {i} : pc[j] = "off"
    BY <1>15, <2>2 DEF Removed, GoTo, Quit, Running, At, Alone, Holders, TypeOK
  <2>4. Running' = {} /\ Cardinality(Running') = 0 /\ plain.count = 0
    BY <2>1, <2>2, <2>3, RunningCount DEF Exact
  <2>5. plain'.count = 0 /\ (vault'.is = "sealed" => vault'.count = 0)
    BY <1>15, <2>2, <2>4
       DEF Removed, NoPlain, NoTar, TypeOK, VaultType, PlainType, Exact, Guarded, Opens, fileVars
  <2>6. \A j \in Insts : pc'[j] = "write" => tar'[j].count = 0
    BY <1>15, <2>1, <2>3, <2>4 DEF Removed, GoTo, Quit, TypeOK
  <2> QED
    BY <2>1, <2>3, <2>4, <2>5, <2>6 DEF Exact
<1>16. ASSUME NEW i \in Insts, Crash(i) PROVE Exact'
  BY <1>16 DEF Crash, Exact
<1>17. ASSUME Import PROVE Exact'
  <2>1. Running' = Running
    BY <1>17 DEF Import, instVars, Running, At
  <2>2. plain' = plain /\ pc' = pc /\ tar' = tar /\ untidy' = untidy
    BY <1>17 DEF Import, instVars
  <2>3. vault'.count = 0
    BY <1>17 DEF Import
  <2>4. ~overlapped' => ~overlapped
    BY <1>17 DEF Import
  <2> QED
    BY <2>1, <2>2, <2>3, <2>4 DEF Exact
<1>18. CASE UNCHANGED vars
  BY <1>18 DEF Exact, Running, At, vars, fileVars, instVars, histVars
<1> QED
  BY <1>1, <1>2, <1>3, <1>4, <1>5, <1>6, <1>7, <1>8, <1>9, <1>10, <1>11,
     <1>12, <1>13, <1>14, <1>15, <1>16, <1>17, <1>18 DEF Next, UnlockStep,
     PackStep

(* While nobody is killed, an unpacked storage has somebody to pack it. *)
LEMMA MannedStep ==
  ASSUME TypeOK, Empty, Counted, Alone, Exact, Manned, [Next]_vars, ~wiped'
  PROVE  Manned'
<1> USE VaultAssumption DEF TypeOK, Empty, Counted, Alone, Manned, Holders,
    At, Starting, Packing, NoPlain, GoTo, Quit, fileVars, instVars, histVars
<1>1. ASSUME NEW i \in Insts, Launch(i) PROVE Manned'
  BY <1>1 DEF Launch
<1>2. ASSUME NEW i \in Insts, Verify(i) PROVE Manned'
  BY <1>2 DEF Verify
<1>3. ASSUME NEW i \in Insts, Decrypt(i) PROVE Manned'
  BY <1>3 DEF Decrypt
<1>4. ASSUME NEW i \in Insts, Extract(i) PROVE Manned'
  BY <1>4, ExtractBrings DEF Extract
<1>5. ASSUME NEW i \in Insts, Enter(i) PROVE Manned'
  BY <1>5 DEF Enter
<1>6. ASSUME NEW i \in Insts, DeleteProfile(i) PROVE Manned'
  BY <1>6 DEF DeleteProfile
<1>7. ASSUME NEW i \in Insts, Wipe(i) PROVE Manned'
  BY <1>7, WipeMeets DEF Wipe, NoVault
<1>8. ASSUME NEW i \in Insts, Edit(i) PROVE Manned'
  BY <1>8 DEF Edit
<1>9. ASSUME NEW i \in Insts, Leave(i) PROVE Manned'
  <2>1. SUFFICES ASSUME ~overlapped', ~untidy', plain'.there PROVE Manned'
    OBVIOUS
  <2>2. CASE pc'[i] = "encrypt"
    BY <2>2
  <2>3. CASE pc'[i] # "encrypt"
    <3>1. /\ i \in Running
          /\ Cardinality(Running) \in Nat
          /\ Cardinality(Running') = Cardinality(Running) - 1
      BY <1>9, <2>3, RunningCount, SMTT(60) DEF Leave, Running
    <3>2. Cardinality(Running') # 0
      BY <1>9, <2>1, <2>3, <3>1 DEF Leave, Exact
    <3>3. Running' # {}
      BY <3>2, FS_EmptySet
    <3> QED
      BY <3>3 DEF Running
  <2> QED
    BY <2>2, <2>3
<1>10. ASSUME NEW i \in Insts, Encrypt(i) PROVE Manned'
  BY <1>10 DEF Encrypt
<1>11. ASSUME NEW i \in Insts, WriteVault(i) PROVE Manned'
  BY <1>11 DEF WriteVault, Torn, NoVault
<1>12. ASSUME NEW i \in Insts, Fill(i) PROVE Manned'
  BY <1>12 DEF Fill, Packed
<1>13. ASSUME NEW i \in Insts, WriteMeta(i) PROVE Manned'
  BY <1>13 DEF WriteMeta
<1>14. ASSUME NEW i \in Insts, Remove(i) PROVE Manned'
  BY <1>14 DEF Remove
<1>15. ASSUME NEW i \in Insts, Removed(i) PROVE Manned'
  BY <1>15 DEF Removed, NoTar
<1>16. ASSUME NEW i \in Insts, Crash(i) PROVE Manned'
  BY <1>16 DEF Crash, NoTar
<1>17. ASSUME Import PROVE Manned'
  BY <1>17 DEF Import, fileVars, instVars
<1>18. CASE UNCHANGED vars
  BY <1>18 DEF vars, fileVars, instVars, histVars
<1> QED
  BY <1>1, <1>2, <1>3, <1>4, <1>5, <1>6, <1>7, <1>8, <1>9, <1>10, <1>11,
     <1>12, <1>13, <1>14, <1>15, <1>16, <1>17, <1>18 DEF Next, UnlockStep,
     PackStep

(* That --wipe-all met running instances is not forgotten. *)
LEMMA WipedStays == ASSUME [Next]_vars, ~wiped' PROVE ~wiped
BY DEF Next, UnlockStep, PackStep, Launch, Verify, Decrypt, Extract, Enter, DeleteProfile,
   Wipe, Edit, Leave, Encrypt, WriteVault, Fill, WriteMeta, Remove, Removed, Crash, Import,
   vars, histVars

-----------------------------------------------------------------------------
(* Nothing is there at first. *)
LEMMA InitInv == Init => IInv
<1> SUFFICES ASSUME Init PROVE IInv
  OBVIOUS
<1>1. TypeOK
  <2>1. plain \in PlainType
    BY VaultAssumption DEF Init, PlainType, NoPlain
  <2>2. vault \in VaultType
    BY VaultAssumption DEF Init, VaultType, NoVault
  <2>3. tar \in [Insts -> [data: SUBSET Edits, count: 0..MaxCount]]
    BY VaultAssumption DEF Init, NoTar
  <2> QED
    BY <2>1, <2>2, <2>3 DEF Init, TypeOK
<1>2. Running = {} /\ Cardinality(Running) = 0
  BY FS_EmptySet DEF Init, Running, At
<1>3. Mutex /\ Guarded /\ Empty /\ VaultOrStorage
  BY VaultAssumption DEF Init, Mutex, Guarded, Empty, VaultOrStorage, Holders, NoVault
<1>4. Counted /\ Exact /\ Manned
  BY <1>2 DEF Init, Counted, Exact, Manned, NoPlain, NoVault
<1>5. Alone /\ Safe
  BY DEF Init, Alone, Safe, NothingIsLost, Holders, NoPlain, NoVault
<1> QED
  BY <1>1, <1>3, <1>4, <1>5 DEF IInv, Orderly

(* What the storage, the vault, the lock and the instances keep to, for any   *)
(* instances, edits and passphrases: who holds the lock, who is alone, what   *)
(* the counter says and where the edits are (fs_encrypt, fs_decrypt,          *)
(* fs_runtime_enter, fs_runtime_leave).                                       *)
THEOREM Invariance == Spec => []IInv
<1>1. IInv /\ [Next]_vars => IInv'
  <2> SUFFICES ASSUME IInv, [Next]_vars PROVE IInv'
    OBVIOUS
  <2>1. TypeOK /\ TypeOK'
    BY TypeStep DEF IInv
  <2>2. ASSUME ~wiped' PROVE Orderly'
    <3>1. Orderly
      BY <2>2, WipedStays DEF IInv
    <3> QED
      BY <2>1, <2>2, <3>1, MutexStep, GuardedStep, StorageStep, CountedStep, AloneStep,
         SafeStep, WipedStays, ExactStep, MannedStep DEF Orderly
  <2> QED
    BY <2>1, <2>2 DEF IInv
<1> QED
  BY InitInv, <1>1, PTL DEF Spec

(* Every file, the counter, the lock and the place of every instance keep     *)
(* their types (fs_runtime_enter never counts past its bound).                *)
THEOREM TypeCorrectness == Spec => []TypeOK
<1>1. IInv => TypeOK
  BY DEF IInv
<1> QED
  BY Invariance, <1>1, PTL

(* An instance that runs has its storage, and its counter keeps the others    *)
(* from packing it, crashes included (fs_runtime_leave).  This rests on two   *)
(* things that the code does not ensure: no start meets the first unpacking   *)
(* or the last packing, and --wipe-all never meets a running instance.        *)
THEOREM StorageKept == Spec => []StorageStays
<1>1. IInv => StorageStays
  BY DEF IInv, Orderly, Counted, StorageStays
<1> QED
  BY Invariance, <1>1, PTL

(* Every edit is in the storage or in a vault that opens, wherever packing or  *)
(* unpacking is killed (fs_encrypt, fs_decrypt).  This rests on the same two   *)
(* things as StorageKept and on a third: no instance packs a storage that a    *)
(* kill left half unpacked or half removed.                                   *)
THEOREM EditsKept == Spec => []NothingIsLost
<1>1. IInv => NothingIsLost
  BY DEF IInv, Orderly, Safe, NothingIsLost
<1> QED
  BY Invariance, <1>1, PTL

(* Once every instance has left the storage is packed (fs_runtime_leave,       *)
(* fs_remove_plain), if none was ever killed, no --delete-profile ran, and the *)
(* two things named at StorageKept did not happen.                             *)
THEOREM ClosedPacked == Spec => []ClosedIsPacked
<1>1. IInv => ClosedIsPacked
  BY DEF IInv, Orderly, Manned, ClosedIsPacked, At
<1> QED
  BY Invariance, <1>1, PTL

(* A vault that does not open lies beside the storage it was to hold (the      *)
(* order of fs_encrypt's writes), whoever is killed and whatever overlaps,     *)
(* unless --wipe-all met an instance past its start.                          *)
THEOREM TornVaultHasStorage == Spec => []VaultOrStorage
<1>1. IInv => VaultOrStorage
  BY DEF IInv, Orderly, VaultOrStorage
<1> QED
  BY Invariance, <1>1, PTL
=============================================================================
