--------------------------- MODULE KeyStoreProofs ---------------------------
(***************************************************************************)
(* Proofs about KeyStore, for any sessions, labels and passphrase streams, *)
(* and any bound on the handles of keys.                                   *)
(***************************************************************************)
EXTENDS KeyStore, SequenceLemmas

-----------------------------------------------------------------------------
(* The invariants *)

\* The actions of a request that adds a key, and those after its label was checked.
Checked == {"ECreateKeyCreate", "ECreateKeyFinal", "EImportOpenPrivateStream", "EImportKey"}
Adding  == Checked \cup {"EGetPassphrase"}

\* Where the request may wait for a dialog of a passphrase manager.
Asking == {"ECreateKeyCreate", "EImportKey", "EExportEncryptedKey", "EExportKey",
           "EAuthOpen", "EUseKey", "EChangePassphraseClearCached"}

\* Where it has not got a passphrase.
Without == {"EIdle", "EChangePassphrase", "EChangePassphraseClearCached"}

\* What the request has got so far.
RequestInv ==
    /\ \A s \in Sessions : manager[s] # "EIdle" =>
          /\ iStatus = "Pending" /\ iAction \in Asking
          /\ manager[s] = "EChangePassphrase" <=> iAction = "EChangePassphraseClearCached"
          /\ iAction = "EUseKey" => iSession = s
    /\ \A s, t \in Sessions : manager[s] # "EIdle" /\ manager[t] # "EIdle" => s = t
    /\ \A s \in Sessions : manager[s] = "ECreatePassphrase" => iPassStreamId = NullStream
    /\ iAction \in Without => iPassphrase = NoPassphrase
    /\ iAction \in Adding => iLabel \in Labels
    /\ \/ iAction \in {"ECreateKeyCreate", "EImportKey"} /\ iStatus = "Ready"
       \/ iAction = "ECreateKeyFinal"
       => iPassphrase.stream # NullStream

Distinct(keys) == \A j, k \in keys : j.label = k.label \/ j.handle = k.handle => j = k

\* One passphrase for all of the keys, and none without keys.
Unlocked(keys, pass) ==
    /\ \A k \in keys : k.pass = pass
    /\ keys = {} <=> pass = NullStream

\* The memory, the store and what a restart finds.
StoreInv ==
    /\ store.keys = committed.keys /\ store.pass = committed.pass
    /\ MemoryMatchesFile
    /\ iKeys \subseteq committed.keys
    /\ Distinct(committed.keys)
    /\ \A k \in committed.keys : k.handle <= iKeyIdentifier
    /\ Unlocked(iKeys, iPassStreamId)
    /\ Unlocked(committed.keys, committed.pass)
    /\ \A k \in committed.keys :
          {k.handle, k.pass} \subseteq committed.streams \cap store.streams

\* What the request will add fits the keys there are.
AddInv ==
    /\ iAction \in Checked => ~IsKeyInStore(iLabel)
    /\ iPassphrase.stream # NullStream =>
          /\ iPassphrase.stream \in store.streams
          /\ iKeys # {} => iPassphrase.stream = iPassStreamId

\* A session that is closed has no key open.
ClosedInv == \A s \in Sessions \ sessions : opened[s] = {}

-----------------------------------------------------------------------------
(* Helpers *)

LEMMA ExpiredType ==
    ASSUME TypeOK, NEW s \in Sessions, NEW left \in Expired(s)
    PROVE  left \in [Sessions -> SUBSET PassStreams]
BY DEF TypeOK, Expired

LEMMA HeldType ==
    ASSUME TypeOK, NEW left
    PROVE  /\ Held(left) \in [owner : Sessions \cup {NoSession},
                              stream : PassStreams \cup {NullStream}]
           /\ Held(left).stream = iPassphrase.stream
           /\ iPassphrase = NoPassphrase => Held(left) = NoPassphrase
BY DEF TypeOK, Held, NoPassphrase

\* CFileKeyDataManager::ConstructL finds the greatest handle.
LEMMA LastHandleProperties ==
    ASSUME NEW keys \in SUBSET Keys
    PROVE  /\ LastHandle(keys) \in Handles \cup {NoHandle}
           /\ \A k \in keys : k.handle <= LastHandle(keys)
<1> DEFINE T == {NoHandle} \cup {k.handle : k \in keys}
<1>1. T \subseteq 0 .. MaxKeyId /\ T # {}
  BY NullAssumption DEF Keys, Handles, NoHandle
<1>2. PICK h \in T : \A y \in T : y <= h
  <2>1. MaxKeyId \in Nat
    BY NullAssumption
  <2> HIDE DEF T
  <2>. QED
    BY <1>1, <2>1, LastElement
<1>6. \A k \in keys : h >= k.handle
  <2>1. TAKE k \in keys
  <2>2. k.handle \in T
    OBVIOUS
  <2>3. h \in Int /\ k.handle \in Int
    BY <1>1, <2>2, NullAssumption
  <2>. QED
    BY <1>2, <2>2, <2>3
<1>7. /\ LastHandle(keys) \in T
      /\ \A k \in keys : LastHandle(keys) >= k.handle
  BY <1>6 DEF LastHandle
<1>. QED
  BY <1>1, <1>7, NullAssumption DEF Handles, NoHandle

\* The file in ROM and a new one are key stores (OpenStoreL).
LEMMA OriginalStore ==
    ASSUME NEW image \in {RomStore, EmptyStore}
    PROVE  /\ image \in Images
           /\ Distinct(image.keys) /\ Unlocked(image.keys, image.pass)
           /\ \A k \in image.keys : {k.handle, k.pass} \subseteq image.streams
<1>1. CASE image = RomStore
  BY <1>1, RomAssumption DEF Distinct, Unlocked
<1>2. CASE image = EmptyStore
  <2>1. EmptyStore \in Images /\ EmptyStore.keys = {} /\ EmptyStore.pass = NullStream
    BY DEF EmptyStore, Images
  <2>. QED
    BY <1>2, <2>1 DEF Distinct, Unlocked
<1>. QED
  BY <1>1, <1>2

-----------------------------------------------------------------------------
(* Type correctness, with the machine of the outstanding request *)

TypeInv == TypeOK /\ RequestInv

LEMMA TypeInit == Init => TypeInv
<1> SUFFICES ASSUME Init
             PROVE  TypeInv
  OBVIOUS
<1>1. /\ store \in Images /\ committed \in Images
      /\ committed.keys \in SUBSET Keys
      /\ committed.pass \in PassStreams \cup {NullStream}
  BY OriginalStore DEF Init, Images
<1>2. TypeOK
  <2>1. LastHandle(committed.keys) \in Handles \cup {NoHandle}
    BY <1>1, LastHandleProperties
  <2>. QED
    BY <1>1, <2>1 DEF Init, TypeOK, Cancellable, NoPassphrase, NoHandle
<1>3. RequestInv
  BY DEF Init, RequestInv, Adding, Checked, Without, NoPassphrase
<1>. QED
  BY <1>2, <1>3 DEF TypeInv

\* The messages of a session.
LEMMA TypeServed ==
    ASSUME TypeInv, NEW s \in sessions, Served(s)
    PROVE  TypeInv'
<1> USE DEF TypeInv, TypeOK, RequestInv
<1>0. s \in Sessions
  OBVIOUS
<1>1. PICK left \in Expired(s) :
        \/ Message(s, left)
        \/ \E l \in Labels : CreateKey(s, left, l) \/ ImportKey(s, left, l)
        \/ \E h \in Handles : \/ ExportKey(s, left, h)
                              \/ OpenKey(s, left, h)
                              \/ UseKey(s, left, h)
                              \/ CloseObject(s, left, h)
                              \/ SetPolicy(s, left, h)
        \/ \E k \in iKeys : DeleteKey(s, left, k)
        \/ AuthOpen(s, left)
        \/ AuthClose(s, left)
        \/ SetTimeout(s, left)
        \/ Relock(s)
        \/ ChangePassphrase(s, left)
        \/ CancelRequest(s, left)
  BY DEF Served
<1>2. left \in [Sessions -> SUBSET PassStreams]
  BY <1>0, ExpiredType
<1>3. CASE Message(s, left)
  BY <1>0, <1>2, <1>3, HeldType DEF Message, keystore
<1>4. ASSUME NEW l \in Labels, CreateKey(s, left, l) \/ ImportKey(s, left, l)
      PROVE  TypeInv'
  BY <1>0, <1>2, <1>4
     DEF CreateKey, ImportKey, Admitted, keystore, Adding, Checked, Cancellable, Asking,
         Without
<1>5. ASSUME NEW h \in Handles, ExportKey(s, left, h)
      PROVE  TypeInv'
  BY <1>0, <1>2, <1>5 DEF ExportKey, Admitted, keystore, Adding, Checked, Asking, Without
<1>6. ASSUME NEW h \in Handles, OpenKey(s, left, h) \/ CloseObject(s, left, h)
      PROVE  TypeInv'
  BY <1>0, <1>2, <1>6 DEF OpenKey, CloseObject, request, keystore
<1>7. ASSUME NEW h \in Handles, SetPolicy(s, left, h)
      PROVE  TypeInv'
  BY <1>0, <1>2, <1>7 DEF SetPolicy, Committed, Reverted, request, memory
<1>8. ASSUME NEW k \in iKeys, DeleteKey(s, left, k)
      PROVE  TypeInv'
  <2>1. store' \in Images /\ committed' \in Images
    BY <1>8 DEF DeleteKey, RemoveKey, Committed, Reverted, Images
  <2>. QED
    BY <1>0, <1>2, <1>8, <2>1 DEF DeleteKey, RemoveKey, request, Admitted, Asking
<1>9. ASSUME AuthOpen(s, left) \/ \E h \in Handles : UseKey(s, left, h)
      PROVE  TypeInv'
  BY <1>0, <1>2, <1>9
     DEF AuthOpen, UseKey, GetKeystorePassphrase, Admitted, keystore, Adding, Checked,
         Asking, Without, Cancellable
<1>14. CASE ChangePassphrase(s, left)
  BY <1>0, <1>2, <1>14
     DEF ChangePassphrase, Admitted, keystore, Adding, Checked, Asking, Without, Cancellable
<1>10. CASE AuthClose(s, left)
  BY <1>0, <1>2, <1>10 DEF AuthClose, request, keystore
<1>11. CASE SetTimeout(s, left)
  BY <1>0, <1>2, <1>11 DEF SetTimeout, Committed, Reverted, request, memory
<1>12. CASE Relock(s)
  BY <1>0, <1>2, <1>12 DEF Relock, request, keystore
<1>13. CASE CancelRequest(s, left)
  <2>1. CASE iAction \in Cancellable /\ CancelEnds(s)
    BY <1>0, <1>2, <1>13, <2>1
       DEF CancelRequest, CancelEnds, Completed, keystore, NoPassphrase, Adding, Checked,
           Asking, Without, Cancellable, NoHandle
  <2>2. CASE ~(iAction \in Cancellable /\ CancelEnds(s))
    BY <1>0, <1>2, <1>13, <2>2 DEF CancelRequest, request, keystore
  <2>. QED
    BY <2>1, <2>2
<1>. QED
  BY <1>1, <1>3, <1>4, <1>5, <1>6, <1>7, <1>8, <1>9, <1>10, <1>11, <1>12, <1>13,
     <1>14

LEMMA TypeStep == TypeInv /\ [Next]_vars => TypeInv'
<1> SUFFICES ASSUME TypeInv, [Next]_vars
             PROVE  TypeInv'
  OBVIOUS
<1> USE DEF TypeInv, TypeOK, RequestInv
<1>1. ASSUME NEW s \in Sessions, OpenSession(s)
      PROVE  TypeInv'
  BY <1>1 DEF OpenSession, request, keystore
<1>2. ASSUME NEW s \in Sessions, CloseSession(s)
      PROVE  TypeInv'
  BY <1>2, HeldType
     DEF CloseSession, Completed, NoPassphrase, NoHandle, keystore, Asking, Adding, Checked,
         Without
<1>3. ASSUME NEW s \in sessions, Served(s)
      PROVE  TypeInv'
  BY <1>3, TypeServed
<1>4. ASSUME NEW s \in Sessions, NEW p \in PassStreams, PassphraseCreated(s, p)
      PROVE  TypeInv'
  <2>1. store' \in Images
    BY <1>4 DEF PassphraseCreated, Images
  <2>. QED
    BY <1>4, <2>1, NullAssumption DEF PassphraseCreated, memory, Asking, Adding, Checked, Without
<1>5. ASSUME NEW s \in Sessions, PassphraseEntered(s)
      PROVE  TypeInv'
  <2>1. iPassStreamId \in PassStreams
    BY <1>5, NullAssumption DEF PassphraseEntered, Images
  <2>. QED
    BY <1>5, <2>1, NullAssumption DEF PassphraseEntered, keystore, Asking, Adding, Checked,
        Without
<1>6. ASSUME NEW s \in Sessions, PassphraseRefused(s)
      PROVE  TypeInv'
  BY <1>6 DEF PassphraseRefused, keystore, Asking, Adding, Checked
<1>7. CASE KeyCreated \/ PasswordEntered
  BY <1>7 DEF KeyCreated, PasswordEntered, clients, keystore, Asking, Adding, Checked
<1>8. ASSUME NEW action \in {"EGetPassphrase", "EImportOpenPrivateStream",
                             "EExportKeyGetPassphrase", "EExportEncryptedKeyGetPassphrase"},
             NEW next \in {"ECreateKeyCreate", "EImportKey", "EExportKey",
                           "EExportEncryptedKey"},
             next \in Checked => action \in Adding,
             RunGetPassphrase(action, next)
      PROVE  TypeInv'
  <2>1. cache \in [Sessions -> SUBSET PassStreams] /\ iSession \in Sessions
    BY <1>8 DEF RunGetPassphrase
  <2>. QED
    BY <1>8, <2>1, NullAssumption
       DEF RunGetPassphrase, GetKeystorePassphrase, Ready, keystore, Adding, Checked,
           Asking, Without, Cancellable, Exporting
<1>9. CASE RunEDoExportKey \/ RunEExportEncryptedKey
  BY <1>9
     DEF RunEDoExportKey, RunEExportEncryptedKey, Ready, clients, keystore, Adding, Checked,
         Without, Asking, Cancellable, Exporting
<1>10. CASE RunECreateKeyCreate
  BY <1>10
     DEF RunECreateKeyCreate, Ready, clients, keystore, Adding, Checked, Without, Cancellable
<1>11. CASE RunStoreKey
  <2>1. /\ iPassphrase.stream \in PassStreams /\ iLabel \in Labels
        /\ iKeyIdentifier + 1 \in Handles
        /\ \A t \in Sessions : manager[t] = "EIdle"
    BY <1>11, NullAssumption
       DEF RunStoreKey, StoreKey, Ready, Adding, Checked, Handles, NoHandle
  <2>2. [handle |-> iKeyIdentifier + 1, label |-> iLabel, pass |-> iPassphrase.stream] \in Keys
    BY <2>1 DEF Keys
  <2>3. /\ store' \in Images /\ committed' \in Images
        /\ iKeys' \subseteq Keys /\ iPassStreamId' \in PassStreams \cup {NullStream}
    BY <1>11, <2>1, <2>2
       DEF RunStoreKey, StoreKey, AddFails, Committed, Reverted, DefaultPassphrase, Images
  <2>. QED
    BY <1>11, <2>1, <2>3
       DEF RunStoreKey, StoreKey, Completed, clients, NoPassphrase, NoHandle, Adding,
           Checked, Without
<1>12. CASE RunEnds
  BY <1>12
     DEF RunEnds, Ready, Completed, clients, keystore, NoPassphrase, NoHandle, Adding,
         Checked, Without
<1>13. CASE ServerDies
  <2>1. /\ committed' \in Images /\ store' = committed'
        /\ committed'.keys \in SUBSET Keys
        /\ committed'.pass \in PassStreams \cup {NullStream}
    <3>1. committed' \in Images /\ store' = committed'
      BY <1>13, OriginalStore DEF ServerDies, Restarted, OpenStore
    <3>. QED
      BY <3>1 DEF Images
  <2>2. LastHandle(committed'.keys) \in Handles \cup {NoHandle}
    BY <2>1, LastHandleProperties
  <2>. QED
    BY <1>13, <2>1, <2>2
       DEF ServerDies, Restarted, Completed, NoPassphrase, NoHandle, Adding, Checked, Without
<1>14. CASE UNCHANGED vars
  BY <1>14 DEF vars, request, clients, keystore
<1>15. ASSUME NEW s \in Sessions, PassphraseChanged(s)
       PROVE  TypeInv'
  BY <1>15
     DEF PassphraseChanged, Committed, Reverted, memory, Asking, Adding, Checked, Without
<1>16. CASE RunEChangePassphrase \/ RunEChangePassphraseClearCached
  BY <1>16
     DEF RunEChangePassphrase, RunEChangePassphraseClearCached, Completed, Ready, keystore,
         NoPassphrase, NoHandle, Asking, Adding, Checked, Without, Cancellable
<1>. QED
  <2>1. ASSUME RunEGetPassphrase \/ RunGetPassphrase("EImportOpenPrivateStream", "EImportKey")
               \/ RunGetPassphrase("EExportKeyGetPassphrase", "EExportKey")
               \/ RunGetPassphrase("EExportEncryptedKeyGetPassphrase", "EExportEncryptedKey")
        PROVE  TypeInv'
    BY <1>8, <2>1 DEF RunEGetPassphrase, Adding, Checked
  <2>. QED
    BY <1>1, <1>2, <1>3, <1>4, <1>5, <1>6, <1>7, <1>9, <1>10, <1>11, <1>12, <1>13, <1>14,
       <1>15, <1>16, <2>1
       DEF Next

\* The state of the request, the passphrases and the store keep their types.
THEOREM TypeCorrect == Spec => []TypeOK
<1>1. Spec => []TypeInv
  BY TypeInit, TypeStep, PTL DEF Spec
<1>. QED
  BY <1>1, PTL DEF TypeInv

-----------------------------------------------------------------------------
(* The keys in memory and in the file *)

KeyInv == TypeInv /\ StoreInv /\ AddInv

LEMMA KeyInit == Init => KeyInv
<1> SUFFICES ASSUME Init
             PROVE  KeyInv
  OBVIOUS
<1>1. TypeInv
  BY TypeInit
<1>2. StoreInv
  <2>1. /\ committed.keys \in SUBSET Keys
        /\ Distinct(committed.keys) /\ Unlocked(committed.keys, committed.pass)
        /\ \A k \in committed.keys : {k.handle, k.pass} \subseteq committed.streams
    BY OriginalStore DEF Init, Images
  <2>2. \A k \in committed.keys : k.handle <= LastHandle(committed.keys)
    BY <2>1, LastHandleProperties
  <2>. QED
    BY <2>1, <2>2 DEF Init, StoreInv, MemoryMatchesFile
<1>3. AddInv
  BY DEF Init, AddInv, Checked, NoPassphrase
<1>. QED
  BY <1>1, <1>2, <1>3 DEF KeyInv

\* The store is not touched: what matters is what the request is about to add.
LEMMA StoreKept ==
    ASSUME StoreInv, UNCHANGED keystore
    PROVE  StoreInv'
BY DEF StoreInv, keystore, MemoryMatchesFile, Distinct, Unlocked

\* AddL by DoStoreKeyL or PKCS8ToKeyL: the key that is added has a new handle and a new
\* label, and the passphrase of the others.
LEMMA KeyStored ==
    ASSUME KeyInv, RunStoreKey
    PROVE  StoreInv' /\ AddInv'
<1> DEFINE h   == iKeyIdentifier + 1
           key == [handle |-> h, label |-> iLabel, pass |-> iPassphrase.stream]
           pass == DefaultPassphrase(key.pass)
<1> USE DEF KeyInv, TypeInv
<1>1. AddInv'
  BY DEF RunStoreKey, Completed, AddInv, Checked, NoPassphrase
<1>2. /\ iKeyIdentifier \in Int /\ iKeyIdentifier' = h
      /\ \A k \in committed.keys : k.handle \in Int
      /\ store = [keys |-> store.keys, pass |-> store.pass, streams |-> store.streams]
      /\ iPassphrase.stream # NullStream
      /\ ~IsKeyInStore(iLabel)
      /\ UNCHANGED diverged
  BY NullAssumption
     DEF RunStoreKey, StoreKey, Ready, TypeOK, RequestInv, AddInv, Checked, Images, Keys,
         Handles, NoHandle
<1>3. CASE /\ iKeys' = iKeys \cup {key} /\ iPassStreamId' = pass
           /\ Committed([keys |-> iKeys', pass |-> pass, streams |-> store.streams \cup {h}])
  <2>1. /\ committed'.keys = iKeys \cup {key} /\ store'.keys = iKeys \cup {key}
        /\ committed'.pass = pass /\ store'.pass = pass
        /\ committed'.streams = store.streams \cup {h}
        /\ store'.streams = store.streams \cup {h}
    BY <1>3 DEF Committed
  <2>2. Unlocked(iKeys \cup {key}, pass)
    <3>1. \A k \in iKeys : k.pass = iPassStreamId
      BY DEF StoreInv, Unlocked
    <3>2. iKeys = {} <=> iPassStreamId = NullStream
      BY DEF StoreInv, Unlocked
    <3>3. iKeys # {} => iPassphrase.stream = iPassStreamId
      BY <1>2 DEF AddInv
    <3>4. key.pass = iPassphrase.stream
      OBVIOUS
    <3>5. pass = iPassphrase.stream
      BY <3>3, <3>4 DEF DefaultPassphrase
    <3> HIDE DEF key, pass
    <3>6. \A k \in iKeys \cup {key} : k.pass = pass
      BY <3>1, <3>3, <3>4, <3>5
    <3>. QED
      BY <1>2, <3>5, <3>6 DEF Unlocked
  <2>3. Distinct(iKeys \cup {key})
    BY <1>2 DEF Distinct, StoreInv, IsKeyInStore
  <2>4. \A k \in iKeys \cup {key} :
           {k.handle, k.pass} \subseteq store.streams \cup {h}
    BY <1>2 DEF StoreInv, AddInv
  <2>5. \A k \in iKeys \cup {key} : k.handle <= h
    BY <1>2 DEF StoreInv
  <2>. QED
    BY <1>1, <1>2, <1>3, <2>1, <2>2, <2>3, <2>4, <2>5 DEF StoreInv, MemoryMatchesFile
<1>4. CASE /\ AddFails(key)
           /\ \/ store' \in {store, [store EXCEPT !.streams = @ \cup {h}]}
              \/ Reverted
  <2>1. /\ UNCHANGED <<iKeys, iPassStreamId, committed>>
        /\ store'.keys = store.keys \/ store'.keys = committed.keys
        /\ store'.pass = store.pass \/ store'.pass = committed.pass
        /\ store.streams \subseteq store'.streams \/ store'.streams = committed.streams
    BY <1>2, <1>4 DEF AddFails, Reverted
  <2>2. \A k \in committed.keys : k.handle <= h
    BY <1>2 DEF StoreInv
  <2>. QED
    BY <1>1, <1>2, <2>1, <2>2 DEF StoreInv, MemoryMatchesFile, Distinct, Unlocked
<1>. QED
  BY <1>3, <1>4 DEF RunStoreKey, StoreKey

\* RemoveL: the others keep their data and their passphrase.
LEMMA KeyRemoved ==
    ASSUME KeyInv, NEW k \in iKeys, RemoveKey(k)
    PROVE  StoreInv'
<1> DEFINE keys    == iKeys \ {k}
           pass    == IF iKeys = {k} THEN NullStream ELSE iPassStreamId
           streams == store.streams \ Deleted(k)
<1> USE DEF KeyInv, TypeInv
<1>1. Unlocked(keys, pass) /\ Distinct(keys)
  BY DEF Unlocked, StoreInv, Distinct
<1>2. CASE /\ iKeys' = keys /\ iPassStreamId' = pass
           /\ Committed([keys |-> keys, pass |-> pass, streams |-> streams])
           /\ UNCHANGED <<diverged, iKeyIdentifier>>
  <2>1. /\ committed'.keys = keys /\ store'.keys = keys
        /\ committed'.pass = pass /\ store'.pass = pass
        /\ committed'.streams = streams /\ store'.streams = streams
    BY <1>2 DEF Committed
  <2>2. ASSUME NEW j \in keys
        PROVE  {j.handle, j.pass} \subseteq streams
    <3>1. j.handle # k.handle /\ j.pass # k.handle
      BY NullAssumption DEF StoreInv, Distinct, TypeOK, Keys
    <3>2. Deleted(k) = {k.handle}
      BY DEF Deleted
    <3>. QED
      BY <3>1, <3>2 DEF StoreInv
  <2>. QED
    BY <1>1, <1>2, <2>1, <2>2 DEF StoreInv, MemoryMatchesFile
<1>3. CASE /\ Reverted
           /\ UNCHANGED <<iKeys, iPassStreamId, committed, diverged, iKeyIdentifier>>
  BY <1>3 DEF Reverted, StoreInv, MemoryMatchesFile, Distinct, Unlocked
<1>4. CASE /\ iKeys' = keys /\ iPassStreamId' = pass
           /\ Reverted /\ diverged' = TRUE /\ UNCHANGED <<committed, iKeyIdentifier>>
  BY <1>1, <1>4 DEF Reverted, StoreInv, MemoryMatchesFile
<1>. QED
  BY <1>2, <1>3, <1>4 DEF RemoveKey

\* The store is committed or reverted as it is, by a request that adds no key.
LEMMA StoreSaved ==
    ASSUME StoreInv, iPassphrase = NoPassphrase, iAction' \notin Checked,
           UNCHANGED <<iPassphrase, memory, diverged>>,
           Committed(store) \/ (Reverted /\ UNCHANGED committed)
    PROVE  StoreInv' /\ AddInv'
BY DEF StoreInv, AddInv, memory, Committed, Reverted, NoPassphrase, MemoryMatchesFile,
       Distinct, Unlocked

LEMMA KeyServed ==
    ASSUME KeyInv, NEW s \in sessions, Served(s)
    PROVE  StoreInv' /\ AddInv'
<1> USE DEF KeyInv
<1>0. TypeOK /\ RequestInv /\ s \in Sessions
  BY DEF TypeInv, TypeOK
<1>1. PICK left \in Expired(s) :
        \/ Message(s, left)
        \/ \E l \in Labels : CreateKey(s, left, l) \/ ImportKey(s, left, l)
        \/ \E h \in Handles : \/ ExportKey(s, left, h)
                              \/ OpenKey(s, left, h)
                              \/ UseKey(s, left, h)
                              \/ CloseObject(s, left, h)
                              \/ SetPolicy(s, left, h)
        \/ \E k \in iKeys : DeleteKey(s, left, k)
        \/ AuthOpen(s, left)
        \/ AuthClose(s, left)
        \/ SetTimeout(s, left)
        \/ Relock(s)
        \/ ChangePassphrase(s, left)
        \/ CancelRequest(s, left)
  BY DEF Served
<1>2. left \in [Sessions -> SUBSET PassStreams]
  BY <1>0, ExpiredType
<1>3. CASE Message(s, left)
  BY <1>0, <1>3, StoreKept, HeldType DEF Message, keystore, AddInv, IsKeyInStore
<1>4. ASSUME NEW l \in Labels, CreateKey(s, left, l) \/ ImportKey(s, left, l)
      PROVE  StoreInv' /\ AddInv'
  BY <1>4, StoreKept DEF CreateKey, ImportKey, keystore, AddInv, IsKeyInStore, Checked
<1>5. ASSUME NEW h \in Handles, ExportKey(s, left, h)
      PROVE  StoreInv' /\ AddInv'
  BY <1>5, StoreKept DEF ExportKey, keystore, AddInv, Checked
<1>6. ASSUME NEW h \in Handles, OpenKey(s, left, h) \/ CloseObject(s, left, h)
      PROVE  StoreInv' /\ AddInv'
  BY <1>6, StoreKept DEF OpenKey, CloseObject, request, keystore, AddInv, IsKeyInStore
<1>7. ASSUME SetTimeout(s, left) \/ \E h \in Handles : SetPolicy(s, left, h)
      PROVE  StoreInv' /\ AddInv'
  <2>1. /\ UNCHANGED <<request, memory, diverged>>
        /\ Committed(store) \/ (Reverted /\ UNCHANGED committed)
        /\ iAction = "EIdle"
    BY <1>7 DEF SetTimeout, SetPolicy, Admitted
  <2>2. iPassphrase = NoPassphrase
    BY <1>0, <2>1 DEF RequestInv, Without
  <2>. QED
    BY <2>1, <2>2, StoreSaved DEF request, Checked
<1>8. ASSUME NEW k \in iKeys, DeleteKey(s, left, k)
      PROVE  StoreInv' /\ AddInv'
  <2>1. RemoveKey(k) /\ UNCHANGED request /\ iAction = "EIdle"
    BY <1>8 DEF DeleteKey, Admitted
  <2>2. iPassphrase.stream = NullStream
    BY <1>0, <2>1 DEF RequestInv, Without, NoPassphrase
  <2>. QED
    BY <2>1, <2>2, KeyRemoved DEF AddInv, request, Checked
<1>9. ASSUME AuthOpen(s, left) \/ \E h \in Handles : UseKey(s, left, h)
      PROVE  StoreInv' /\ AddInv'
  BY <1>0, <1>2, <1>9, StoreKept, NullAssumption
     DEF AuthOpen, UseKey, GetKeystorePassphrase, keystore, AddInv, Checked, StoreInv, Unlocked
<1>10. CASE AuthClose(s, left)
  BY <1>10, StoreKept DEF AuthClose, request, keystore, AddInv, IsKeyInStore
<1>12. CASE Relock(s)
  BY <1>12, StoreKept DEF Relock, request, keystore, AddInv, IsKeyInStore
<1>13. CASE CancelRequest(s, left)
  BY <1>13, StoreKept
     DEF CancelRequest, Completed, NoPassphrase, request, keystore, AddInv, IsKeyInStore,
         Checked
<1>14. CASE ChangePassphrase(s, left)
  BY <1>14, StoreKept DEF ChangePassphrase, keystore, AddInv, Checked
<1>. QED
  BY <1>1, <1>3, <1>4, <1>5, <1>6, <1>7, <1>8, <1>9, <1>10, <1>12, <1>13, <1>14

LEMMA KeyStep == KeyInv /\ [Next]_vars => KeyInv'
<1> SUFFICES ASSUME KeyInv, [Next]_vars
             PROVE  StoreInv' /\ AddInv'
  BY TypeStep DEF KeyInv
<1> USE DEF KeyInv
<1>0. TypeOK /\ RequestInv
  BY DEF TypeInv
<1>1. ASSUME NEW s \in Sessions, OpenSession(s)
      PROVE  StoreInv' /\ AddInv'
  BY <1>1, StoreKept DEF OpenSession, request, keystore, AddInv, IsKeyInStore
<1>2. ASSUME NEW s \in Sessions, CloseSession(s)
      PROVE  StoreInv' /\ AddInv'
  BY <1>0, <1>2, StoreKept, HeldType
     DEF CloseSession, Completed, NoPassphrase, keystore, AddInv, IsKeyInStore, Checked
<1>3. ASSUME NEW s \in sessions, Served(s)
      PROVE  StoreInv' /\ AddInv'
  BY <1>3, KeyServed
<1>4. ASSUME NEW s \in Sessions, NEW p \in PassStreams, PassphraseCreated(s, p)
      PROVE  StoreInv' /\ AddInv'
  <2>1. /\ store'.keys = store.keys /\ store'.pass = store.pass
        /\ store'.streams = store.streams \cup {p}
        /\ UNCHANGED <<committed, memory, diverged, iAction, iLabel>>
        /\ iPassphrase'.stream = p
    BY <1>0, <1>4 DEF PassphraseCreated, TypeOK, Images
  <2>2. iKeys = {}
    BY <1>0, <1>4 DEF PassphraseCreated, RequestInv, StoreInv, Unlocked
  <2>. QED
    BY <2>1, <2>2
       DEF StoreInv, AddInv, IsKeyInStore, memory, MemoryMatchesFile, Distinct, Unlocked
<1>5. ASSUME NEW s \in Sessions, PassphraseEntered(s)
      PROVE  StoreInv' /\ AddInv'
  BY <1>5, StoreKept DEF PassphraseEntered, keystore, AddInv, IsKeyInStore
<1>6. ASSUME NEW s \in Sessions, PassphraseRefused(s)
      PROVE  StoreInv' /\ AddInv'
  BY <1>6, StoreKept DEF PassphraseRefused, keystore, AddInv, IsKeyInStore
<1>7. CASE KeyCreated \/ PasswordEntered
  BY <1>7, StoreKept DEF KeyCreated, PasswordEntered, keystore, AddInv, IsKeyInStore
<1>8. ASSUME NEW action, NEW next, RunGetPassphrase(action, next),
             next \in Checked => ~IsKeyInStore(iLabel)
      PROVE  StoreInv' /\ AddInv'
  <2>1. iPassStreamId \in cache[iSession] =>
           iPassStreamId \in store.streams
    <3>1. SUFFICES ASSUME iPassStreamId \in cache[iSession]
                   PROVE  iPassStreamId \in store.streams
      OBVIOUS
    <3>2. iSession \in Sessions
      BY <1>0, <1>8 DEF RunGetPassphrase, TypeOK
    <3>3. iPassStreamId # NullStream
      BY <1>0, <3>1, <3>2, NullAssumption DEF TypeOK
    <3>. QED
      BY <3>3 DEF StoreInv, Unlocked
  <2>. QED
    BY <1>8, <2>1, StoreKept
       DEF RunGetPassphrase, GetKeystorePassphrase, keystore, AddInv, IsKeyInStore
<1>9. ASSUME RunEDoExportKey \/ RunEExportEncryptedKey \/ RunEChangePassphrase
      PROVE  StoreInv' /\ AddInv'
  BY <1>9, StoreKept
     DEF RunEDoExportKey, RunEExportEncryptedKey, RunEChangePassphrase, keystore, AddInv,
         Checked
<1>10. CASE RunECreateKeyCreate
  BY <1>10, StoreKept
     DEF RunECreateKeyCreate, Ready, keystore, AddInv, IsKeyInStore, Checked
<1>11. CASE RunStoreKey
  BY <1>11, KeyStored
<1>12. CASE RunEnds \/ RunEChangePassphraseClearCached
  BY <1>12, StoreKept
     DEF RunEnds, RunEChangePassphraseClearCached, Completed, keystore, AddInv,
         NoPassphrase, Checked
<1>13. CASE ServerDies
  <2> DEFINE found == committed'
  <2>1. /\ found.keys \in SUBSET Keys
        /\ Distinct(found.keys) /\ Unlocked(found.keys, found.pass)
        /\ \A k \in found.keys : {k.handle, k.pass} \subseteq found.streams
    <3>1. CASE found = committed
      BY <1>0, <3>1 DEF TypeOK, Images, StoreInv
    <3>2. CASE found \in {RomStore, EmptyStore}
      BY <3>2, OriginalStore DEF Images
    <3>. QED
      BY <1>13, <3>1, <3>2 DEF ServerDies, Restarted, OpenStore
  <2>2. \A k \in found.keys : k.handle <= LastHandle(found.keys)
    BY <2>1, LastHandleProperties
  <2>3. /\ iKeys' = found.keys /\ iPassStreamId' = found.pass
        /\ iKeyIdentifier' = LastHandle(found.keys)
        /\ store' = found
    BY <1>13 DEF ServerDies, Restarted
  <2>4. AddInv'
    BY <1>13 DEF ServerDies, Restarted, Completed, AddInv, NoPassphrase, Checked
  <2>. QED
    BY <2>1, <2>2, <2>3, <2>4 DEF StoreInv, MemoryMatchesFile, Distinct, Unlocked
<1>14. CASE UNCHANGED vars
  BY <1>14, StoreKept DEF vars, request, keystore, AddInv, IsKeyInStore
<1>15. ASSUME NEW s \in Sessions, PassphraseChanged(s)
       PROVE  StoreInv' /\ AddInv'
  <2>1. /\ UNCHANGED <<iAction, iPassphrase, memory, diverged>>
        /\ Committed(store) \/ (Reverted /\ UNCHANGED committed)
        /\ manager[s] = "EChangePassphrase"
    BY <1>15 DEF PassphraseChanged
  <2>2. iAction \in Without
    BY <1>0, <2>1 DEF RequestInv, Without
  <2>3. iPassphrase = NoPassphrase
    BY <1>0, <2>2 DEF RequestInv
  <2>. QED
    BY <2>1, <2>2, <2>3, StoreSaved DEF Checked, Without
<1>. QED
  <2>1. ASSUME RunEGetPassphrase
        PROVE  StoreInv' /\ AddInv'
    BY <1>8, <2>1 DEF RunEGetPassphrase
  <2>2. ASSUME RunGetPassphrase("EImportOpenPrivateStream", "EImportKey")
        PROVE  StoreInv' /\ AddInv'
    <3>1. ~IsKeyInStore(iLabel)
      BY <2>2 DEF RunGetPassphrase, Ready, AddInv, Checked
    <3>. QED
      BY <1>8, <2>2, <3>1
  <2>3. ASSUME RunGetPassphrase("EExportKeyGetPassphrase", "EExportKey")
        PROVE  StoreInv' /\ AddInv'
    BY <1>8, <2>3 DEF Checked
  <2>4. ASSUME RunGetPassphrase("EExportEncryptedKeyGetPassphrase", "EExportEncryptedKey")
        PROVE  StoreInv' /\ AddInv'
    BY <1>8, <2>4 DEF Checked
  <2>. QED
    BY <1>1, <1>2, <1>3, <1>4, <1>5, <1>6, <1>7, <1>9, <1>10, <1>11, <1>12, <1>13, <1>14,
       <1>15, <2>1, <2>2, <2>3, <2>4
       DEF Next

LEMMA KeyInvariant == Spec => []KeyInv
BY KeyInit, KeyStep, PTL DEF Spec

\* A restart finds a store in which every key has its data and its passphrase
\* (the order in which AddL and RemoveL write, commit and revert).
THEOREM RestartFindsKeysHolds == Spec => []RestartFindsKeys
<1>1. KeyInv => RestartFindsKeys
  BY DEF KeyInv, StoreInv, RestartFindsKeys
<1>. QED
  BY <1>1, KeyInvariant, PTL

\* The server lists what a restart will find, unless the commit of a removal has failed.
THEOREM MemoryMatchesFileHolds == Spec => []MemoryMatchesFile
<1>1. KeyInv => MemoryMatchesFile
  BY DEF KeyInv, StoreInv
<1>. QED
  BY <1>1, KeyInvariant, PTL

\* All keys have the default passphrase (AddL sets it with the first key, RemoveL deletes
\* it with the last).
THEOREM OnePassphraseHolds == Spec => []OnePassphrase
<1>1. KeyInv => OnePassphrase
  BY DEF KeyInv, StoreInv, Unlocked, OnePassphrase
<1>. QED
  BY <1>1, KeyInvariant, PTL

\* No two keys have a label or a handle in common, although CheckCreateKeyPolicy and AddL
\* are steps apart and handles are found again after a restart.
THEOREM KeysDistinctHolds == Spec => []KeysDistinct
<1>1. KeyInv => KeysDistinct
  BY DEF KeyInv, StoreInv, Distinct, KeysDistinct
<1>. QED
  BY <1>1, KeyInvariant, PTL

-----------------------------------------------------------------------------
(* Keys that are in use *)

OpenInv == OpenKeysAlive /\ ClosedInv

LEMMA OpenInit == Init => OpenInv
BY DEF Init, OpenInv, OpenKeysAlive, ClosedInv, Exporting

LEMMA OpenServed ==
    ASSUME TypeOK, OpenInv, NEW s \in sessions, Served(s)
    PROVE  OpenInv'
<1> USE DEF OpenInv
<1>0. s \in Sessions /\ opened \in [Sessions -> SUBSET Handles]
  BY DEF TypeOK
<1>1. PICK left \in Expired(s) :
        \/ Message(s, left)
        \/ \E l \in Labels : CreateKey(s, left, l) \/ ImportKey(s, left, l)
        \/ \E h \in Handles : \/ ExportKey(s, left, h)
                              \/ OpenKey(s, left, h)
                              \/ UseKey(s, left, h)
                              \/ CloseObject(s, left, h)
                              \/ SetPolicy(s, left, h)
        \/ \E k \in iKeys : DeleteKey(s, left, k)
        \/ AuthOpen(s, left)
        \/ AuthClose(s, left)
        \/ SetTimeout(s, left)
        \/ Relock(s)
        \/ ChangePassphrase(s, left)
        \/ CancelRequest(s, left)
  BY DEF Served
<1>2. ASSUME UNCHANGED <<sessions, opened, iKeys>>,
             iAction' \in Exporting => UNCHANGED <<iAction, iKeyData>>,
             iAction' = "EUseKey" => UNCHANGED <<iAction, iKeyData, iSession>>
      PROVE  OpenInv'
  BY <1>2 DEF OpenKeysAlive, ClosedInv, Lookup
<1>3. ASSUME NEW h \in Handles, OpenKey(s, left, h)
      PROVE  OpenInv'
  BY <1>0, <1>3
     DEF OpenKey, Admitted, request, keystore, OpenKeysAlive, ClosedInv, Lookup, Exporting
<1>4. ASSUME NEW h \in Handles, CloseObject(s, left, h)
      PROVE  OpenInv'
  BY <1>0, <1>4
     DEF CloseObject, Admitted, request, keystore, OpenKeysAlive, ClosedInv, Lookup,
         Exporting
<1>5. ASSUME NEW k \in iKeys, DeleteKey(s, left, k)
      PROVE  OpenInv'
  <2>1. /\ iAction' = "EIdle" /\ UNCHANGED <<sessions, opened>>
        /\ iKeys \ {k} \subseteq iKeys'
        /\ \A t \in sessions : k.handle \notin opened[t]
    BY <1>5 DEF DeleteKey, RemoveKey, Admitted, InUse, request
  <2>. QED
    BY <2>1 DEF OpenKeysAlive, ClosedInv, Lookup, Exporting
<1>6. ASSUME NEW h \in Handles, UseKey(s, left, h)
      PROVE  OpenInv'
  <2>1. /\ iAction' = "EUseKey" /\ iSession' = s /\ iKeyData' = h
        /\ h \in opened[s] /\ UNCHANGED <<sessions, opened, iKeys>>
    BY <1>6 DEF UseKey, GetKeystorePassphrase, keystore
  <2>. QED
    BY <1>0, <2>1 DEF OpenKeysAlive, ClosedInv, Lookup, Exporting
<1>7. CASE CancelRequest(s, left)
  BY <1>2, <1>7 DEF CancelRequest, Completed, keystore, request, Exporting
<1>8. CASE Message(s, left)
  BY <1>2, <1>8 DEF Message, keystore
<1>. QED
  <2>1. ASSUME \/ AuthOpen(s, left) \/ AuthClose(s, left)
               \/ SetTimeout(s, left) \/ Relock(s) \/ ChangePassphrase(s, left)
               \/ \E l \in Labels : CreateKey(s, left, l) \/ ImportKey(s, left, l)
               \/ \E h \in Handles : ExportKey(s, left, h) \/ SetPolicy(s, left, h)
        PROVE  OpenInv'
    BY <1>2, <2>1
       DEF AuthOpen, GetKeystorePassphrase, AuthClose, SetTimeout, Relock,
           ChangePassphrase, CreateKey, ImportKey, ExportKey, SetPolicy, keystore,
           memory, request, Exporting
  <2>. QED
    BY <1>1, <1>3, <1>4, <1>5, <1>6, <1>7, <1>8, <2>1

LEMMA OpenStep == TypeOK /\ OpenInv /\ [Next]_vars => OpenInv'
<1> SUFFICES ASSUME TypeOK, OpenInv, [Next]_vars
             PROVE  OpenInv'
  OBVIOUS
<1> USE DEF OpenInv
<1>1. ASSUME UNCHANGED <<sessions, opened>>, iKeys \subseteq iKeys',
             iAction' \in Exporting => Lookup(iKeyData) /\ UNCHANGED iKeyData,
             iAction' = "EUseKey" => UNCHANGED <<iAction, iKeyData, iSession>>
      PROVE  OpenInv'
  BY <1>1 DEF OpenKeysAlive, ClosedInv, Lookup
<1>2. ASSUME NEW s \in Sessions, OpenSession(s)
      PROVE  OpenInv'
  BY <1>2 DEF OpenSession, request, keystore, OpenKeysAlive, ClosedInv, Lookup
<1>3. ASSUME NEW s \in Sessions, CloseSession(s)
      PROVE  OpenInv'
  BY <1>3
     DEF CloseSession, Completed, keystore, OpenKeysAlive, ClosedInv, Lookup, Exporting,
         TypeOK
<1>4. ASSUME NEW s \in sessions, Served(s)
      PROVE  OpenInv'
  BY <1>4, OpenServed
<1>5. ASSUME \/ \E s \in Sessions : \/ PassphraseEntered(s) \/ PassphraseRefused(s)
                                   \/ PassphraseChanged(s)
                                   \/ \E p \in PassStreams : PassphraseCreated(s, p)
             \/ KeyCreated \/ PasswordEntered
      PROVE  OpenInv'
  <2>1. /\ UNCHANGED <<sessions, opened, iKeys, iAction, iKeyData, iSession>>
    BY <1>5
       DEF PassphraseEntered, PassphraseRefused, PassphraseChanged, PassphraseCreated,
           KeyCreated, PasswordEntered, clients, keystore, memory
  <2>. QED
    BY <1>1, <2>1 DEF OpenKeysAlive
<1>6. ASSUME NEW action, NEW next, RunGetPassphrase(action, next),
             next # "EUseKey", next \in Exporting => action \in Exporting
      PROVE  OpenInv'
  BY <1>1, <1>6 DEF RunGetPassphrase, GetKeystorePassphrase, Ready, keystore, OpenKeysAlive
<1>7. ASSUME \/ RunEDoExportKey \/ RunEExportEncryptedKey \/ RunEChangePassphrase
             \/ RunEChangePassphraseClearCached \/ RunECreateKeyCreate \/ RunEnds
      PROVE  OpenInv'
  BY <1>1, <1>7
     DEF RunEDoExportKey, RunEExportEncryptedKey, RunEChangePassphrase,
         RunEChangePassphraseClearCached, RunECreateKeyCreate, RunEnds, Ready, Completed,
         clients, keystore, OpenKeysAlive, Exporting
<1>8. CASE RunStoreKey
  BY <1>1, <1>8 DEF RunStoreKey, StoreKey, AddFails, Completed, clients, Exporting
<1>9. CASE ServerDies
  BY <1>9 DEF ServerDies, Restarted, Completed, OpenKeysAlive, ClosedInv, Exporting
<1>10. CASE UNCHANGED vars
  BY <1>1, <1>10 DEF vars, request, clients, keystore, OpenKeysAlive
<1>. QED
  <2>1. ASSUME \/ RunEGetPassphrase
               \/ RunGetPassphrase("EImportOpenPrivateStream", "EImportKey")
               \/ RunGetPassphrase("EExportKeyGetPassphrase", "EExportKey")
               \/ RunGetPassphrase("EExportEncryptedKeyGetPassphrase", "EExportEncryptedKey")
        PROVE  OpenInv'
    BY <1>6, <2>1 DEF RunEGetPassphrase, Exporting
  <2>. QED
    BY <1>2, <1>3, <1>4, <1>5, <1>7, <1>8, <1>9, <1>10, <2>1 DEF Next

LEMMA OpenInvariant == Spec => []OpenInv
BY OpenInit, OpenStep, TypeCorrect, PTL DEF Spec

\* A key that is open in any session, or is being exported, is not deleted under it
\* (DeleteKeyL asks all sessions, and is refused while a request is outstanding).
THEOREM OpenKeysAliveHolds == Spec => []OpenKeysAlive
BY OpenInvariant, PTL DEF OpenInv

-----------------------------------------------------------------------------
(* The server implements the abstract KeyChain *)

LEMMA ChainKept ==
    ASSUME UNCHANGED <<iKeys, opened>>, committed'.keys = committed.keys
    PROVE  Chain!Next \/ UNCHANGED Chain!vars
BY DEF Chain!vars

\* The file is written, but not with other keys.
LEMMA ChainSaved ==
    ASSUME StoreInv, UNCHANGED <<iKeys, opened>>,
           Committed(store) \/ UNCHANGED committed
    PROVE  Chain!Next \/ UNCHANGED Chain!vars
<1>1. committed'.keys = committed.keys
  BY DEF StoreInv, Committed
<1>. QED
  BY <1>1, ChainKept

\* AddL adds a key that fits, or fails.
LEMMA ChainAdds ==
    ASSUME KeyInv, RunStoreKey
    PROVE  Chain!Next \/ UNCHANGED Chain!vars
<1> DEFINE h   == iKeyIdentifier + 1
           key == [handle |-> h, label |-> iLabel, pass |-> iPassphrase.stream]
<1> USE DEF KeyInv, TypeInv
<1>1. /\ iPassphrase.stream \in PassStreams /\ iPassphrase.stream # NullStream
      /\ iLabel \in Labels /\ ~IsKeyInStore(iLabel)
      /\ iKeyIdentifier \in Nat /\ h \in Handles
      /\ UNCHANGED opened
  BY NullAssumption
     DEF RunStoreKey, StoreKey, Ready, TypeOK, RequestInv, AddInv, Adding, Checked,
         Handles, NoHandle, clients
<1>2. CASE iKeys' = iKeys \cup {key} /\ committed'.keys = iKeys'
  <2>1. key \in Keys
    BY <1>1 DEF Keys
  <2>2. \A j \in iKeys : j.label # key.label
    BY <1>1 DEF IsKeyInStore
  <2>3. \A j \in iKeys : j.pass = key.pass
    BY <1>1 DEF AddInv, StoreInv, Unlocked
  <2>4. \A j \in committed.keys : j.handle # key.handle
    <3>1. \A j \in committed.keys : j.handle <= iKeyIdentifier /\ j.handle \in Int
      BY DEF StoreInv, TypeOK, Images, Keys, Handles
    <3>. QED
      BY <1>1, <3>1
  <2> HIDE DEF key
  <2>5. Chain!Add(key)
    BY <1>1, <1>2, <2>2, <2>3, <2>4 DEF Chain!Add
  <2>. QED
    BY <2>1, <2>5 DEF Chain!Next
<1>3. CASE UNCHANGED <<iKeys, committed>>
  BY <1>1, <1>3, ChainKept
<1>. QED
  BY <1>2, <1>3 DEF RunStoreKey, StoreKey, AddFails, Committed

\* RemoveL removes a key that nobody has open, fails, or fails to commit.
LEMMA ChainRemoves ==
    ASSUME KeyInv, OpenInv, NEW s \in sessions, NEW left, NEW k \in iKeys,
           DeleteKey(s, left, k)
    PROVE  Chain!Next \/ UNCHANGED Chain!vars
<1>1. UNCHANGED opened /\ k \in Keys
  BY DEF DeleteKey, KeyInv, TypeInv, TypeOK
<1>2. CASE UNCHANGED <<iKeys, committed>>
  BY <1>1, <1>2, ChainKept
<1>3. CASE iKeys' = iKeys \ {k} /\ committed'.keys \in {iKeys', committed.keys}
  <2>1. \A t \in Sessions : k.handle \notin opened[t]
    BY DEF DeleteKey, InUse, OpenInv, ClosedInv
  <2>2. Chain!Remove(k)
    BY <1>1, <1>3, <2>1 DEF Chain!Remove
  <2>. QED
    BY <1>1, <2>2 DEF Chain!Next
<1>. QED
  BY <1>2, <1>3 DEF DeleteKey, RemoveKey, Committed

\* Sessions that let go of some of their keys, one session at a time.
LEMMA ChainReleases ==
    ASSUME TypeOK, NEW s \in Sessions, NEW kept \in SUBSET opened[s],
           opened' = [opened EXCEPT ![s] = kept], UNCHANGED <<iKeys, committed>>
    PROVE  Chain!Next
BY DEF Chain!Next, Chain!Release

LEMMA ChainServed ==
    ASSUME KeyInv, OpenInv, NEW s \in sessions, Served(s)
    PROVE  Chain!Next \/ UNCHANGED Chain!vars
<1>0. s \in Sessions /\ TypeOK
  BY DEF KeyInv, TypeInv, TypeOK
<1>1. PICK left \in Expired(s) :
        \/ Message(s, left)
        \/ \E l \in Labels : CreateKey(s, left, l) \/ ImportKey(s, left, l)
        \/ \E h \in Handles : \/ ExportKey(s, left, h)
                              \/ OpenKey(s, left, h)
                              \/ UseKey(s, left, h)
                              \/ CloseObject(s, left, h)
                              \/ SetPolicy(s, left, h)
        \/ \E k \in iKeys : DeleteKey(s, left, k)
        \/ AuthOpen(s, left)
        \/ AuthClose(s, left)
        \/ SetTimeout(s, left)
        \/ Relock(s)
        \/ ChangePassphrase(s, left)
        \/ CancelRequest(s, left)
  BY DEF Served
<1>2. ASSUME NEW h \in Handles, OpenKey(s, left, h)
      PROVE  Chain!Next
  <2>1. PICK k \in iKeys : k.handle = h
    BY <1>2 DEF OpenKey, Lookup
  <2>2. Chain!Open(s, k)
    BY <1>2, <2>1 DEF OpenKey, keystore, Chain!Open
  <2>. QED
    BY <1>0, <2>1, <2>2 DEF TypeOK, Chain!Next
<1>3. ASSUME NEW h \in Handles, CloseObject(s, left, h)
      PROVE  Chain!Next
  <2>1. /\ opened' = opened \/ opened' = [opened EXCEPT ![s] = opened[s] \ {h}]
        /\ UNCHANGED <<iKeys, committed>>
    BY <1>3 DEF CloseObject, keystore
  <2>2. opened = [opened EXCEPT ![s] = opened[s]]
    BY <1>0 DEF TypeOK
  <2>. QED
    BY <1>0, <2>1, <2>2, ChainReleases
<1>4. ASSUME SetTimeout(s, left) \/ \E h \in Handles : SetPolicy(s, left, h)
      PROVE  Chain!Next \/ UNCHANGED Chain!vars
  BY <1>4, ChainSaved DEF SetTimeout, SetPolicy, KeyInv, memory
<1>5. ASSUME \/ Message(s, left) \/ AuthOpen(s, left) \/ AuthClose(s, left) \/ Relock(s)
             \/ ChangePassphrase(s, left) \/ CancelRequest(s, left)
             \/ \E l \in Labels : CreateKey(s, left, l) \/ ImportKey(s, left, l)
             \/ \E h \in Handles : ExportKey(s, left, h) \/ UseKey(s, left, h)
      PROVE  Chain!Next \/ UNCHANGED Chain!vars
  <2>1. UNCHANGED <<iKeys, opened, committed>>
    BY <1>5
       DEF Message, AuthOpen, AuthClose, Relock, ChangePassphrase, CancelRequest, CreateKey,
           ImportKey, ExportKey, UseKey, keystore
  <2>. QED
    BY <2>1, ChainKept
<1>. QED
  BY <1>1, <1>2, <1>3, <1>4, <1>5, ChainRemoves

LEMMA ChainStep ==
    ASSUME KeyInv, OpenInv, [Next]_vars
    PROVE  [Chain!Next]_(Chain!vars)
<1>0. TypeOK /\ StoreInv
  BY DEF KeyInv, TypeInv
<1>1. ASSUME NEW s \in Sessions, CloseSession(s)
      PROVE  Chain!Next
  <2>1. opened' = [opened EXCEPT ![s] = {}] /\ UNCHANGED <<iKeys, committed>>
    BY <1>1 DEF CloseSession, keystore
  <2>. QED
    BY <1>0, <2>1, ChainReleases
<1>2. ASSUME NEW s \in sessions, Served(s)
      PROVE  Chain!Next \/ UNCHANGED Chain!vars
  BY <1>2, ChainServed
<1>3. ASSUME NEW s \in Sessions, PassphraseChanged(s)
      PROVE  Chain!Next \/ UNCHANGED Chain!vars
  BY <1>0, <1>3, ChainSaved DEF PassphraseChanged, memory
<1>4. CASE RunStoreKey
  BY <1>4, ChainAdds
<1>5. CASE ServerDies
  <2>1. Chain!Restart
    BY <1>5 DEF ServerDies, Restarted, OpenStore, EmptyStore, Chain!Restart
  <2>. QED
    BY <2>1 DEF Chain!Next
<1>6. ASSUME NEW action, NEW next, RunGetPassphrase(action, next)
      PROVE  Chain!Next \/ UNCHANGED Chain!vars
  BY <1>6, ChainKept DEF RunGetPassphrase, keystore
<1>7. ASSUME \/ \E s \in Sessions : \/ OpenSession(s) \/ PassphraseEntered(s)
                                   \/ PassphraseRefused(s)
                                   \/ \E p \in PassStreams : PassphraseCreated(s, p)
             \/ PasswordEntered \/ KeyCreated \/ RunEDoExportKey \/ RunEExportEncryptedKey
             \/ RunEChangePassphrase \/ RunEChangePassphraseClearCached
             \/ RunECreateKeyCreate \/ RunEnds \/ UNCHANGED vars
      PROVE  Chain!Next \/ UNCHANGED Chain!vars
  <2>1. UNCHANGED <<iKeys, opened, committed>>
    BY <1>7
       DEF OpenSession, PassphraseEntered, PassphraseRefused, PassphraseCreated,
           PasswordEntered, KeyCreated, RunEDoExportKey, RunEExportEncryptedKey,
           RunEChangePassphrase, RunEChangePassphraseClearCached, RunECreateKeyCreate,
           RunEnds, vars, clients, keystore, memory
  <2>. QED
    BY <2>1, ChainKept
<1>. QED
  BY <1>1, <1>2, <1>3, <1>4, <1>5, <1>6, <1>7 DEF Next, RunEGetPassphrase

\* Clients of the server see a KeyChain: what CFSKeyStoreServer::RunL, AddL, RemoveL and
\* RevertStore do in steps is to them a key that comes, goes, is opened or closed, or nothing.
THEOREM KeyChainImplemented == Spec => ImplementsKeyChain
<1>1. Init => Chain!Init
  BY DEF Init, EmptyStore, Chain!Init
<1>2. KeyInv /\ OpenInv /\ [Next]_vars => [Chain!Next]_(Chain!vars)
  BY ChainStep
<1>. QED
  BY <1>1, <1>2, KeyInvariant, OpenInvariant, PTL DEF Spec, ImplementsKeyChain, Chain!Spec

=============================================================================
