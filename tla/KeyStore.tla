------------------------------- MODULE KeyStore -------------------------------
(***************************************************************************)
(* The file based key store server: CKeyStoreConduit, which admits one     *)
(* asynchronous request at a time, CFSKeyStoreServer, whose iAction is the *)
(* state of that request, COpenedKey, which serves the requests that use a *)
(* key ("EUseKey" here), the CPassphraseManager of each session, and       *)
(* CFileKeyDataManager, which keeps the keys in memory and in a permanent  *)
(* file store that is changed in transactions.  This is the build without  *)
(* the authentication server, where all keys share one passphrase.         *)
(*                                                                         *)
(* The server is one thread.  The conduit has the highest priority of its  *)
(* active objects, so the answer to a client follows the end of its        *)
(* request at once.  Whatever can leave does so here in every way the code *)
(* tells apart; a commit is atomic, which is what CPermanentFileStore      *)
(* promises.  The three data streams of a key are one stream, named by the *)
(* handle of the key.                                                      *)
(***************************************************************************)
EXTENDS Integers, FiniteSets

CONSTANTS
    Sessions,       \* CKeyStoreSession
    Labels,         \* labels clients give to keys
    PassStreams,    \* ids of the streams that hold a passphrase
    MaxKeyId,       \* bound on iKeyIdentifier
    RomStore,       \* the key store file in ROM, EmptyStore if there is none
    NoSession, NoLabel, NullStream

Handles  == 1 .. MaxKeyId
NoHandle == 0

ASSUME NullAssumption ==
    /\ NoSession \notin Sessions /\ NoLabel \notin Labels
    /\ NullStream \notin PassStreams \cup Handles /\ PassStreams \cap Handles = {}
    /\ MaxKeyId \in Nat \ {0}

\* What a key store file can hold: keys, the id of the default passphrase, streams.
Keys   == [handle : Handles, label : Labels, pass : PassStreams]
Images == [keys : SUBSET Keys, pass : PassStreams \cup {NullStream},
           streams : SUBSET (Handles \cup PassStreams)]

\* The file in ROM has been made by a key store.
ASSUME RomAssumption ==
    /\ RomStore \in Images
    /\ \A j, k \in RomStore.keys : j.label = k.label \/ j.handle = k.handle => j = k
    /\ \A k \in RomStore.keys :
          k.pass = RomStore.pass /\ {k.handle, k.pass} \subseteq RomStore.streams
    /\ RomStore.keys = {} <=> RomStore.pass = NullStream

VARIABLES
    sessions,       \* the sessions that are open
    opened,         \* handles of the keys each session has open (iOpenedKeys)
    cache,          \* streams of the passphrases each CPassphraseManager has cached
    manager,        \* TState of each CPassphraseManager
    iAction,        \* what CFSKeyStoreServer does for the outstanding request
    iStatus,        \* of the active object: "Inactive", "Pending", "Ready" or "Error"
    iSession,       \* whose passphrase manager the request will use
    iPassphrase,    \* the passphrase the request uses; of no session once it is deleted
    iLabel,         \* label of the key to be added
    iKeyData,       \* handle of the key to be exported or used
    iKeys,          \* the keys in memory
    iPassStreamId,  \* the default passphrase
    iKeyIdentifier, \* the last handle that was given out
    store,          \* the file store with what has not been committed yet
    committed,      \* the file store as a restart finds it
    diverged,       \* the commit of a removal has failed since the server was started
    blocked         \* the thread waits in CActive::Cancel for a request that cannot end

request  == <<iAction, iStatus, iSession, iPassphrase, iLabel, iKeyData>>
clients  == <<sessions, opened, cache, manager>>
memory   == <<iKeys, iPassStreamId, iKeyIdentifier>>
keystore == <<iKeys, iPassStreamId, iKeyIdentifier, store, committed, diverged>>
vars     == <<request, clients, keystore, blocked>>

NoPassphrase == [owner |-> NoSession, stream |-> NullStream]

Lookup(h)           == \E k \in iKeys : k.handle = h
IsKeyInStore(l)     == \E k \in iKeys : k.label = l

-----------------------------------------------------------------------------
(***************************************************************************)
(* Requests begin and end                                                  *)
(***************************************************************************)
\* The passphrase of the request when the caches have become "left": deleted with its
\* entry in the cache, and the request does not know.
Held(left) ==
    IF iPassphrase.owner # NoSession /\ iPassphrase.stream \notin left[iPassphrase.owner]
    THEN [iPassphrase EXCEPT !.owner = NoSession]
    ELSE iPassphrase

\* CKeyStoreSession::DoServiceL: every message lets passphrases of its session expire
\* first, also one that is then refused.
Expired(s) == {[cache EXCEPT ![s] = @ \ gone] : gone \in SUBSET cache[s]}

\* CKeyStoreConduit::ServiceRequestL
Admitted == ~blocked /\ iAction = "EIdle"

\* mutated form: the action of the request that has ended stays
Completed_ActionKept ==
    /\ UNCHANGED iAction /\ iStatus' = "Inactive"
    /\ iSession' = NoSession /\ iPassphrase' = NoPassphrase
    /\ iLabel' = NoLabel /\ iKeyData' = NoHandle

\* CFSKeyStoreServer::CompleteClientRequest and CKeyStoreConduit::RunL
Completed ==
    /\ iAction' = "EIdle" /\ iStatus' = "Inactive"
    /\ iSession' = NoSession /\ iPassphrase' = NoPassphrase
    /\ iLabel' = NoLabel /\ iKeyData' = NoHandle

\* mutated form: handles go on from the number of keys
LastHandle_Count(keys) == Cardinality(keys)

\* iKeyIdentifier after the keys have been read: the greatest of their handles
LastHandle(keys) ==
    CHOOSE h \in {NoHandle} \cup {k.handle : k \in keys} : \A k \in keys : h >= k.handle

\* CreateStoreInFileL
EmptyStore == [keys |-> {}, pass |-> NullStream, streams |-> {}]

\* OpenStoreL: there is no file, or any error but KErrInUse, also one that would pass, has
\* the file deleted.  It is replaced by the one in ROM or, when that fails too, by a new one.
OpenStore == {committed, RomStore, EmptyStore}

\* CFSKeyStoreServer::ConstructL, CFileKeyDataManager::ConstructL
Restarted ==
    /\ sessions' = {}
    /\ opened' = [s \in Sessions |-> {}]
    /\ cache' = [s \in Sessions |-> {}]
    /\ manager' = [s \in Sessions |-> "EIdle"]
    /\ Completed
    /\ committed' \in OpenStore /\ store' = committed'
    /\ iKeys' = committed'.keys
    /\ iPassStreamId' = committed'.pass
    /\ iKeyIdentifier' = LastHandle(committed'.keys)
    /\ diverged' = FALSE
    /\ blocked' = FALSE

\* GetKeystorePassphrase with the manager of session s; "left" are the caches.
\* COpenedKey::GetPassphrase does the same, and asserts that there is a passphrase.
GetKeystorePassphrase(s, left, next) ==
    /\ iAction' = next
    /\ IF iPassStreamId \in left[s]
       THEN /\ iPassphrase' = [owner |-> s, stream |-> iPassStreamId]
            /\ iStatus' = "Ready"
            /\ UNCHANGED manager
       ELSE /\ manager' = [manager EXCEPT ![s] = IF iPassStreamId = NullStream
                                                 THEN "ECreatePassphrase"
                                                 ELSE "EGetPassphrase"]
            /\ iStatus' = "Pending"
            /\ UNCHANGED iPassphrase

-----------------------------------------------------------------------------
(***************************************************************************)
(* CFileKeyDataManager                                                     *)
(***************************************************************************)
\* RevertStore
Reverted == store' = committed

\* CommitL of a store that holds "image"
Committed(image) == store' = image /\ committed' = image

\* mutated form: the key stays in the array
AddFails_KeyKept(key) == iKeys' = iKeys \cup {key} /\ UNCHANGED <<iPassStreamId, committed>>

\* The part of AddL that undoes its changes in memory.
AddFails(key) == UNCHANGED <<iKeys, iPassStreamId, committed>>

\* mutated form: the default passphrase is set once, by the first key ever
DefaultPassphrase_Stays(pass) ==
    IF iPassStreamId = NullStream /\ iKeyIdentifier = 0 THEN pass ELSE iPassStreamId

\* AddL sets the default passphrase with the first key.
DefaultPassphrase(pass) == IF iKeys = {} THEN pass ELSE iPassStreamId

\* CreateKeyDataLC, the writing of its streams, and AddL: by DoStoreKeyL and PKCS8ToKeyL.
\* Streams that have been written are not reverted unless the commit fails.
StoreKey ==
    LET h    == iKeyIdentifier + 1
        key  == [handle |-> h, label |-> iLabel, pass |-> iPassphrase.stream]
        pass == DefaultPassphrase(key.pass)
    IN  /\ iKeyIdentifier < MaxKeyId
        /\ iKeyIdentifier' = h
        /\ \/ /\ iKeys' = iKeys \cup {key} /\ iPassStreamId' = pass
              /\ Committed([keys |-> iKeys', pass |-> pass, streams |-> store.streams \cup {h}])
           \/ /\ AddFails(key)
              /\ \/ store' \in {store, [store EXCEPT !.streams = @ \cup {h}]}
                 \/ Reverted
        /\ UNCHANGED diverged

\* mutated form: the passphrase goes with any key
Deleted_WithPassphrase(k) == {k.handle, iPassStreamId}

\* The streams RemoveL deletes: those of the key, and with the last key the passphrase.
Deleted(k) == {k.handle} \cup (IF iKeys = {k} THEN {iPassStreamId} ELSE {})

\* RemoveL: the key is put back when the file cannot be written, but it is deleted before
\* the commit.
RemoveKey(k) ==
    LET keys == iKeys \ {k}
        pass == IF iKeys = {k} THEN NullStream ELSE iPassStreamId
    IN  /\ \/ /\ iKeys' = keys /\ iPassStreamId' = pass
              /\ Committed([keys |-> keys, pass |-> pass,
                            streams |-> store.streams \ Deleted(k)])
              /\ UNCHANGED diverged
           \/ /\ Reverted
              /\ UNCHANGED <<iKeys, iPassStreamId, committed, diverged>>
           \/ /\ iKeys' = keys /\ iPassStreamId' = pass
              /\ Reverted /\ diverged' = TRUE /\ UNCHANGED committed
        /\ UNCHANGED iKeyIdentifier

-----------------------------------------------------------------------------
(***************************************************************************)
(* Messages, each of session s with the passphrases "left" in the caches   *)
(***************************************************************************)
OpenSession(s) ==
    /\ ~blocked /\ s \notin sessions
    /\ sessions' = sessions \cup {s}
    /\ UNCHANGED <<opened, cache, manager, request, keystore, blocked>>

\* ~CKeyStoreSession, when a client closes its session or dies: nothing is cancelled but
\* what its passphrase manager waits for, and then the use of its opened keys.
CloseSession(s) ==
    /\ ~blocked /\ s \in sessions
    /\ sessions' = sessions \ {s}
    /\ opened' = [opened EXCEPT ![s] = {}]
    /\ cache' = [cache EXCEPT ![s] = {}]
    /\ manager' = [manager EXCEPT ![s] = "EIdle"]
    /\ IF iAction = "EUseKey" /\ iSession = s
       THEN Completed
       ELSE /\ iPassphrase' = Held(cache')
            /\ iSession' = IF iSession = s THEN NoSession ELSE iSession
            /\ iStatus' = IF manager[s] = "EIdle" THEN iStatus ELSE "Error"
            /\ UNCHANGED <<iAction, iLabel, iKeyData>>
    /\ UNCHANGED <<keystore, blocked>>

\* A message that changes nothing itself: it reads, it fails, or it is refused with
\* KErrServerBusy, also a cancel of a key agreement.  CFSKeyStoreServer::ServiceRequestL
\* takes its session all the same, which is of no consequence while no request is under
\* way or a key is used: a COpenedKey has the passphrase manager of its own session.
Message(s, left) ==
    /\ ~blocked /\ s \in sessions
    /\ cache' = left /\ iPassphrase' = Held(left)
    /\ iSession' = IF iAction \in {"EIdle", "EUseKey"} THEN iSession ELSE s
    /\ UNCHANGED <<sessions, opened, manager, iAction, iStatus, iLabel, iKeyData,
                   keystore, blocked>>

\* ECreateKey
CreateKey(s, left, l) ==
    /\ Admitted
    /\ iAction' = "EGetPassphrase" /\ iStatus' = "Ready"
    /\ iSession' = s /\ iLabel' = l
    /\ cache' = left
    /\ UNCHANGED <<sessions, opened, manager, iPassphrase, iKeyData, keystore, blocked>>

\* EImportKey, EImportEncryptedKey; the label is checked at once.  The password of an
\* encrypted key is asked for without the passphrase manager.
ImportKey(s, left, l) ==
    /\ Admitted /\ ~IsKeyInStore(l)
    /\ iAction' = "EImportOpenPrivateStream" /\ iStatus' \in {"Ready", "Pending"}
    /\ iSession' = s /\ iLabel' = l
    /\ cache' = left
    /\ UNCHANGED <<sessions, opened, manager, iPassphrase, iKeyData, keystore, blocked>>

\* EExportKey, EExportEncryptedKey
ExportKey(s, left, h) ==
    /\ Admitted
    /\ iAction' = "EDoExportKey" /\ iStatus' = "Ready"
    /\ iSession' = s /\ iKeyData' = h
    /\ cache' = left
    /\ UNCHANGED <<sessions, opened, manager, iPassphrase, iLabel, keystore, blocked>>

\* EChangePassphrase.  It cannot be done without a passphrase, and then the error is
\* answered but the request is begun all the same; see ServerDies.
ChangePassphrase(s, left) ==
    /\ Admitted /\ iPassStreamId # NullStream
    /\ iAction' = "EChangePassphrase" /\ iStatus' = "Ready"
    /\ iSession' = s
    /\ cache' = left
    /\ UNCHANGED <<sessions, opened, manager, iPassphrase, iLabel, iKeyData, keystore,
                   blocked>>

\* EAuthOpen
AuthOpen(s, left) ==
    /\ Admitted
    /\ GetKeystorePassphrase(s, left, "EAuthOpen")
    /\ iSession' = s /\ cache' = left
    /\ UNCHANGED <<sessions, opened, iLabel, iKeyData, keystore, blocked>>

\* EOpenKey...
OpenKey(s, left, h) ==
    /\ Admitted /\ Lookup(h)
    /\ opened' = [opened EXCEPT ![s] = @ \cup {h}]
    /\ cache' = left
    /\ UNCHANGED <<sessions, manager, request, keystore, blocked>>

\* ERepudiableRSASign and DSASign, EDecryptText, EDHPublicKey, EDHAgree
UseKey(s, left, h) ==
    /\ Admitted /\ h \in opened[s]
    /\ GetKeystorePassphrase(s, left, "EUseKey")
    /\ iSession' = s /\ iKeyData' = h
    /\ cache' = left
    /\ UNCHANGED <<sessions, opened, iLabel, keystore, blocked>>

\* mutated form: the key is closed in every session
CloseObject_Everywhere(s, left, h) ==
    /\ Admitted /\ h \in opened[s]
    /\ opened' \in {opened, [t \in Sessions |-> opened[t] \ {h}]}
    /\ cache' = left
    /\ UNCHANGED <<sessions, manager, request, keystore, blocked>>

\* ECloseObject.  The session may have the key open more than once, and then keeps it.
CloseObject(s, left, h) ==
    /\ Admitted /\ h \in opened[s]
    /\ opened' \in {opened, [opened EXCEPT ![s] = @ \ {h}]}
    /\ cache' = left
    /\ UNCHANGED <<sessions, manager, request, keystore, blocked>>

\* mutated form: only the session that deletes the key is asked
InUse_Own(s, h) == h \in opened[s]

\* DeleteKeyL asks every session whether it has the key open.
InUse(s, h) == \E t \in sessions : h \in opened[t]

\* EDeleteKey
DeleteKey(s, left, k) ==
    /\ Admitted /\ ~InUse(s, k.handle)
    /\ RemoveKey(k)
    /\ cache' = left
    /\ UNCHANGED <<sessions, opened, manager, request, blocked>>

\* ESetUsePolicy, ESetManagementPolicy, through SafeWriteKeyInfoL
SetPolicy(s, left, h) ==
    /\ Admitted /\ Lookup(h)
    /\ \/ Committed(store)
       \/ Reverted /\ UNCHANGED committed
    /\ cache' = left
    /\ UNCHANGED <<sessions, opened, manager, request, memory, diverged, blocked>>

\* ESetTimeout, which forgets all passphrases when it succeeds
SetTimeout(s, left) ==
    /\ Admitted
    /\ \/ Committed(store) /\ cache' = [t \in Sessions |-> {}]
       \/ Reverted /\ UNCHANGED committed /\ cache' = left
    /\ UNCHANGED <<sessions, opened, manager, request, memory, diverged, blocked>>

\* ERelock
Relock(s) ==
    /\ Admitted
    /\ cache' = [t \in Sessions |-> {}]
    /\ UNCHANGED <<sessions, opened, manager, request, keystore, blocked>>

\* EAuthClose; without a key, all passphrases of the session
AuthClose(s, left) ==
    /\ Admitted
    /\ cache' = [left EXCEPT ![s] = IF iPassStreamId = NullStream THEN {}
                                    ELSE @ \ {iPassStreamId}]
    /\ UNCHANGED <<sessions, opened, manager, request, keystore, blocked>>

\* The actions of an export that has looked up its key.
Exporting ==
    {"EExportKeyGetPassphrase", "EExportEncryptedKeyGetPassphrase",
     "EExportEncryptedKey", "EExportKey"}

\* What CFSKeyStoreServer::CancelCreateKey and its like, and CKeyStoreConduit for a key
\* that is used, do something about.
Cancellable ==
    {"ECreateKeyCreate", "ECreateKeyFinal", "EImportOpenPrivateStream", "EImportKey",
     "EExportKeyGetPassphrase", "EExportKey", "EAuthOpen",
     "EChangePassphrase", "EChangePassphraseClearCached", "EUseKey"}

\* What CFSKeyStoreServer::DoCancel ends, on behalf of session s: the dialog of the
\* passphrase manager of the session that sent the last message, or the key creator.
CancelEnds(s) ==
    \/ iStatus # "Pending"
    \/ /\ iAction \in {"ECreateKeyCreate", "EImportKey", "EExportKey",
                       "EChangePassphraseClearCached", "EUseKey"}
       /\ manager[s] # "EIdle"
    \/ iAction = "ECreateKeyFinal"

\* ECancelCreateKey and its like.  The session need not be the one whose request is
\* outstanding: its own may have been answered meanwhile.
CancelRequest(s, left) ==
    /\ ~blocked /\ s \in sessions
    /\ iAction # "EIdle"
    /\ cache' = left
    /\ IF iAction \in Cancellable /\ CancelEnds(s)
       THEN /\ Completed
            /\ manager' = [manager EXCEPT ![s] = "EIdle"]
            /\ UNCHANGED blocked
       ELSE /\ blocked' = TRUE
            /\ UNCHANGED <<manager, request>>
    /\ UNCHANGED <<sessions, opened, keystore>>

-----------------------------------------------------------------------------
(***************************************************************************)
(* Active objects                                                          *)
(***************************************************************************)
\* CPassphraseManager::RunL: the user has entered a new passphrase, which is written to
\* a stream of the store but not committed.  Its id may be that of a stream that has been
\* reverted, while a passphrase with that id is still cached.  If the cache cannot take
\* it, the passphrase is deleted, and the request has still got its address.
PassphraseCreated(s, p) ==
    /\ ~blocked /\ manager[s] = "ECreatePassphrase"
    /\ p \notin store.streams \cup committed.streams
    /\ store' = [store EXCEPT !.streams = @ \cup {p}]
    /\ manager' = [manager EXCEPT ![s] = "EIdle"]
    /\ \/ /\ cache' = [cache EXCEPT ![s] = @ \cup {p}]
          /\ iPassphrase' = [owner |-> s, stream |-> p]
          /\ iStatus' = "Ready"
       \/ /\ UNCHANGED cache
          /\ iPassphrase' = [owner |-> NoSession, stream |-> p]
          /\ iStatus' = "Error"
    /\ UNCHANGED <<sessions, opened, iAction, iSession, iLabel, iKeyData, memory,
                   committed, diverged, blocked>>

\* The user has entered the passphrase, and its stream has been read.
PassphraseEntered(s) ==
    /\ ~blocked /\ manager[s] = "EGetPassphrase"
    /\ iPassStreamId \in store.streams
    /\ cache' = [cache EXCEPT ![s] = @ \cup {iPassStreamId}]
    /\ manager' = [manager EXCEPT ![s] = "EIdle"]
    /\ iPassphrase' = [owner |-> s, stream |-> iPassStreamId]
    /\ iStatus' = "Ready"
    /\ UNCHANGED <<sessions, opened, iAction, iSession, iLabel, iKeyData, keystore, blocked>>

\* The user gives up, or the wrong passphrase has been entered three times.
PassphraseRefused(s) ==
    /\ ~blocked /\ manager[s] # "EIdle"
    /\ manager' = [manager EXCEPT ![s] = "EIdle"]
    /\ iStatus' = "Error"
    /\ UNCHANGED <<sessions, opened, cache, iAction, iSession, iPassphrase, iLabel,
                   iKeyData, keystore, blocked>>

\* The user has entered the old passphrase and a new one: the stream of the passphrase is
\* replaced, and committed with all that the store holds.
PassphraseChanged(s) ==
    /\ ~blocked /\ manager[s] = "EChangePassphrase"
    /\ iPassStreamId \in store.streams
    /\ manager' = [manager EXCEPT ![s] = "EIdle"]
    /\ \/ /\ Committed(store)
          /\ cache' = [cache EXCEPT ![s] = @ \ {iPassStreamId}]
          /\ iStatus' = "Ready"
       \/ /\ Reverted /\ UNCHANGED <<committed, cache>>
          /\ iStatus' = "Error"
    /\ UNCHANGED <<sessions, opened, iAction, iSession, iPassphrase, iLabel, iKeyData,
                   memory, diverged, blocked>>

\* The password of a key that is imported or exported encrypted has been entered or not.
PasswordEntered ==
    /\ ~blocked /\ iStatus = "Pending"
    /\ iAction \in {"EImportOpenPrivateStream", "EExportKey"}
    /\ \A s \in Sessions : manager[s] = "EIdle"
    /\ iStatus' \in {"Ready", "Error"}
    /\ UNCHANGED <<clients, iAction, iSession, iPassphrase, iLabel, iKeyData, keystore,
                   blocked>>

\* CKeyCreator: the thread that generates the key has ended.
KeyCreated ==
    /\ ~blocked /\ iAction = "ECreateKeyFinal" /\ iStatus = "Pending"
    /\ iStatus' \in {"Ready", "Error"}
    /\ UNCHANGED <<clients, iAction, iSession, iPassphrase, iLabel, iKeyData, keystore,
                   blocked>>

Ready(action) == ~blocked /\ iStatus = "Ready" /\ iAction = action

\* CFSKeyStoreServer::RunL where the passphrase is needed next
RunGetPassphrase(action, next) ==
    /\ Ready(action) /\ iSession # NoSession
    /\ GetKeystorePassphrase(iSession, cache, next)
    /\ UNCHANGED <<sessions, opened, cache, iSession, iLabel, iKeyData, keystore, blocked>>

RunEGetPassphrase == ~IsKeyInStore(iLabel) /\ RunGetPassphrase("EGetPassphrase", "ECreateKeyCreate")

RunEDoExportKey ==
    /\ Ready("EDoExportKey") /\ Lookup(iKeyData)
    /\ iAction' \in {"EExportKeyGetPassphrase", "EExportEncryptedKeyGetPassphrase"}
    /\ UNCHANGED <<clients, iStatus, iSession, iPassphrase, iLabel, iKeyData, keystore, blocked>>

\* The password of the exported key is asked for.
RunEExportEncryptedKey ==
    /\ Ready("EExportEncryptedKey")
    /\ iAction' = "EExportKey" /\ iStatus' = "Pending"
    /\ UNCHANGED <<clients, iSession, iPassphrase, iLabel, iKeyData, keystore, blocked>>

\* DoChangePassphrase
RunEChangePassphrase ==
    /\ Ready("EChangePassphrase") /\ iSession # NoSession
    /\ iAction' = "EChangePassphraseClearCached" /\ iStatus' = "Pending"
    /\ manager' = [manager EXCEPT ![iSession] = "EChangePassphrase"]
    /\ UNCHANGED <<sessions, opened, cache, iSession, iPassphrase, iLabel, iKeyData,
                   keystore, blocked>>

RunEChangePassphraseClearCached ==
    /\ Ready("EChangePassphraseClearCached")
    /\ cache' = [t \in Sessions |-> cache[t] \ {iPassStreamId}]
    /\ Completed
    /\ UNCHANGED <<sessions, opened, manager, keystore, blocked>>

\* DoCreateKeyL
RunECreateKeyCreate ==
    /\ Ready("ECreateKeyCreate")
    /\ iAction' = "ECreateKeyFinal" /\ iStatus' = "Pending"
    /\ UNCHANGED <<clients, iSession, iPassphrase, iLabel, iKeyData, keystore, blocked>>

\* DoStoreKeyL, DoImportKeyL.  A passphrase that has been deleted meanwhile may still
\* look as it did; see ServerDies.
RunStoreKey ==
    /\ Ready("ECreateKeyFinal") \/ Ready("EImportKey")
    /\ StoreKey
    /\ Completed
    /\ UNCHANGED <<clients, blocked>>

\* The request ends: with success, because a condition does not hold, because what it
\* waited for has failed (RunError).
RunEnds ==
    /\ ~blocked
    /\ \/ iStatus = "Error"
       \/ Ready("EGetPassphrase") /\ IsKeyInStore(iLabel)
       \/ Ready("EDoExportKey") /\ ~Lookup(iKeyData)
       \/ Ready("EExportKey") \/ Ready("EAuthOpen") \/ Ready("EUseKey")
    /\ Completed
    /\ UNCHANGED <<clients, keystore, blocked>>

\* The server uses a session that is gone, or a passphrase that has been deleted, or it
\* changes a passphrase that there is not; it is blocked until the device is restarted;
\* or the device loses power.
ServerDies == Restarted

-----------------------------------------------------------------------------
Init ==
    /\ sessions = {}
    /\ opened = [s \in Sessions |-> {}]
    /\ cache = [s \in Sessions |-> {}]
    /\ manager = [s \in Sessions |-> "EIdle"]
    /\ iAction = "EIdle" /\ iStatus = "Inactive"
    /\ iSession = NoSession /\ iPassphrase = NoPassphrase
    /\ iLabel = NoLabel /\ iKeyData = NoHandle
    /\ committed \in {RomStore, EmptyStore} /\ store = committed
    /\ iKeys = committed.keys
    /\ iPassStreamId = committed.pass
    /\ iKeyIdentifier = LastHandle(committed.keys)
    /\ diverged = FALSE
    /\ blocked = FALSE

Served(s) ==
    \E left \in Expired(s) :
        \/ Message(s, left)
        \/ \E l \in Labels : CreateKey(s, left, l) \/ ImportKey(s, left, l)
        \/ \E h \in Handles : \/ ExportKey(s, left, h)
                              \/ OpenKey(s, left, h)
                              \/ UseKey(s, left, h)
                              \/ CloseObject(s, left, h)
                              \/ SetPolicy(s, left, h)
        \/ \E k \in iKeys : DeleteKey(s, left, k)
        \/ AuthOpen(s, left)
        \/ AuthClose(s, left)
        \/ SetTimeout(s, left)
        \/ Relock(s)
        \/ ChangePassphrase(s, left)
        \/ CancelRequest(s, left)

Next ==
    \/ \E s \in Sessions : OpenSession(s) \/ CloseSession(s)
    \/ \E s \in sessions : Served(s)
    \/ \E s \in Sessions, p \in PassStreams : PassphraseCreated(s, p)
    \/ \E s \in Sessions : PassphraseEntered(s) \/ PassphraseRefused(s) \/ PassphraseChanged(s)
    \/ PasswordEntered
    \/ KeyCreated
    \/ RunEGetPassphrase
    \/ RunGetPassphrase("EImportOpenPrivateStream", "EImportKey")
    \/ RunEDoExportKey
    \/ RunGetPassphrase("EExportKeyGetPassphrase", "EExportKey")
    \/ RunGetPassphrase("EExportEncryptedKeyGetPassphrase", "EExportEncryptedKey")
    \/ RunEExportEncryptedKey
    \/ RunEChangePassphrase
    \/ RunEChangePassphraseClearCached
    \/ RunECreateKeyCreate
    \/ RunStoreKey
    \/ RunEnds
    \/ ServerDies

Spec == Init /\ [][Next]_vars

-----------------------------------------------------------------------------
(***************************************************************************)
(* Properties                                                              *)
(***************************************************************************)
\* The types of the variables; and a request is outstanding exactly while its action says so.
TypeOK ==
    /\ sessions \subseteq Sessions
    /\ opened \in [Sessions -> SUBSET Handles]
    /\ cache \in [Sessions -> SUBSET PassStreams]
    /\ manager \in [Sessions -> {"EIdle", "ECreatePassphrase", "EGetPassphrase",
                                 "EChangePassphrase"}]
    /\ iAction \in {"EIdle", "EGetPassphrase", "EDoExportKey"} \cup Cancellable \cup Exporting
    /\ iStatus \in {"Inactive", "Pending", "Ready", "Error"}
    /\ iStatus = "Inactive" <=> iAction = "EIdle"
    /\ iSession \in Sessions \cup {NoSession}
    /\ iPassphrase \in [owner : Sessions \cup {NoSession}, stream : PassStreams \cup {NullStream}]
    /\ iLabel \in Labels \cup {NoLabel}
    /\ iKeyData \in Handles \cup {NoHandle}
    /\ iKeys \subseteq Keys /\ iPassStreamId \in PassStreams \cup {NullStream}
    /\ iKeyIdentifier \in Handles \cup {NoHandle}
    /\ store \in Images /\ committed \in Images
    /\ diverged \in BOOLEAN /\ blocked \in BOOLEAN

\* A restart finds a store in which every key has its data and its passphrase, whatever
\* failed, was reverted or was left behind before it.
RestartFindsKeys ==
    \A k \in committed.keys : {k.handle, k.pass} \subseteq committed.streams

\* What the server lists is what a restart will find, unless the commit of a removal has
\* failed: RemoveL deletes the key in memory before it commits, although its comment says
\* that it only removes the key in memory and file if all operations are successful.
MemoryMatchesFile ==
    diverged \/ (iKeys = committed.keys /\ iPassStreamId = committed.pass)

\* Every key was encrypted with the default passphrase, the only one COpenedKey asks for;
\* and there is one exactly while there are keys (the ASSERT of DefaultPassphraseId).
OnePassphrase ==
    /\ \A k \in iKeys : k.pass = iPassStreamId
    /\ iKeys = {} => iPassStreamId = NullStream

\* No two keys have a label or a handle in common, although a label is checked when its
\* key is requested and added after dialogs and the generation of the key.
KeysDistinct ==
    \A j, k \in iKeys : j.label = k.label \/ j.handle = k.handle => j = k

\* A key that a session has open, or that is being exported, is not deleted under it, and
\* a key that is used stays open: COpenedKey and iKeyData hold references to its
\* CFileKeyData, and CKeyStoreConduit one to its COpenedKey.
OpenKeysAlive ==
    /\ \A s \in Sessions, h \in Handles : h \in opened[s] => Lookup(h)
    /\ iAction \in Exporting => Lookup(iKeyData)
    /\ iAction = "EUseKey" => iSession \in Sessions /\ iKeyData \in opened[iSession]

\* Clients see a KeyChain: whatever is asked for, cancelled, reverted or left behind, keys
\* come and go one at a time, a key that is open in a session is lost by its own close or
\* a restart only, and a restart that finds some of the keys finds all of them, and besides
\* no more than those whose removal has failed; or it starts anew (OpenStoreL).
Chain == INSTANCE KeyChain WITH
    Clients   <- Sessions,
    Originals <- {RomStore.keys, {}},
    listed    <- iKeys,
    lasting   <- committed.keys

ImplementsKeyChain == Chain!Spec

=============================================================================
