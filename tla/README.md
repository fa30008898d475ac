# TLA+ models of the Symbian User Prompt Service, its server framework and the key store

This directory specifies, model-checks and partly proves the core of the
`security` package: the **User Prompt Service** (UPS), which decides on behalf of
system servers whether a client may use a service and asks the user when no
stored decision answers, the **Symbian Client Server framework** (SCS) it is
built on, and the **file based key store server**, which keeps the user's private
keys.  The modules are translated from the C++ sources; `PROJECT.json` maps
every definition to its lines.

## 1. The system

The tree holds 5718 files.  Most are algorithms (`crypto`, `cryptoplugins`), data
formats and plug-in loaders (`contentmgmt`, `cryptoservices`), third-party code
and tests.  The concurrent state machines are in `authorisation`,
`cryptomgmtlibs/securitycommonutils` and
`cryptoservices/filebasedcertificateandkeystores`.

| Component | State it keeps | Operations | Talks to |
|---|---|---|---|
| Prompt requests, `CAuthoriser` (`authoriser.cpp`) | `iState`, `iStatus`, priority, fingerprints, `iPromptForced`, `iPromptForcedRecordId` | `RunL` with five state handlers, `DoCancel`, `DoCleanup`, `HandleDbErrorL` | the gate, the decision table, evaluator and dialog creator plug-ins (calls that complete `iStatus`) |
| Dialog gate, `CUpsServer` (`upsserver.cpp`) | `iCurrentDialog`, `iFlurryQueue`, `iFlurryQueueBeingProcessed`, `iDisputed` | `GateKeeperL`, `AuthoriserDoneL`, `WakeupNextPendingL`, `DisputeRecordIdL`, `UnDisputeRecordIdL` | raises the priority of an authoriser and completes it |
| Decision database, `CDecisionDbW` (`upsdbw.cpp`) | a table with a unique index and an auto-increment record id | create, get, update, remove, views, delete the file | called synchronously by sessions and authorisers |
| Database handles (`upsdbmanager.cpp`) | list of registered slave handles | open, close, notify holders before the database goes | view and update evaluators |
| UPS session (`upssession.cpp`) | the management view, service configuration | views, removal, database deletion, policy updates | all of the above |
| Policy cache (`upspolicycachehandle.cpp`, `policychangeevaluator.cpp`) | counted handles, one waiter | replace the cache, wait for the old one to be free | authorisers hold handles |
| SCS server (`scsserver.cpp`, `scssession.cpp`, `asyncrequest.cpp`) | session count, asynchronous requests, subsession handles, deferred delete | one handler per message, cancel, close, deferred delete | owns the requests of its derived servers |
| SCS shutdown timer (`shutdowntimer.cpp`) | active or not, "immediate at next restart" | restart, cancel, expire | stops the scheduler |
| SCS client (`scsclientbase.cpp`) | the handle, retry count | connect (starting the process), call, cancel, close, shut the server down | messages |
| Key store server (`Cfskeystoreserver.cpp`, `Ckeystoreconduit.cpp`) | `iAction`, `iStatus`, session, passphrase and label of the one request under way | create, import and export (plain or encrypted), open, use, delete keys, change the passphrase, policies, passphrase timeout, cancels | passphrase managers, key creator, key data |
| Passphrase managers (`keystorepassphrase.cpp`, `CKeyStoreSession.cpp`) | per session: cached passphrases, the dialog, open keys | ask, create, change, expire, forget | complete the server's `iStatus` |
| Key data (`CKeyDataManager.cpp`) | the keys in memory, the default passphrase, the permanent file store | add, remove, commit, revert, read at start | the store's transactions |

Everything in a server is one thread with an active scheduler: there is no
preemption, but every `RunL` and every message is a step, and the order of those
steps is decided by priorities, by clients, by plug-ins and by time.  What is hard:

* many requests overlap one dialog: they queue, are woken one at a time when it
  ends and must look again at a database that has changed (`authoriser.cpp:462`);
* a wake-up is a token that each woken request passes on, and any holder may be
  cancelled, fail, or lose its session first (`authoriser.cpp:404`, `:364`);
* a forced prompt puts a record *under dispute* on behalf of a request, over
  which the record may be removed or its database deleted;
* objects are answered in one step and deleted in a later one, with higher
  priority than anything else (`asyncrequest.cpp:127`);
* a transient server stops by timer while a connect may be on its way, and the
  client starts another one (`scsclientbase.cpp:95`);
* closing the database under everybody is a walk over callbacks that change the list
  walked over (`upsdbmanager.cpp:94`);
* a policy cache is replaced while dialogs decided by the old one are open, and their
  answers are stored after the scan that was to remove them (`upspolicycachehandle.cpp`);
* a key is added or removed in memory, in uncommitted streams and by a commit, any of
  which fails, or the device stops in between (`CKeyDataManager.cpp:289`, `:341`);
* each database access can fail: out of memory (close and go on), anything else
  (delete the database and fail the request).

What makes it correct: one dialog at a time; nobody is prompted for what is
already decided; a decision is stored or removed only for the request's own
fingerprints; every request is answered, exactly once; no request object outlives
its session; the server never stops under a client and always stops when idle; who
uses the database is told when it goes; a policy is kept while it is used and its
decisions go with it; a restart finds every key it lists, with a passphrase.

## 2. The modules

| Module | What it is |
|---|---|
| `PromptService` | abstract: what the UPS promises, without queues, wake-ups or disputes |
| `UpsAuthoriser` | the authorisers, the gate, the disputes and the table they share; implements `PromptService` |
| `MCUpsAuthoriser` | its instance for TLC |
| `UpsAuthoriserProofs` | theorems about `UpsAuthoriser`: typing, the dialog, the disputes |
| `PromptQueueProofs` | theorems about its queues |
| `PromptServiceProofs` | theorems about its decision table; `UpsAuthoriser` implements `PromptService` |
| `ScsServer` | the framework: clients, server process, timer, sessions, asynchronous requests |
| `ScsServerProofs` | theorems about `ScsServer` |
| `UpsDbHandles` | the management side of the UPS: database handles, view, update and policy change requests |
| `MCUpsDbHandles` | its instance for TLC |
| `UpsDbHandlesProofs` | theorems about `UpsDbHandles` |
| `PolicyCache` | counted handles on the policy cache, policy changes, stored decisions |
| `MCPolicyCache` | its instance for TLC (the symmetry) |
| `PolicyCacheProofs` | theorems about `PolicyCache` |
| `KeyChain` | what a key store promises its clients |
| `KeyStore` | the key store server, with its passphrases and its transactional file |
| `MCKeyStore` | its instance for TLC, with a key in ROM |
| `KeyStoreProofs` | theorems about `KeyStore`; it implements `KeyChain` |
| `SequenceLemmas` | least and last elements of sets of numbers, sequences without repetition, for the proofs |

### UpsAuthoriser

`state[a]` is `iState`, with `"None"` when there is no object and `"Done"` between
the answer and the deferred delete.  `status[a]` is the active object: inactive,
waiting for a plug-in, or ready.  `gate` is a record of `iCurrentDialog`, the two
FIFOs and the list of authorisers that `WakeupNextPendingL` has raised to
`EPriorityHigh - 1` (`woken`).  `iForcedRecord[a]` is `iPromptForcedRecordId` while
`iPromptForced`.  `db` maps an index key to the record id stored under it: the
properties do not depend on what the decision is, only on its presence and
identity.

| Action | Code |
|---|---|
| `ExecutePrompt` | `CUpsSubsession::ExecutePromptL` |
| `CheckPolicy`, `LookupFingerprints`, `ExecuteDialog`, `ProcessDialogResult` | `CAuthoriser::RunL` with the handler of the state, everything it calls included |
| `RunError`, `HandleDbError` | a `RunL` that leaves, before the database was touched or because of it |
| `PluginComplete` | external: an evaluator or dialog creator completes its request |
| `CancelRequest` | cancel of the function, or close of the subsession |
| `CloseSession`, `CancelOutstanding` | the loop over the requests of a session, one per step |
| `RemoveCompletedRequests` | the deferred delete |
| `RemoveDecision`, `DeleteDatabase` | management functions |

Priorities are guards: `CanRun` and `CanServe` say that a deferred delete comes
first, then woken authorisers in their order, then everything else.
Between active objects of the same priority the scheduler's order is left open,
which allows more than the real one.  The policy's answer, `ForcePromptL`, the
user's choice and every failure are nondeterministic.  A decision of a prompt is
stored under any of the request's fingerprints.

`Panic` deserves a note: for a record under dispute `LookupFingerprintsL` returns
with two items on the cleanup stack.  The trap around `RunL` then panics the
thread, so the model ends every request and restarts the server on the same
database (finding 2 below).

### ScsServer

A client is named as its session; `client[c]` is where it stands in its calls.
Messages wait in `inbox` in order; a synchronous call blocks its client, an
asynchronous one does not.  `iAsyncRequests` is the pointer array, `live` stands for
`iSession != 0`, `iAsyncCleanup` for `IsActive()` of the deferred delete.
`phase = "Stopping"` is the time between `CActiveScheduler::Stop` and the end of
the process, in which connects still arrive and are answered by the kernel with
`KErrServerTerminated`.  `Drop` is the kernel's part when a client dies or is
panicked: its unserved messages are withdrawn and a disconnect is queued.

Between them the two modules cover the same loop twice, on purpose: `ScsServer`
has the general rules with arbitrary services and closes a session in one step,
`UpsAuthoriser` has one service in detail and takes the loop apart, because each
iteration wakes requests that a later iteration may cancel.

### UpsDbHandles

A request is named `<<kind, session>>`, and so is its database handle: the one of a
view is a member of the session, the others of the request.  `clients` is the list
from `iClientListHead`; `view[r]` is `"Orphan"` when its database went first.
`MasterClose` is the whole walk: `Told` are the handles whose client is called,
those up to and including the first that unregisters itself (finding 3), and
`Remaining` what is left of the list.  A handler or `RunL` is one step; only the
destructor of a session is taken apart, into `~CUpsSession` (`DestroyUpsSession`) and
`~CScsSession` (`DestroyScsSession`), with `dying` in between, because the
first deletes what the second needs (finding 4).

| Action | Code |
|---|---|
| `CreateView`, `CreateViewFails`, `UpdateDecision`, `NotifyPolicyFilesChanged`, `NextMatch`, `CloseView`, `UseDatabase`, `DeleteDatabase` | `CUpsSession::DoServiceL`, one per function |
| `EvaluateView`, `PolicyCacheIdle` | another active object completes the request |
| `ViewRunL`, `ViewRunError`, `StartScan`, `EvaluatorRunL`, `EvaluatorRunError` | the active objects of the three requests |
| `CancelRequest`, `PreCloseSession`, `DestroyUpsSession`, `DestroyScsSession`, `Panic` | the ends of requests and sessions |

### PolicyCache

`container` holds the reference count, the version of the policy list the cache has
read, and the waiter; `handle` says which container each prompt, change request and
the server have open.  Versions stand for the major version of the policy files,
all that `DeleteUnneededEntriesL` compares.  `disturbed` remembers whether a change
request failed, or the creation of a prompt did: `QuietMeansClean` promises a clean
table only without, and `SuccessfulChangeCleans` shows that the second should
not matter and does (finding 5).  `UpsDbHandles` and `PolicyCache` both have the policy
change request: the first with its database view, the second with its cache.

### KeyStore

The build without the authentication server: all keys share one passphrase.
`iAction` and `iStatus` are the state machine of `CFSKeyStoreServer`, whose `RunL` has an
action for each state.  The request that the conduit keeps follows from `iAction`.  An
opened key is used (signed with, decrypted with) by an active object of its own,
`COpenedKey`; the conduit admits it as one of its requests, and the model gives it
the action `EUseKey`, with the session and the key in `iSession` and `iKeyData`.
`iKeys`, `store` and `committed` are the same data three times: in memory, written,
and as a restart finds it.  Whatever writes ends in `Committed`, `Reverted` or, for a key
that could not be added, in written streams that stay for the next commit.
`Held` says what the request under way has left when passphrases are deleted under
it, by a timeout, a refused message (every message lets passphrases expire first)
or the end of a session.  `blocked` is the thread waiting in `CActive::Cancel`
for a request nobody will complete.  `ServerDies` is a crash at any moment.

`Restarted` opens one of three files (`OpenStore`): the committed one, the one in ROM
(`RomStore`, of which the model only assumes that a key store has made it) or an empty one.
`OpenStoreL` leaves when the file is in use; any other error, also one that would pass like a
lack of memory, has the file deleted and replaced by the copy from ROM or, when that
fails too, by a new one.  A start that leaves, also because the file cannot be deleted or
created, is not modelled: there is no server then, and the next start has the same choice.

`PassphraseCreated` takes any id of a stream that is neither in the store nor committed.  It may
be the id of a reverted stream whose passphrase is still cached (`AddL` failed to commit the
key it was created for): whether `CPermanentFileStore` issues an id again is not in the
repository, so the model lets it.  The properties speak of ids; what the passphrases behind
them say is not modelled, and the hazard at `keystorepassphrase.cpp:327` stays without a property.

`KeyChain` is the key store as clients see it, without requests, dialogs and streams: keys
are added and removed one at a time, opened and closed, and a restart shows the lasting ones
or starts over with an original chain, never with some of the keys only.
`KeyStore` implements it with `listed <- iKeys`, `lasting <- committed.keys` and the keys in ROM
or none as originals.  Two clauses are in the promise only because the code does no
better: a removal may be undone by a restart (the order in `RemoveL`), and all keys may go with
one (`OpenStoreL`).  Nothing else of what is written, reverted or cancelled shows.  `opened`
holds keys, not `COpenedKey` objects, so `CloseObject` may leave the key open: the session may
have opened it twice.

| Action | Code |
|---|---|
| `Message` and the other actions under `Served` | `CKeyStoreConduit::ServiceRequestL`, one per message; `left` is what the timeout leaves of the caches |
| `RunEGetPassphrase`, `RunGetPassphrase`, `RunEDoExportKey`, `RunEExportEncryptedKey`, `RunECreateKeyCreate`, `RunStoreKey`, `RunEnds` | `CFSKeyStoreServer::RunL`, `RunError` |
| `ChangePassphrase`, `RunEChangePassphrase`, `RunEChangePassphraseClearCached` | `CFSKeyStoreServer::ChangePassphrase`, `DoChangePassphrase` and their states of `RunL` |
| `UseKey`, ended by `RunEnds`, `CancelRequest` or `CloseSession` | `COpenedKey` behind `CKeyStoreConduit` |
| `PassphraseCreated`, `PassphraseEntered`, `PassphraseRefused`, `PassphraseChanged` | `CPassphraseManager::RunL`, `RunError` |
| `PasswordEntered` | the dialog for the password of an imported or exported key |
| `KeyCreated` | `CKeyCreator::RunL` |
| `StoreKey`, `RemoveKey` (parts of the above) | `CFileKeyDataManager::AddL`, `RemoveL` |

## 3. The runs

| Run | Bounds | Shows |
|---|---|---|
| `flurry` | 3 prompts (2 of one session, 1 of another), 2 keys, ids 0 and 1, working database | typing, `OneDialog`, `QueuedOnce`, `NoStrandedRequest`, `DisputesOwned`, `ForcedRecordMatched`, `NoRedundantPrompt`; implements `PromptService`; with fairness, `EveryPromptEnds` |
| `dbfaults` | as `flurry`, every database event | `OneDialog`, `NoStrandedRequest`, `DisputesOwned` whatever the database does |
| `idreuse` | 1 id, database deletion | violation of `ForcedPromptDeletesOwn`, finding 1 |
| `dispute` | as `flurry` | violation of `DisputedMatchQueued`, finding 2 |
| `sessions` | 2 clients, no subsessions, transient server, with fairness | `ConnectedServed`, `TimerIffIdle`, `NothingLeftAtExit`, `ConnectReturns`, `IdleServerStops` |
| `requests` | 1 client, 2 subsessions and session-relative requests, 1 function | `HeldOnce`, `SessionOutlivesRequests`, `ClosedAnswered` |
| `management` | 2 sessions, 2 views, an update and a policy change, with fairness | `RegisteredAlive`, `EveryViewWatched`, `CallbackAlive`, `EvaluatorHasView`, `AllAnswered` |
| `walk` | as `management` | violation of `ViewsGoFirst`, finding 3 |
| `death` | as `management` | violation of `CancelFindsView`, finding 4 |
| `replace` | 2 prompts, 2 change requests, 2 policy versions | `ReferencesExact`, `WaiterAlive`, `PolicyKept`, `QuietMeansClean`, `NobodyJoinsOldCache` |
| `released` | as `replace` | violation of `SuccessfulChangeCleans`, finding 5 |
| `keys` | 2 sessions, 2 labels, 2 passphrases, 2 key handles, a key in ROM | `RestartFindsKeys`, `MemoryMatchesFile`, `OnePassphrase`, `KeysDistinct`, `OpenKeysAlive`; implements `KeyChain` |

Why these bounds are enough to be interesting.  Three prompts are the least with
one at the dialog, one woken and one still queued; both queues are then in use at
once, also while a session with two requests is being closed.  The fingerprints
are `<<k1>>`, `<<k1, k2>>` and `<<k2>>`: one answer can settle another request, and
one request can match two records.  Two ids are enough for a dispute over one
record while another is stored; `MaxRecordId` stops new insertions after them, the
one bound inside an action (`StoreDecision`).  `idreuse` uses a single id to keep the
graph small.
Two clients race one shutdown timer; requests of different
clients never meet except in the array, so `requests` uses one client and
all the slots it can have.  The queues need no bound: a request is in
them once.  `inbox` is bounded because a client has at most one unserved message
per slot and one synchronous call.

Four database handles of three kinds and two sessions put every kind before and behind
every other in the list, and let one session end while the other is told; requests
of one kind in one session differ in nothing but the order in the list, so a session has
one of each at most.  There are as many policy containers as owners of handles
(`HandleAssumption`), so one is free whenever one is created: the bound on containers is no
bound.  Two prompts and two changes give an old cache with a waiter and a
prompt, a new one with a prompt, and a second change; two versions tell stale
decisions from others (`ChangeFiles` stops at `MaxVersion`).  Two passphrases are needed
for one to be replaced after the last key has gone while it is still cached; two
handles for a key to be added, removed and added again (`StoreKey` stops at
`MaxKeyId`, until a restart reuses handles of removed keys).  The key in ROM is one of
those that clients can create, so that a chain that starts over meets the same labels and ids.

Every property has a mutant in `PROJECT.json`, a plausible slip in a mapped
definition (a queue not searched, a wake-up not passed on, a dispute not
withdrawn, a timer not cancelled) that makes TLC report that property.

### Fairness

* `SF(RunL(a))` in `UpsAuthoriser`: a ready authoriser can be kept waiting by
  woken requests, deferred deletes and session closes, which end; it is disabled
  and enabled again by them, hence strong fairness.  Among equal priorities
  Symbian's scheduler prefers the object added first, but the ones before `a` run
  out of work: a client waits for its answer before it prompts again.
* `WF(PluginComplete(a))`: plug-ins complete and the user answers.  Without this
  a dialog stays on the screen, and so does everybody's wait.
* `WF` of the deferred delete, of the close loop, of message service, of the
  timer and of the end of the process: each is continuously ready work of a
  single thread or of the kernel.
* `SF(Progress(r))` in `UpsDbHandles`: the evaluation of a view ends, or fails, because it
  compacts and reads a table of finite length; the policy cache becomes idle when
  prompts end (`NobodyJoinsOldCache`); a ready object runs.  Strong, because sessions
  that are being destroyed disable it for a step, again and again.
* `WF` of the second half of a session's destructor: it follows the first.
* Nothing makes a client call, cancel, close, or die, and in `ScsServer` nothing
  makes a service complete.

### Findings

1. **A forced prompt deletes somebody else's decision** (`idreuse`,
   `authoriser.cpp:613`).  The code keeps a record *id* over the queue and the
   dialog, and the comment says the record "must have" been matched.  Record ids
   restart when the database is deleted and recreated (`upsdbw.cpp:245`), so the id
   may name a decision the request never matched.  While the database is not
   deleted `ForcedRecordMatched` says the opposite, and it holds.
2. **A match under dispute panics the server** (`dispute`, `authoriser.cpp:513`).
   The comment promises to queue the request; the early return skips the two
   `PopAndDestroy` that every other path performs.  The rest of the comment, that
   "a dialog must be in progress", is not always true either.  Behind the dialog of one
   request two others can be queued, each with a prompt forced on a record of its own; if
   a management client removes the record of the first of them, and the dialog ends, that
   one is woken, matches the record of the second, which is under dispute, and there is
   no dialog.  It takes three keys and is outside the bounds of the runs.
3. **Closing the database misses handles** (`walk`, `upsdbmanager.cpp:105`).  The walk
   reads the next link of a handle after the callback in which an update or policy
   change request has unregistered that handle and cleared the link.  Everything
   registered before it is not told, and its view outlives the database.  The
   next walk does reach it (`EveryViewWatched`).
4. **A dying client's view request kills the server** (`death`, `upssession.cpp:70`).
   `~CUpsSession` deletes the view before `~CScsSession` cancels the request that
   evaluates it, and `DoCancel` asserts that there is a view.  A client that closes its
   session cancels first (`EPreCloseSession`); one that dies does not.
5. **A prompt that cannot be created gives up the server's policy cache** (`released`,
   `upssubsession.cpp:161`).  The cleanup item is on the server's own handle.  A policy
   change then has nothing to wait for, and a prompt that still uses the old cache
   stores its decision after the scan.

The key store's `RemoveL` calls itself "transaction safe" (`CKeyDataManager.cpp:338`) and
is not: the key is deleted in memory before the commit (line 393).  The model does the
same, `diverged` marks it, and `MemoryMatchesFile` says that it is the only way memory and
file come apart.  `OpenStoreL` says of the file it deletes that "it's corrupt anyway"
(line 153), which it need not be: a transient error will do.  `OpenStore` does the same, and
`KeyChain` says what is left of the promise.  Cancelling a request in the wrong moment blocks
the key store server for ever (`blocked`), and a request under way may use a passphrase that has been deleted
(`Held`).  `ChangePassphrase` completes a request that has nothing to change and goes on
(`Cfskeystoreserver.cpp:1635`), and a change that is cancelled after it has been committed leaves
the old passphrase in the caches of other sessions (line 2024).  All are listed under "hazards".

## 4. The proofs

Every safety property that a passing run checks is proved here for every value of
the constants, as are the action properties and the refinement.  The assumptions are
those of the modules (null values are not elements of the sets they stand beside, functions
have their domains, the clients of a server and the requests on the policy cache are finitely
many); TLC evaluates them in every run.  Where a theorem has a hypothesis of its own, it
is named below.

### UpsAuthoriser

`UpsAuthoriserProofs` proves, for any sets of subsessions, sessions, keys,
fingerprints and database events, `TypeCorrect`, `OneDialogHolds` and `DisputesOwnedHolds`
from `DialogInvariant`: `Spec => []DialogInv`.

The inductive invariant is `DialogInv == TypeOK /\ OneDialog /\ DisputesOwned`.  No
conjunct about the queues is needed: which authoriser has the dialog, and which
one owns a dispute, changes only in the step of that authoriser.  `OneDialog` alone
is not inductive: a lookup must not be the step of the request that holds the
dialog, which its state excludes once `OneDialog` is an equivalence.
`DisputesOwned` must say that owners are live and
distinct, or the end of one request could withdraw the dispute of another.
`FinishStep` carries most of the argument, because every way a request can end is
`Finish` on a gate whose `current` is the old one (or the request itself); the lemmas
before it say what the sequence and gate operators preserve.

`PromptQueueProofs` proves `QueuedOnceHolds` and `NoStrandedRequestHolds`, again whatever
the database does, from `QueueInv == Once /\ QueuedWaiting /\ Attended /\ ClosingQuiet`.
`Once` says that no request is in the two queues and the wake-ups twice, `QueuedWaiting`
that it is there exactly in the state `ECheckDatabase`, inactive.  `Attended` is
`NoStrandedRequest` of a gate: behind a dialog there may be a queue, and behind a
processed queue there is a woken request.  It is not inductive alone: a session that is
being closed takes its requests out of both queues in several steps, and `ClosingQuiet`
says that meanwhile nobody passes the gate, so that the dialog, if there is one, is an old one.
The lemmas say what `WakeupNextPendingL` and `AuthoriserDoneL` do to any gate with these
properties, and the actions cite them.

`PromptServiceProofs` proves

* `ForcedRecordMatchedHolds`, if the database is neither corrupt nor deleted
  (`KErrCorrupt` and `EDeleteDatabase` are not in `DbEvents`);
* `NoRedundantPromptHolds`, if no lookup runs out of memory (`KErrNoMemory` is not);
* `ServiceImplemented`: `Spec => ImplementsService`, under the hypotheses of the first.

The hypotheses are what the code needs, not what the prover does: finding 1 is what
a deletion does to `ForcedRecordMatched`, and `LookupFingerprintsL` takes a failure for want of
memory for no match.  `ForcedInv` adds to `ForcedRecordMatched` that ids are unique and
smaller than the next one, so that a new decision never has an id that a forced prompt
remembers.  The refinement needs it as well: in the abstract service a stored decision comes
or goes only with the prompt of a request it applies to, or by management.
`NextImplements` has a step for each action: a request that arrives is `Ask`, a dialog `Prompt`,
every end of a request `End`, a removal by management `Forget`, the
panic of finding 2 `Die`; what happens in the queues is a stutter.

### ScsServer

`ScsServerProofs` proves `TypeOKHolds`, `ConnectedServedHolds`, `TimerIffIdleHolds`,
`NothingLeftAtExitHolds`, `HeldOnceHolds`, `SessionOutlivesRequestsHolds` and
`ClosedAnsweredHolds`, every safety property of the two runs, for any number of clients and
any subsessions and functions, with a timer or without.  All follow from `ScsInv`:

* `InboxInv`: of one client the inbox holds calls of functions and behind them the one call
  it is blocked in, or a disconnect and behind it the next connect.  This order is what lets
  one message be served without looking at the rest: after `EPreCloseSession` or a disconnect
  nothing of the client is left that could use its session;
* `RequestInv`: a request object that is not live has its deferred delete coming, and no
  two live ones have the same slot;
* `ClientInv`: what each message in the inbox says of its sender; a session exists
  exactly while its client is connected or its disconnect is on the way; a live request has
  its session and subsession, and is what its client waits for; a client waits for
  nothing else than a call in the inbox or a live request;
* `ServerInv`: the session count is the number of sessions, the timer is active
  exactly when idle, and a server that is not running has nothing.

None of the properties is inductive without the others.  A server stops with no
request left because live requests have sessions (`ClientInv`), there is none
(`ServerInv`), and what is not live waits for a deferred delete (`RequestInv`), which
the timer waits for.  `Kept`, which stands for the loops that take elements out of an array, is
the one recursive definition a proof looks into: `KeptProperties` says
that it leaves exactly the elements wanted, in their order.

### UpsDbHandles

`UpsDbHandlesProofs` proves, for any sessions and any requests of the three kinds,
`TypeOKHolds`, `CallbackAliveHolds`, `EvaluatorHasViewHolds`, `RegisteredAliveHolds` and
`EveryViewWatchedHolds`.

The first inductive invariant is `HandleInv == Types /\ CallbackAlive /\ EvaluatorHasView`.
Its proof does not look into the list of handles: `MasterClose` keeps it whatever
set of handles it tells, as long as telling a handle does all it does to its request, its
view and its callback at once.  That is why missing handles (finding 3)
leaves orphaned views but no dangling callback.  `ListInv` adds what the list itself
needs: it holds handles only, none twice, each of an object that exists, and every view has
its handle on it.  A walk takes out of the list just what it tells and deletes; the
lemmas about `Remaining` and `Closed` say so of any set it may reach.

### PolicyCache

`PolicyCacheProofs` proves, for any prompts, change requests, containers and versions,
`TypeOKTheorem`, `ReferencesExactTheorem`, `WaiterAliveTheorem`, `PolicyKeptTheorem`,
`QuietMeansCleanTheorem` and the action property `NobodyJoinsOldCacheTheorem`.

A step opens and releases several handles, so the count of a container cannot be
followed through the actions; `Books` says of *any* contents and handles that the
counts are right, and the lemmas say what opening, releasing and notifying do to it,
through the cardinality of the users of a container.  `CacheInv` adds that handles have an
owner, that a container knows a change request only while that waits
(`WaiterWaits`), that the server's cache is not older than the announced policy, and the
two facts behind a clean table: a prompt that uses another cache than the server's uses
one that a change waits for (`OldCacheWatched`), and while stale decisions are stored a
change is under way (`StaleAwaitsChange`).  Both hold only until a prompt or a change
fails (`disturbed`), which is what finding 5 is about.

### KeyStore

`KeyStoreProofs` proves, for any sessions, labels and passphrases and any number of keys,
`TypeCorrect`, `RestartFindsKeysHolds`, `MemoryMatchesFileHolds`, `OnePassphraseHolds`,
`KeysDistinctHolds` and `OpenKeysAliveHolds`.

It has three layers of invariants.  `TypeInv` is typing with `RequestInv`, what each
`iAction` implies about the request: a key that is about to be stored has a label and a
passphrase.  `KeyInv` adds `StoreInv`, which says of the keys in memory *and* of
the committed ones that handles and labels are unique, that there is one passphrase, and
that the streams are written in the store as well as committed, which is
what survives any sequence of failed adds, reverts and partial removals; and `AddInv`:
while a key is being added its label stays free and its passphrase stays the
default, because nobody else is admitted.  `OpenInv` adds that a closed session has no
keys open, so that a restart, after which handles are given out again, starts with none.
`RemoveKey` and `StoreKey` are proved on their own, and so is a
commit that adds no key (`StoreSaved`), and all are cited by the actions that
contain them.

`KeyChainImplemented` is the refinement, `Spec => ImplementsKeyChain`, from `KeyInv` and
`OpenInv`.  `ChainAdds` is where `AddInv` pays: when the key is stored, dialogs and a key
generation after its label was checked, the label is still free, the passphrase still that of the
other keys, and the handle is above all in the committed file, also those whose removal
has failed.  `ChainRemoves` needs `ClosedInv`: `DeleteKeyL` asks the sessions there are,
the abstract chain all of them.  `ChainSaved` says that what else is
committed (policies, the timeout, a changed passphrase, streams left behind by failed adds)
never brings a key.  The step of a restart has three cases, one for each file; that the
file in ROM is a key store is `RomAssumption`, and `OriginalStore` says that either original has
what `StoreInv` asks of a file.

### What they share, and what stays with TLC

`SequenceLemmas` proves what the others need of `CHOOSE` over numbers (a non-empty
set of naturals has a least element, a bounded one a last), by induction over
the natural numbers in the form that the prover accepts, as facts about a set; and what
`RemoveFirst`, `RemoveAt`, `Tail` and `Append` do to a sequence without repetitions.

Only model-checked are the liveness properties `EveryPromptEnds`, `AllAnswered`,
`ConnectReturns` and `IdleServerStops`, because the prover handles neither fairness nor
`ENABLED`, and the five properties the code violates.

## 5. Not modelled

* Contents of prompts, policies and records; matching of policy files; `CSwiWatcher`
  (memory only).
* The query builder and compaction of the database; `CDecisionDbW::RemoveDecisionsL` tells
  a management client of success after a recovery that removed nothing (hazard at
  `upsdbw.cpp:574`): no module has what that client is told.
* Plug-ins are unloaded (`ENotifyPluginsMayHaveChanged`) when nobody uses them; they appear
  only as requests that complete.
* Of the key store: what keys and passwords contain, and the build with the authentication
  server, which asks that server instead of the passphrase managers.
* `EnableShutdownTimerL` and `DisableShutdownTimer`: nothing in the repository calls
  them.  `EGetServerPid`, heap failure settings: they change no modelled state.
* A client that dies inside `Connect`, before it has a session: the kernel
  withdraws its message, and nothing of the server is affected.
* The other servers of the package, algorithms, tools, tests (`PROJECT.json`
  lists them with the reason).

## 6. Plan

Done: `PromptService`, `UpsAuthoriser`, `ScsServer`, `UpsDbHandles`, `PolicyCache`, `KeyChain`,
`KeyStore`, and the proofs of section 4, which leave no safety property of theirs to TLC alone.
What could come next:

1. An abstract specification of `ScsServer`: a server that answers each call once, or not at
   all when its client goes.  Its refinement mapping is in the invariants already
   (`LiveSlots` and `HasCall`).
2. The hazards without a property, most of them of the key store: what a cancel or a refused
   message does to the request of another session.
3. The certificate store server beside the key store, which shares its conduit but not its
   state machine.
