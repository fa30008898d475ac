---------------------------- MODULE UpsAuthoriser ----------------------------
(***************************************************************************)
(* The request side of the User Prompt Service server: CAuthoriser (one    *)
(* active object per outstanding prompt), the dialog gate of CUpsServer    *)
(* (GateKeeperL, AuthoriserDone, WakeupNextPendingL and the two FIFOs), the *)
(* list of disputed record ids, and as much of the decision database as    *)
(* the gate depends on.                                                    *)
(*                                                                         *)
(* The server is one thread with an active scheduler, so every RunL and    *)
(* every client message is one step.  What interleaves is which of the     *)
(* ready active objects runs next: the deferred delete of the SCS          *)
(* framework first (EPriorityHigh), then the authorisers the gate has      *)
(* woken (EPriorityHigh - 1), then everything at EPriorityStandard.        *)
(* The close of a session cancels its requests in a loop; one iteration is *)
(* a step here, and nothing else can run until the loop has ended.         *)
(*                                                                         *)
(* A subsession has at most one prompt outstanding (the framework panics a *)
(* client that queues a second one), so the authoriser of a subsession is  *)
(* named by the subsession.                                                *)
(***************************************************************************)
EXTENDS Integers, FiniteSets, SequencesExt

CONSTANTS
    Subsessions,    \* the subsessions that ask for prompts
    Sessions,       \* the client sessions they belong to
    SessionOf,      \* [Subsessions -> Sessions]
    Keys,           \* index keys of the decision table (client, ..., fingerprint)
    Fingerprints,   \* the keys a request is looked up with, in lookup order
    MaxRecordId,    \* bound on the auto-increment record id
    DbEvents,       \* database events the model may take, see DbEventNames
    NoRequest,      \* null CAuthoriser*
    NoRecord,       \* no decision record
    NoSession       \* no session is being closed

RecordIds == 0 .. MaxRecordId

\* KErrNoMemory: a lookup, a removal or an insertion may fail and be skipped.
\* KErrCorrupt: any database access may fail and have the database deleted, and a
\* removal may be replaced by the recovery of the database.
\* EDeleteDatabase: a management client may delete the database.
DbEventNames == {"KErrNoMemory", "KErrCorrupt", "EDeleteDatabase"}

ASSUME SessionAssumption ==
    /\ SessionOf \in [Subsessions -> Sessions]
    /\ NoSession \notin Sessions
    /\ NoRequest \notin Subsessions

ASSUME RecordAssumption ==
    /\ MaxRecordId \in Nat
    /\ NoRecord \notin RecordIds
    /\ Fingerprints \in [Subsessions -> Seq(Keys)]
    /\ DbEvents \subseteq DbEventNames

VARIABLES
    state,          \* CAuthoriser::iState; "None" without an object, "Done" once
                    \* the client is answered and the object awaits its delete
    status,         \* the request of the active object: none, issued, completed
    gate,           \* the dialog gate of the server, see NewGate
    iForcedRecord,  \* iPromptForced and iPromptForcedRecordId
    iDisputed,      \* record ids whose owner has been told to prompt
    db,             \* decision table: the record id stored under each key
    nextId,         \* auto-increment counter of the decision table
    iAsyncRequests, \* requests with iSession # 0, in the order they were added
    closing         \* the session whose requests are being cancelled

vars == <<state, status, gate, iForcedRecord, iDisputed, db, nextId,
          iAsyncRequests, closing>>

dbVars == <<db, nextId>>

DialogStates == {"EPreparingDialog", "EExecutingDialog"}
LookupStates == {"ECreatingFingerprints", "ECheckDatabase"}
LiveStates   == {"ECheckPolicy"} \cup LookupStates \cup DialogStates
States       == {"None", "Done"} \cup LiveStates

Live(a) == state[a] \in LiveStates

-----------------------------------------------------------------------------
(***************************************************************************)
(* The dialog gate.  "woken" are the authorisers WakeupNextPendingL has    *)
(* raised to EPriorityHigh - 1 and completed, in the order the scheduler   *)
(* will run them.                                                          *)
(***************************************************************************)
NewGate == [current |-> NoRequest, flurry |-> <<>>, being |-> <<>>, woken |-> <<>>]

\* CUpsServer::WakeupNextPendingL with CAuthoriser::Wakeup
WakeupNextPending(g) ==
    IF g.being = <<>>
    THEN g
    ELSE [g EXCEPT !.being = Tail(g.being),
                   !.woken = Append(g.woken, Head(g.being))]

SwapIfDrained(g) ==
    IF g.being = <<>>
    THEN [g EXCEPT !.being = g.flurry, !.flurry = g.being]
    ELSE g

\* mutated form
Forget_BeingProcessedOnly(g, a) == [g EXCEPT !.being = RemoveFirst(g.being, a)]

\* CAuthoriserFifo::RemoveL on both queues
Forget(g, a) ==
    [g EXCEPT !.flurry = RemoveFirst(g.flurry, a),
              !.being  = RemoveFirst(g.being, a)]

\* mutated forms
AuthoriserDone_AnyCaller(g, a) ==
    WakeupNextPending(SwapIfDrained([Forget(g, a) EXCEPT !.current = NoRequest]))
AuthoriserDone_NoWakeup(g, a) ==
    IF g.current # a
    THEN Forget(g, a)
    ELSE SwapIfDrained([Forget(g, a) EXCEPT !.current = NoRequest])

\* CUpsServer::AuthoriserDoneL
AuthoriserDone(g, a) ==
    IF g.current # a
    THEN Forget(g, a)
    ELSE WakeupNextPending(SwapIfDrained([Forget(g, a) EXCEPT !.current = NoRequest]))

\* The gate once the RunL of a has taken a off the scheduler and woken the next
\* pending request, which is the first thing it does.
RunGate(a) ==
    WakeupNextPending([gate EXCEPT !.woken = IF @ = <<>> THEN @ ELSE Tail(@)])

Active(a) == status[a] # "Inactive" \/ Contains(gate.woken, a)

\* mutated form
CancelGate_NoWakeup(a) == [gate EXCEPT !.woken = RemoveFirst(@, a)]

\* CActive::Cancel and CAuthoriser::DoCancel: only an active object is cancelled,
\* and it first passes on the wake-up it would have passed on in its RunL.
CancelGate(a) ==
    IF Active(a)
    THEN LET g == WakeupNextPending(gate)
         IN  [g EXCEPT !.woken = RemoveFirst(g.woken, a)]
    ELSE gate

-----------------------------------------------------------------------------
(***************************************************************************)
(* The active scheduler                                                    *)
(***************************************************************************)
CleanupPending == \E a \in Subsessions : state[a] = "Done"

\* Nothing of a higher priority keeps a message at EPriorityStandard waiting.
CanServe == closing = NoSession /\ ~CleanupPending /\ gate.woken = <<>>

CanRun(a) ==
    /\ closing = NoSession
    /\ ~CleanupPending
    /\ IF gate.woken = <<>> THEN status[a] = "Ready" ELSE a = Head(gate.woken)

-----------------------------------------------------------------------------
(***************************************************************************)
(* The decision table, as the authoriser uses it                           *)
(***************************************************************************)
EmptyDb == [k \in Keys |-> NoRecord]

Matches(a) == {i \in DOMAIN Fingerprints[a] : db[Fingerprints[a][i]] # NoRecord}

FirstMatch(a) ==
    IF Matches(a) = {}
    THEN NoRecord
    ELSE LET i == CHOOSE i \in Matches(a) : \A j \in Matches(a) : i <= j
         IN  db[Fingerprints[a][i]]

\* The records the lookup loop may end with.  A lookup that runs out of memory
\* closes the database and goes on as if there were no record.
LookupResults(a) ==
    IF "KErrNoMemory" \in DbEvents
    THEN {NoRecord} \cup {db[Fingerprints[a][i]] : i \in Matches(a)}
    ELSE {FirstMatch(a)}

\* mutated form: a filter without its flag matches every record
RemoveRecord_AnyId(d, id) == EmptyDb

\* RemoveDecisionsL with a filter on the record id
RemoveRecord(d, id) == [k \in Keys |-> IF d[k] = id THEN NoRecord ELSE d[k]]

\* The table after the old decision of a forced prompt has been removed, or not:
\* memory ran out, or RemoveDecisionsL found the database corrupt, recovered it
\* and returned without a second try.
AfterRemoval(a) ==
    {RemoveRecord(db, iForcedRecord[a])}
        \cup (IF DbEvents \cap {"KErrNoMemory", "KErrCorrupt"} # {} THEN {db} ELSE {})

-----------------------------------------------------------------------------
(***************************************************************************)
(* The life of an authoriser                                               *)
(***************************************************************************)
\* mutated form
Finish_KeepDispute(a, g) ==
    /\ state' = [state EXCEPT ![a] = "Done"]
    /\ status' = [status EXCEPT ![a] = "Inactive"]
    /\ iForcedRecord' = [iForcedRecord EXCEPT ![a] = NoRecord]
    /\ UNCHANGED iDisputed
    /\ gate' = AuthoriserDone(g, a)
    /\ iAsyncRequests' = RemoveFirst(iAsyncRequests, a)

\* CompleteAndMarkForDeletion with DoCleanup: the client is answered, a dispute
\* is withdrawn and the server told, with the gate as it stands by then.
Finish(a, g) ==
    /\ state' = [state EXCEPT ![a] = "Done"]
    /\ status' = [status EXCEPT ![a] = "Inactive"]
    /\ iForcedRecord' = [iForcedRecord EXCEPT ![a] = NoRecord]
    /\ iDisputed' = iDisputed \ {iForcedRecord[a]}
    /\ gate' = AuthoriserDone(g, a)
    /\ iAsyncRequests' = RemoveFirst(iAsyncRequests, a)

\* The object issues a request to a plug-in and enters state s.
Issue(a, s) ==
    /\ state' = [state EXCEPT ![a] = s]
    /\ status' = [status EXCEPT ![a] = "Pending"]

\* CUpsSubsession::ExecutePromptL: the new authoriser completes itself, so that
\* it starts from the scheduler.
ExecutePrompt(a) ==
    /\ CanServe
    /\ state[a] = "None"
    /\ state' = [state EXCEPT ![a] = "ECheckPolicy"]
    /\ status' = [status EXCEPT ![a] = "Ready"]
    /\ iAsyncRequests' = Append(iAsyncRequests, a)
    /\ UNCHANGED <<gate, iForcedRecord, iDisputed, dbVars, closing>>

\* LookupPolicyL: a policy with a single outcome is the answer, any other one
\* has the evaluator make fingerprints.
CheckPolicy(a) ==
    /\ CanRun(a)
    /\ state[a] = "ECheckPolicy"
    /\ \/ Finish(a, RunGate(a))
       \/ /\ Issue(a, "ECreatingFingerprints")
          /\ gate' = RunGate(a)
          /\ UNCHANGED <<iForcedRecord, iDisputed, iAsyncRequests>>
    /\ UNCHANGED <<dbVars, closing>>

\* GateKeeperL gives the dialog to a, and PrepareDialogL leaves.
NoDialogCreator(a) ==
    LET g == RunGate(a)
    IN  g.current = NoRequest /\ Finish(a, [g EXCEPT !.current = a])

\* CUpsServer::GateKeeperL for a, which now owns a dispute over record forced
\* (or none).  With no dialog in progress it goes on to PrepareDialogL, which
\* leaves when there is no dialog creator.
GateKeeper(a, forced, disputed) ==
    LET g == RunGate(a)
    IN  \/ /\ g.current # NoRequest
           /\ state' = [state EXCEPT ![a] = "ECheckDatabase"]
           /\ status' = [status EXCEPT ![a] = "Inactive"]
           /\ gate' = [g EXCEPT !.flurry = Append(@, a)]
           /\ iForcedRecord' = [iForcedRecord EXCEPT ![a] = forced]
           /\ iDisputed' = disputed
           /\ UNCHANGED iAsyncRequests
        \/ /\ g.current = NoRequest
           /\ Issue(a, "EPreparingDialog")
           /\ gate' = [g EXCEPT !.current = a]
           /\ iForcedRecord' = [iForcedRecord EXCEPT ![a] = forced]
           /\ iDisputed' = disputed
           /\ UNCHANGED iAsyncRequests
        \/ NoDialogCreator(a)

\* The server panics: every request ends with it, and the next client starts a new
\* server on the database as it is.
Panic ==
    /\ state' = [b \in Subsessions |-> "None"]
    /\ status' = [b \in Subsessions |-> "Inactive"]
    /\ gate' = NewGate
    /\ iForcedRecord' = [b \in Subsessions |-> NoRecord]
    /\ iDisputed' = {}
    /\ iAsyncRequests' = <<>>

\* mutated forms: a woken request is not looked up again; the old dispute stays
LookupFingerprints_Once(a) ==
    /\ CanRun(a)
    /\ state[a] \in LookupStates
    /\ \E r \in IF state[a] = "ECheckDatabase" THEN {NoRecord} ELSE LookupResults(a) :
         \/ r = NoRecord /\ GateKeeper(a, iForcedRecord[a], iDisputed)
         \/ r \in iDisputed /\ (Panic \/ NoDialogCreator(a))
         \/ /\ r # NoRecord /\ r \notin iDisputed
            /\ \/ Finish(a, RunGate(a))
               \/ GateKeeper(a, r, (iDisputed \ {iForcedRecord[a]}) \cup {r})
    /\ UNCHANGED <<dbVars, closing>>
LookupFingerprints_KeepOld(a) ==
    /\ CanRun(a)
    /\ state[a] \in LookupStates
    /\ \E r \in LookupResults(a) :
         \/ r = NoRecord /\ GateKeeper(a, iForcedRecord[a], iDisputed)
         \/ r \in iDisputed /\ (Panic \/ NoDialogCreator(a))
         \/ /\ r # NoRecord /\ r \notin iDisputed
            /\ \/ Finish(a, RunGate(a))
               \/ GateKeeper(a, r, iDisputed \cup {r})
    /\ UNCHANGED <<dbVars, closing>>

\* LookupFingerprintsL.  Without a record a goes to the gate as it is.  A record
\* under dispute, even by a itself, is meant to send it there too, but unless
\* GateKeeperL leaves, the early return keeps record and filter on the cleanup
\* stack, and the thread panics (EClnLevelNotEmpty) when the scheduler's trap ends.
\* Any other record drops the dispute a may own, and is the answer unless
\* ForcePromptL asks for a prompt.
LookupFingerprints(a) ==
    /\ CanRun(a)
    /\ state[a] \in LookupStates
    /\ \E r \in LookupResults(a) :
         \/ r = NoRecord /\ GateKeeper(a, iForcedRecord[a], iDisputed)
         \/ r \in iDisputed /\ (Panic \/ NoDialogCreator(a))
         \/ /\ r # NoRecord /\ r \notin iDisputed
            /\ \/ Finish(a, RunGate(a))
               \/ GateKeeper(a, r, (iDisputed \ {iForcedRecord[a]}) \cup {r})
    /\ UNCHANGED <<dbVars, closing>>

ExecuteDialog(a) ==
    /\ CanRun(a)
    /\ state[a] = "EPreparingDialog"
    /\ Issue(a, "EExecutingDialog")
    /\ gate' = RunGate(a)
    /\ UNCHANGED <<iForcedRecord, iDisputed, iAsyncRequests, dbVars, closing>>

\* mutated forms: the record id does not count up, or counts too far
StoreDecision_SameId(d, k) ==
    /\ db' = IF d[k] = NoRecord /\ nextId <= MaxRecordId THEN [d EXCEPT ![k] = nextId] ELSE d
    /\ UNCHANGED nextId
StoreDecision_TooFar(d, k) ==
    /\ d[k] = NoRecord /\ nextId <= MaxRecordId
    /\ nextId' = nextId + 1
    /\ db' = [d EXCEPT ![k] = nextId']

\* CreateDecisionL under key k; a record that exists already is updated and
\* keeps its id.  New ids stop at MaxRecordId.
StoreDecision(d, k) ==
    \/ /\ d[k] = NoRecord
       /\ nextId <= MaxRecordId
       /\ db' = [d EXCEPT ![k] = nextId]
       /\ nextId' = nextId + 1
    \/ /\ d[k] # NoRecord
       /\ db' = d
       /\ UNCHANGED nextId

\* ProcessDialogResultL.  A forced prompt removes the decision it disputed; an
\* "always" or "never" stores a new one under the fingerprint the dialog chose,
\* a single shot answer (or a failed insertion) stores nothing.
ProcessDialogResult(a) ==
    /\ CanRun(a)
    /\ state[a] = "EExecutingDialog"
    /\ \E d \in AfterRemoval(a) :
         \/ db' = d /\ UNCHANGED nextId
         \/ \E k \in ToSet(Fingerprints[a]) : StoreDecision(d, k)
    /\ Finish(a, RunGate(a))
    /\ UNCHANGED closing

\* RunL leaves before it has changed the database: the plug-in completed with an
\* error or is missing, or memory ran out.  RunError answers the client.
RunError(a) ==
    /\ CanRun(a)
    /\ Finish(a, RunGate(a))
    /\ UNCHANGED <<dbVars, closing>>

\* HandleDbErrorL with neither KErrNoMemory nor KErrDiskFull: the database is
\* deleted, to be recreated empty at its next use, and the request fails.
HandleDbError(a) ==
    /\ "KErrCorrupt" \in DbEvents
    /\ CanRun(a)
    /\ state[a] \in LookupStates \cup {"EExecutingDialog"}
    /\ db' = EmptyDb
    /\ nextId' = 0
    /\ Finish(a, RunGate(a))
    /\ UNCHANGED closing

RunL(a) ==
    \/ CheckPolicy(a)
    \/ LookupFingerprints(a)
    \/ ExecuteDialog(a)
    \/ ProcessDialogResult(a)
    \/ RunError(a)
    \/ HandleDbError(a)

\* A policy evaluator or dialog creator completes the request it was given.
PluginComplete(a) ==
    /\ status[a] = "Pending"
    /\ status' = [status EXCEPT ![a] = "Ready"]
    /\ UNCHANGED <<state, gate, iForcedRecord, iDisputed, dbVars, iAsyncRequests, closing>>

-----------------------------------------------------------------------------
(***************************************************************************)
(* Client messages and the framework                                       *)
(***************************************************************************)
\* ECancelSubsessionFunc or ECloseSubsession of the client.
CancelRequest(a) ==
    /\ CanServe
    /\ Live(a)
    /\ Finish(a, CancelGate(a))
    /\ UNCHANGED <<dbVars, closing>>

OfSession(s) == {i \in DOMAIN iAsyncRequests : SessionOf[iAsyncRequests[i]] = s}

\* EPreCloseSession, or the end of a client: CancelOutstandingRequests starts.
CloseSession(s) ==
    /\ CanServe
    /\ OfSession(s) # {}
    /\ closing' = s
    /\ UNCHANGED <<state, status, gate, iForcedRecord, iDisputed, dbVars, iAsyncRequests>>

\* One iteration of the loop of CancelOutstandingRequests, from the end of the
\* array, or its exit.
CancelOutstanding ==
    /\ closing # NoSession
    /\ \/ /\ OfSession(closing) # {}
          /\ LET i == CHOOSE i \in OfSession(closing) : \A j \in OfSession(closing) : j <= i
             IN  Finish(iAsyncRequests[i], CancelGate(iAsyncRequests[i]))
          /\ UNCHANGED closing
       \/ /\ OfSession(closing) = {}
          /\ closing' = NoSession
          /\ UNCHANGED <<state, status, gate, iForcedRecord, iDisputed, iAsyncRequests>>
    /\ UNCHANGED dbVars

\* CScsServer::RemoveCompletedRequests deletes the authorisers that are done.
RemoveCompletedRequests ==
    /\ closing = NoSession
    /\ CleanupPending
    /\ state' = [a \in Subsessions |-> IF state[a] = "Done" THEN "None" ELSE state[a]]
    /\ UNCHANGED <<status, gate, iForcedRecord, iDisputed, dbVars, iAsyncRequests, closing>>

\* A management client removes decisions (one key at a time in the model).
RemoveDecision(k) ==
    /\ CanServe
    /\ db[k] # NoRecord
    /\ db' = [db EXCEPT ![k] = NoRecord]
    /\ UNCHANGED <<state, status, gate, iForcedRecord, iDisputed, nextId, iAsyncRequests, closing>>

\* EDeleteDatabase: the table is recreated, and counts its records from 0.
DeleteDatabase ==
    /\ "EDeleteDatabase" \in DbEvents
    /\ CanServe
    /\ db' = EmptyDb
    /\ nextId' = 0
    /\ UNCHANGED <<state, status, gate, iForcedRecord, iDisputed, iAsyncRequests, closing>>

-----------------------------------------------------------------------------
Init ==
    /\ state = [a \in Subsessions |-> "None"]
    /\ status = [a \in Subsessions |-> "Inactive"]
    /\ gate = NewGate
    /\ iForcedRecord = [a \in Subsessions |-> NoRecord]
    /\ iDisputed = {}
    /\ db = EmptyDb
    /\ nextId = 0
    /\ iAsyncRequests = <<>>
    /\ closing = NoSession

Next ==
    \/ \E a \in Subsessions :
         \/ ExecutePrompt(a)
         \/ RunL(a)
         \/ PluginComplete(a)
         \/ CancelRequest(a)
    \/ \E s \in Sessions : CloseSession(s)
    \/ CancelOutstanding
    \/ RemoveCompletedRequests
    \/ \E k \in Keys : RemoveDecision(k)
    \/ DeleteDatabase

Spec == Init /\ [][Next]_vars

(***************************************************************************)
(* An active object that is ready is run sooner or later: clients prompt   *)
(* again only once they have been answered, so the thread is not saturated *)
(* for ever.  Plug-ins complete, and the user answers.                     *)
(***************************************************************************)
Fairness ==
    /\ \A a \in Subsessions : SF_vars(RunL(a)) /\ WF_vars(PluginComplete(a))
    /\ WF_vars(CancelOutstanding)
    /\ WF_vars(RemoveCompletedRequests)

FairSpec == Spec /\ Fairness

-----------------------------------------------------------------------------
(***************************************************************************)
(* Properties                                                              *)
(***************************************************************************)
GateType ==
    [current : Subsessions \cup {NoRequest}, flurry : Seq(Subsessions),
     being : Seq(Subsessions), woken : Seq(Subsessions)]

\* Every variable has its type.
TypeOK ==
    /\ state \in [Subsessions -> States]
    /\ status \in [Subsessions -> {"Inactive", "Pending", "Ready"}]
    /\ gate \in GateType
    /\ iForcedRecord \in [Subsessions -> RecordIds \cup {NoRecord}]
    /\ iDisputed \subseteq RecordIds
    /\ db \in [Keys -> RecordIds \cup {NoRecord}]
    /\ nextId \in 0 .. MaxRecordId + 1
    /\ iAsyncRequests \in Seq(Subsessions)
    /\ closing \in Sessions \cup {NoSession}

\* One dialog at a time: the authoriser iCurrentDialog points to is the only one
\* that prepares or shows a dialog, and it does nothing else, so the pointer
\* never outlives the object (GateKeeperL, AuthoriserDoneL).
OneDialog == \A a \in Subsessions : state[a] \in DialogStates <=> gate.current = a

\* Requests waiting to be evaluated again, in the order they will be
Waiting == gate.woken \o gate.being \o gate.flurry

\* A request is in one of the queues exactly while it waits to be evaluated
\* again, once, and inactive until it is woken: the FIFOs hold no pointer to an
\* authoriser that is done, and Wakeup never calls SetActive on an active object.
QueuedOnce ==
    /\ \A i, j \in DOMAIN Waiting : Waiting[i] = Waiting[j] => i = j
    /\ \A a \in Subsessions : Contains(Waiting, a) <=> state[a] = "ECheckDatabase"
    /\ \A a \in Subsessions : Contains(Waiting, a) => status[a] = "Inactive"

\* Nobody is left behind: a request in the flurry queue has a dialog to wait for,
\* and while requests are being evaluated again one of them has been woken and
\* will wake the next, however many are cancelled meanwhile.
NoStrandedRequest ==
    /\ gate.flurry # <<>> => gate.current # NoRequest
    /\ gate.being # <<>> => gate.woken # <<>>

\* A record is under dispute exactly while one live authoriser owns the dispute;
\* a dispute that survives its owner would queue every later match of the record.
DisputesOwned ==
    /\ iDisputed = {iForcedRecord[a] : a \in {b \in Subsessions : Live(b)}} \ {NoRecord}
    /\ \A a, b \in Subsessions :
         iForcedRecord[a] = iForcedRecord[b] /\ iForcedRecord[a] # NoRecord => a = b
    /\ \A a \in Subsessions : ~Live(a) => iForcedRecord[a] = NoRecord

\* ProcessDialogResultL deletes the decision a forced prompt replaces by its id.
\* The record of that id, while there is one, is a decision the request matched.
ForcedRecordMatched ==
    \A a \in Subsessions, k \in Keys :
        iForcedRecord[a] # NoRecord /\ db[k] = iForcedRecord[a]
            => k \in ToSet(Fingerprints[a])

\* ProcessDialogResultL: "Prompt was forced therefore we must have matched an
\* existing record in the database. Delete the old decision."  The decision the
\* answer of a forced prompt deletes is one for a fingerprint of the request.
ForcedPromptDeletesOwn ==
    [][\A a \in Subsessions, k \in Keys :
         ProcessDialogResult(a) /\ db[k] # NoRecord /\ db'[k] = NoRecord
            => k \in ToSet(Fingerprints[a])]_vars

\* A dialog is prepared only for a request that no stored decision answers: there
\* is none, or the evaluator has forced a prompt on that very decision.  In
\* particular a request woken after the dialog of another one is not shown if that
\* dialog has settled it.
NoRedundantPrompt ==
    [][\A a \in Subsessions :
         state[a] # "EPreparingDialog" /\ state'[a] = "EPreparingDialog"
            => FirstMatch(a) \in {NoRecord, iForcedRecord'[a]}]_vars

\* LookupFingerprintsL: "Matching record is under dispute so a dialog must be in
\* progress - queue for later re-evaluation".  A request that matches a record under
\* dispute leaves the lookup with a dialog open, and waits in the flurry queue for
\* the end of it.
DisputedMatchQueued ==
    [][\A a \in Subsessions :
         LookupFingerprints(a) /\ FirstMatch(a) \in iDisputed
            => gate'.current # NoRequest /\ Contains(gate'.flurry, a)]_vars

\* The refinement mapping to the abstract service
Phase(a) ==
    IF state[a] \in DialogStates THEN "prompting" ELSE IF Live(a) THEN "asked" ELSE "idle"

Service == INSTANCE PromptService WITH
    Requests <- Subsessions,
    Applies  <- [a \in Subsessions |-> ToSet(Fingerprints[a])],
    phase    <- [a \in Subsessions |-> Phase(a)],
    decided  <- {k \in Keys : db[k] # NoRecord}

\* The server implements the abstract prompt service: behind the queues, wake-ups
\* and disputes there is one prompt at a time, on behalf of a request that is still
\* wanted, and decisions change only with it or by management.
ImplementsService == Service!Spec

\* It also keeps the promise that every request ends: neither the queues nor a
\* cancelled neighbour can hold a request up for ever.
EveryPromptEnds == Service!FairSpec
=============================================================================
