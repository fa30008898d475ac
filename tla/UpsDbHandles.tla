----------------------------- MODULE UpsDbHandles -----------------------------
(***************************************************************************)
(* The management side of the User Prompt Service server: who uses the     *)
(* decision database asynchronously, and what happens to them when the     *)
(* one real database handle, RUpsDbHandleMaster, is closed under them.     *)
(*                                                                         *)
(* Three kinds of request evaluate a CDecisionView over several steps:     *)
(* CViewEvaluator (the view then belongs to the session, which hands out   *)
(* its records), CUpdateEvaluator and CPolicyChangeEvaluator.  Each uses a *)
(* RUpsDbHandleSlave, which registers itself with the master on first use  *)
(* and is told through a callback before the master deletes the database.  *)
(*                                                                         *)
(* The server is one thread, so a handler or a RunL is one step, including *)
(* the walk over the registered handles.  The destructor of a session is   *)
(* taken apart in its two halves, ~CUpsSession and ~CScsSession, with      *)
(* nothing in between them.  Answered requests are deleted by a later step *)
(* of the framework that changes nothing here; they count as gone.         *)
(***************************************************************************)
EXTENDS Integers, FiniteSets, SequencesExt

CONSTANTS
    Sessions,   \* management sessions
    Requests,   \* the requests they may make, as pairs of a kind and a session
    NoSession   \* no session is being destroyed

Kinds == {"View", "Update", "Policy"}

ASSUME RequestAssumption ==
    /\ Requests \subseteq Kinds \X Sessions
    /\ NoSession \notin Sessions

\* A slave handle is named by the request it serves.  The one of a view is a
\* member of its session (iDbViewHandle), the others are members of the request.
IsView(r)    == r[1] = "View"
SessionOf(r) == r[2]
ViewOf(s)    == <<"View", s>>

VARIABLES
    session,    \* the sessions that exist
    request,    \* the asynchronous requests: "None" (absent or answered), "Waiting"
                \* for another object, "Ready" to run
    view,       \* the decision view of a request or session: "None", "Live", or
                \* "Orphan" when its database has been deleted before it
    iRecord,    \* the sessions that have prefetched a record
    iClient,    \* whom the handle of a session calls back: "session" or "evaluator"
    clients,    \* the registered handles, from iClientListHead
    iDatabase,  \* the master has a database
    dying       \* the session between ~CUpsSession and ~CScsSession

vars == <<session, request, view, iRecord, iClient, clients, iDatabase, dying>>

Outstanding(r) == request[r] # "None"
Free           == dying = NoSession

-----------------------------------------------------------------------------
(***************************************************************************)
(* The list of registered handles                                          *)
(***************************************************************************)
\* RUpsDbHandleSlave::operator-> with RUpsDbHandleMaster::Register
Registered(q, r) == IF Contains(q, r) THEN q ELSE <<r>> \o q

\* RUpsDbHandleSlave::Close with RUpsDbHandleMaster::UnRegister
Unregistered(q, r) == RemoveFirst(q, r)

\* The handles whose client is called when the master walks the list q.  The client
\* of an update or policy change closes its handle in the callback, which clears
\* the next link the walk goes on with.
Told(q) == {q[i] : i \in {j \in DOMAIN q : \A h \in 1 .. (j - 1) : IsView(q[h])}}

\* mutated form: the master empties its list, and the handles in use do not know
Remaining_None(q) == <<>>

\* What the walk leaves of the list: it ends with the first handle that takes itself
\* off the list.
Remaining(q) == RemoveFirstMatch(q, LAMBDA r : ~IsView(r))

-----------------------------------------------------------------------------
(***************************************************************************)
(* What ends a request: DoCleanup of each kind, then the client's answer   *)
(***************************************************************************)
\* The views that are left when the database they belong to is deleted.
OrphanRest(gone) ==
    [r \in Requests |-> IF r \in gone THEN "None"
                        ELSE IF view[r] = "Live" THEN "Orphan" ELSE view[r]]

\* mutated form: the callback of an evaluator only cancels it
AbortedBy_SessionsOnly(told) == {}

\* The requests DbHandleAboutToBeDeleted answers with KErrAbort: a view request
\* only if the handle calls the evaluator and not the session.
AbortedBy(told) == {r \in told : IsView(r) => iClient[SessionOf(r)] = "evaluator"}

\* RUpsDbHandleMaster::Close over the list q.  "failed" are the requests answered
\* after it in the same step: the one whose RunError called CloseMaster, if any.
MasterClose(q, failed) ==
    LET told == Told(q)
    IN  /\ request' = [r \in Requests |->
                         IF r \in AbortedBy(told) \cup failed THEN "None" ELSE request[r]]
        /\ view' = OrphanRest(told \cup failed)
        /\ iRecord' = {s \in iRecord : ViewOf(s) \notin told}
        /\ iClient' = [s \in Sessions |->
                         IF ViewOf(s) \in told THEN "session" ELSE iClient[s]]
        /\ clients' = Remaining(q)
        /\ iDatabase' = FALSE
        /\ UNCHANGED <<session, dying>>

\* CViewEvaluator::DoCancel cleans up the session's view, the DoCleanup of the
\* others deletes their own.
ViewsAfterCleanup(gone) == [r \in Requests |-> IF r \in gone THEN "None" ELSE view[r]]

\* mutated form: the handle keeps calling the evaluator
ClientsAfterCleanup_Kept(gone) == iClient

\* CViewEvaluator::DoCleanup gives the callback back to the session.
ClientsAfterCleanup(gone) ==
    [s \in Sessions |-> IF ViewOf(s) \in gone THEN "session" ELSE iClient[s]]

\* The handle that an update or policy change has of its own is closed with the request.
Closed(q, gone, r) == IF r \in gone THEN Unregistered(q, r) ELSE q

\* Requests of session s that end without the database being closed: cancelled by the client,
\* by EPreCloseSession, or by the destructor of their session.
Cancelled(s, gone) ==
    /\ request' = [r \in Requests |-> IF r \in gone THEN "None" ELSE request[r]]
    /\ view' = ViewsAfterCleanup(gone)
    /\ iRecord' = {t \in iRecord : ViewOf(t) \notin gone}
    /\ iClient' = ClientsAfterCleanup(gone)
    /\ clients' = Closed(Closed(clients, gone, <<"Update", s>>), gone, <<"Policy", s>>)

-----------------------------------------------------------------------------
(***************************************************************************)
(* Messages from management clients, CUpsSession::DoServiceL               *)
(***************************************************************************)
Connect(s) ==
    /\ Free /\ s \notin session
    /\ session' = session \cup {s}
    /\ UNCHANGED <<request, view, iRecord, iClient, clients, iDatabase, dying>>

Idle(r) == Free /\ SessionOf(r) \in session /\ ~Outstanding(r)

\* ECreateView: the callback moves to the evaluator, and the view is created under
\* the session's handle.
CreateView(r) ==
    /\ IsView(r) /\ Idle(r) /\ view[r] = "None"
    /\ request' = [request EXCEPT ![r] = "Waiting"]
    /\ view' = [view EXCEPT ![r] = "Live"]
    /\ iClient' = [iClient EXCEPT ![SessionOf(r)] = "evaluator"]
    /\ clients' = Registered(clients, r)
    /\ iDatabase' = TRUE
    /\ UNCHANGED <<session, iRecord, dying>>

\* ECreateView leaves: the database cannot be opened or the view not be created, or
\* there is no memory for the framework's array.  The destructor of the evaluator
\* gives the callback back, but a view it has created stays with the session.
CreateViewFails(r) ==
    /\ IsView(r) /\ Idle(r) /\ view[r] = "None"
    /\ clients' = Registered(clients, r)
    /\ \/ iDatabase' \in {iDatabase, TRUE} /\ UNCHANGED view
       \/ iDatabase' = TRUE /\ view' = [view EXCEPT ![r] = "Live"]
    /\ iClient' = [iClient EXCEPT ![SessionOf(r)] = "session"]
    /\ UNCHANGED <<session, request, iRecord, dying>>

\* EUpdateDecision: the evaluator has a handle and a view of its own.
UpdateDecision(r) ==
    /\ r[1] = "Update" /\ Idle(r)
    /\ request' = [request EXCEPT ![r] = "Waiting"]
    /\ view' = [view EXCEPT ![r] = "Live"]
    /\ clients' = Registered(clients, r)
    /\ iDatabase' = TRUE
    /\ UNCHANGED <<session, iRecord, iClient, dying>>

\* ENotifyPolicyFilesChanged: waits for the policy cache, without a view as yet.
NotifyPolicyFilesChanged(r) ==
    /\ r[1] = "Policy" /\ Idle(r)
    /\ request' = [request EXCEPT ![r] = "Waiting"]
    /\ UNCHANGED <<session, view, iRecord, iClient, clients, iDatabase, dying>>

\* ENextMatch, and the prefetch that reads the next record or comes to the end.
NextMatch(s) ==
    /\ Free /\ s \in iRecord
    /\ iRecord' \in {iRecord, iRecord \ {s}}
    /\ UNCHANGED <<session, request, view, iClient, clients, iDatabase, dying>>

\* mutated form: the record of the last view stays
CloseView_KeepRecord(r) ==
    /\ IsView(r) /\ Idle(r)
    /\ view' = [view EXCEPT ![r] = "None"]
    /\ UNCHANGED <<session, request, iRecord, iClient, clients, iDatabase, dying>>

\* ECloseView.  The client interface only sends it after it has cancelled
\* ECreateView (RUpsManagement::CancelAndCloseView).
CloseView(r) ==
    /\ IsView(r) /\ Idle(r)
    /\ view' = [view EXCEPT ![r] = "None"]
    /\ iRecord' = iRecord \ {SessionOf(r)}
    /\ UNCHANGED <<session, request, iClient, clients, iDatabase, dying>>

\* ERemoveDecisions, EDeleteDecisionsForExe, and a prompt's use of the database:
\* through the master, which opens the database if it can.
UseDatabase ==
    /\ Free
    /\ iDatabase' = TRUE
    /\ UNCHANGED <<session, request, view, iRecord, iClient, clients, dying>>

\* EDeleteDatabase, or CAuthoriser::HandleDbErrorL
DeleteDatabase ==
    /\ Free
    /\ MasterClose(clients, {})

CancelRequest(r) ==
    /\ Free /\ Outstanding(r)
    /\ Cancelled(SessionOf(r), {r})
    /\ UNCHANGED <<session, iDatabase, dying>>

-----------------------------------------------------------------------------
(***************************************************************************)
(* Active objects of the server                                            *)
(***************************************************************************)
\* CDecisionView completes its client when the evaluation has ended, or failed.
EvaluateView(r) ==
    /\ Free /\ request[r] = "Waiting" /\ view[r] # "None"
    /\ request' = [request EXCEPT ![r] = "Ready"]
    /\ UNCHANGED <<session, view, iRecord, iClient, clients, iDatabase, dying>>

\* The policy cache has become idle, see PolicyCache.
PolicyCacheIdle(r) ==
    /\ Free /\ r[1] = "Policy" /\ request[r] = "Waiting" /\ view[r] = "None"
    /\ request' = [request EXCEPT ![r] = "Ready"]
    /\ UNCHANGED <<session, view, iRecord, iClient, clients, iDatabase, dying>>

\* CViewEvaluator::RunL: the first record is prefetched, if there is one.
ViewRunL(r) ==
    /\ Free /\ IsView(r) /\ request[r] = "Ready"
    /\ request' = [request EXCEPT ![r] = "None"]
    /\ iRecord' \in {iRecord \ {SessionOf(r)}, iRecord \cup {SessionOf(r)}}
    /\ iClient' = [iClient EXCEPT ![SessionOf(r)] = "session"]
    /\ UNCHANGED <<session, view, clients, iDatabase, dying>>

\* CViewEvaluator::RunError
ViewRunError(r) ==
    /\ Free /\ IsView(r) /\ request[r] = "Ready"
    /\ Cancelled(SessionOf(r), {r})
    /\ UNCHANGED <<session, iDatabase, dying>>

\* CPolicyChangeEvaluator::WaitForPolicyCacheIdleStateL
StartScan(r) ==
    /\ Free /\ r[1] = "Policy" /\ request[r] = "Ready" /\ view[r] = "None"
    /\ request' = [request EXCEPT ![r] = "Waiting"]
    /\ view' = [view EXCEPT ![r] = "Live"]
    /\ clients' = Registered(clients, r)
    /\ iDatabase' = TRUE
    /\ UNCHANGED <<session, iRecord, iClient, dying>>

\* CUpdateEvaluator::RunL, CPolicyChangeEvaluator::ScanDatabaseStateL.  What reading a
\* view that has lost its database does is left open: this step, or the next one.
EvaluatorRunL(r) ==
    /\ Free /\ ~IsView(r) /\ request[r] = "Ready" /\ view[r] # "None"
    /\ Cancelled(SessionOf(r), {r})
    /\ iDatabase' = TRUE
    /\ UNCHANGED <<session, dying>>

\* CUpdateEvaluator::RunError, CPolicyChangeEvaluator::RunError: the handle is closed,
\* then the master with everybody else's, then the request is cleaned up.
EvaluatorRunError(r) ==
    /\ Free /\ ~IsView(r) /\ request[r] = "Ready"
    /\ MasterClose(Unregistered(clients, r), {r})

-----------------------------------------------------------------------------
(***************************************************************************)
(* Sessions end                                                            *)
(***************************************************************************)
RequestsOf(s) == {r \in Requests : SessionOf(r) = s}

\* mutated form: the handle of the session stays registered
SessionGone_HandleKept(s) == clients

SessionGone(s) == Unregistered(clients, ViewOf(s))

\* ~CUpsSession: the view and the handle go.  EPreCloseSession comes before it when
\* the client closes the session, and cancels the requests, but not when it dies.
DestroyUpsSession(s) ==
    /\ Free /\ s \in session
    /\ dying' = s
    /\ view' = [r \in Requests |-> IF r = ViewOf(s) THEN "None" ELSE view[r]]
    /\ iRecord' = iRecord \ {s}
    /\ clients' = SessionGone(s)
    /\ UNCHANGED <<session, request, iClient, iDatabase>>

PreCloseSession(s) ==
    /\ Free /\ s \in session
    /\ \E r \in RequestsOf(s) : Outstanding(r)
    /\ Cancelled(s, {r \in RequestsOf(s) : Outstanding(r)})
    /\ UNCHANGED <<session, iDatabase, dying>>

CancelPanics(s) == ViewOf(s) \in Requests /\ Outstanding(ViewOf(s))

\* mutated form: the destructor never comes to its end
DestroyScsSession_StillDying ==
    /\ ~Free /\ ~CancelPanics(dying)
    /\ Cancelled(dying, {r \in RequestsOf(dying) : Outstanding(r)})
    /\ session' = session \ {dying}
    /\ UNCHANGED <<iDatabase, dying>>

\* ~CScsSession cancels what is outstanding.
DestroyScsSession ==
    /\ ~Free /\ ~CancelPanics(dying)
    /\ Cancelled(dying, {r \in RequestsOf(dying) : Outstanding(r)})
    /\ session' = session \ {dying}
    /\ dying' = NoSession
    /\ UNCHANGED iDatabase

\* CViewEvaluator::DoCancel without a view: the server dies, and is started again
\* when a client next connects.
Panic ==
    /\ ~Free /\ CancelPanics(dying)
    /\ session' = {}
    /\ request' = [r \in Requests |-> "None"]
    /\ view' = [r \in Requests |-> "None"]
    /\ iRecord' = {}
    /\ iClient' = [s \in Sessions |-> "session"]
    /\ clients' = <<>>
    /\ iDatabase' = TRUE
    /\ dying' = NoSession

-----------------------------------------------------------------------------
Init ==
    /\ session = {}
    /\ request = [r \in Requests |-> "None"]
    /\ view = [r \in Requests |-> "None"]
    /\ iRecord = {}
    /\ iClient = [s \in Sessions |-> "session"]
    /\ clients = <<>>
    /\ iDatabase = TRUE
    /\ dying = NoSession

\* CActive::RunL with RunError of the object
RunL(r) ==
    \/ ViewRunL(r)
    \/ ViewRunError(r)
    \/ StartScan(r)
    \/ EvaluatorRunL(r)
    \/ EvaluatorRunError(r)

Next ==
    \/ \E s \in Sessions :
          \/ Connect(s)
          \/ NextMatch(s)
          \/ PreCloseSession(s)
          \/ DestroyUpsSession(s)
    \/ \E r \in Requests :
          \/ CreateView(r)
          \/ CreateViewFails(r)
          \/ UpdateDecision(r)
          \/ NotifyPolicyFilesChanged(r)
          \/ CloseView(r)
          \/ CancelRequest(r)
          \/ EvaluateView(r)
          \/ PolicyCacheIdle(r)
          \/ RunL(r)
    \/ UseDatabase
    \/ DeleteDatabase
    \/ DestroyScsSession
    \/ Panic

Spec == Init /\ [][Next]_vars

\* What a request waits for: the evaluation of its view, the policy cache, its turn.
Progress(r) == EvaluateView(r) \/ PolicyCacheIdle(r) \/ RunL(r)

\* Evaluations end, the policy cache becomes idle and ready objects run, although
\* sessions that are destroyed in between interrupt them; a destructor goes on.
Fairness ==
    /\ \A r \in Requests : SF_vars(Progress(r))
    /\ WF_vars(DestroyScsSession \/ Panic)

FairSpec == Spec /\ Fairness

-----------------------------------------------------------------------------
(***************************************************************************)
(* Properties                                                              *)
(***************************************************************************)
\* The types of the variables.
TypeOK ==
    /\ session \subseteq Sessions
    /\ request \in [Requests -> {"None", "Waiting", "Ready"}]
    /\ view \in [Requests -> {"None", "Live", "Orphan"}]
    /\ iRecord \subseteq Sessions
    /\ iClient \in [Sessions -> {"session", "evaluator"}]
    /\ clients \in Seq(Requests)
    /\ iDatabase \in BOOLEAN
    /\ dying \in session \cup {NoSession}

\* The master's list holds no handle twice and no handle of an object that is gone:
\* the walk of RUpsDbHandleMaster::Close reads and calls through each of them.
RegisteredAlive ==
    /\ \A i, j \in DOMAIN clients : clients[i] = clients[j] => i = j
    /\ \A i \in DOMAIN clients :
          LET r == clients[i]
          IN  IF IsView(r)
              THEN SessionOf(r) \in session \ {dying}
              ELSE Outstanding(r) /\ view[r] # "None"

\* Whatever has a view has its handle registered, also after a walk that has missed
\* it, so that it is told the next time (RUpsDbHandleSlave::operator->).
EveryViewWatched == \A r \in Requests : view[r] # "None" => Contains(clients, r)

\* The handle of a session calls an evaluator exactly while there is one: never into a
\* deleted CViewEvaluator, and never past one whose client waits for KErrAbort.
CallbackAlive ==
    \A r \in Requests :
        IsView(r) => (iClient[SessionOf(r)] = "evaluator" <=> Outstanding(r))

\* Cancelling a request finds the view it evaluates (the ASSERTs of the DoCancel
\* functions), in a session that is not being destroyed; and a record that ENextMatch
\* may hand out was read from a view that is still there.
EvaluatorHasView ==
    /\ \A r \in Requests :
          r[1] # "Policy" /\ Outstanding(r) /\ SessionOf(r) # dying => view[r] # "None"
    /\ \A s \in iRecord : ViewOf(s) \in Requests /\ view[ViewOf(s)] # "None"

\* Every asynchronous management request is answered, by its own completion, by its
\* own failure, or by KErrAbort because somebody else's failure closed the database.
AllAnswered == \A r \in Requests : Outstanding(r) ~> ~Outstanding(r)

\* The comment at RUpsDbHandleSlave (upsdbmanager.cpp:182): asynchronous operations
\* such as views are deleted before the database handle is deleted.
ViewsGoFirst == \A r \in Requests : view[r] # "Orphan"

\* The assertion of CViewEvaluator::DoCancel, whoever cancels the request
\* (viewevaluator.cpp:113): there is a view.
CancelFindsView ==
    \A r \in Requests : IsView(r) /\ Outstanding(r) => view[r] # "None"

=============================================================================
