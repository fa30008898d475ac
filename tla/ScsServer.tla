------------------------------ MODULE ScsServer ------------------------------
(***************************************************************************)
(* The Symbian Client Server framework (SCS) the User Prompt Service is    *)
(* built on: CScsServer, its sessions and subsessions, the asynchronous    *)
(* requests it owns, their deferred delete, the shutdown timer of a        *)
(* transient server, and RScsClientBase, which starts the server process   *)
(* when it finds none.                                                     *)
(*                                                                         *)
(* The server is one thread: each message and each RunL is a step.  The    *)
(* deferred delete runs at EPriorityHigh, before any message, request or   *)
(* timer.  A client blocks in its synchronous calls; its asynchronous      *)
(* requests and its death come at any time.                                *)
(***************************************************************************)
EXTENDS Integers, FiniteSets, SequencesExt

CONSTANTS
    Clients,        \* each has one session at most, and is named as its session
    Subsessions,    \* subsession handles of a session
    Functions,      \* asynchronous functions
    NoSubsession,   \* the request is relative to the session
    Transient       \* the server has a shutdown timer

ASSUME ScsAssumption ==
    /\ IsFiniteSet(Clients)
    /\ NoSubsession \notin Subsessions
    /\ Transient \in BOOLEAN

VARIABLES
    phase,          \* of the server process: "Absent", "Running", or "Stopping"
                    \* from CActiveScheduler::Stop to the end of the process
    iSessionCount,  \* of CScsServer
    iShutdownTimer, \* the timer's active object: "None", "Running" or "Expired"
    iImmediateTimeoutNextRestart,
    iAsyncCleanup,  \* the deferred delete has been called back
    iAsyncRequests, \* CAsyncRequest objects; iSession is null unless live
    sessions,       \* the session objects
    iSsHandles,     \* the open subsessions of each session
    client,         \* where each client is in its calls
    inbox,          \* messages to the server, in the order sent
    outstanding     \* asynchronous requests whose client has not been answered

timerVars  == <<iShutdownTimer, iImmediateTimeoutNextRestart>>
serverVars == <<phase, iSessionCount, timerVars>>
requestVars == <<iAsyncCleanup, iAsyncRequests>>
vars == <<serverVars, requestVars, sessions, iSsHandles, client, inbox, outstanding>>

\* A request is identified by its session, subsession and function.
Slots == [client : Clients, sub : Subsessions \cup {NoSubsession}, f : Functions]

Requests == [slot : Slots, live : BOOLEAN, ready : BOOLEAN]

SyncOps == {"Connect", "EPreCloseSession", "EShutdownAsap", "ECreateSubsession"}

Messages ==
    [op : SyncOps \cup {"Disconnect"}, client : Clients]
        \cup [op : {"ECloseSubsession"}, client : Clients, sub : Subsessions]
        \cup [op : {"ECall", "ECancel"}, client : Clients, slot : Slots]

\* "Trying" and "Starting" are the two calls of the loop in Connect, "Blocked" any
\* synchronous call on an open session, "PreClosed" and "AwaitExit" stages of Close
\* and ShutdownServer.
ClientStates ==
    {"Closed", "Trying", "Connecting", "Starting", "Open", "Blocked", "PreClosed", "AwaitExit"}

Connected(c) == client[c].state \in {"Open", "Blocked", "PreClosed"}

NewClient == [state |-> "Closed", retries |-> 0, shutdown |-> FALSE]

-----------------------------------------------------------------------------
(***************************************************************************)
(* The shutdown timer and the session count                                *)
(***************************************************************************)
\* CShutdownTimer::Restart
Restart ==
    IF iImmediateTimeoutNextRestart
    THEN phase' = "Stopping" /\ UNCHANGED iShutdownTimer
    ELSE iShutdownTimer' = "Running" /\ UNCHANGED phase

\* mutated form
IncrementSessionCount_NoCancel ==
    iSessionCount' = iSessionCount + 1 /\ UNCHANGED iShutdownTimer

\* A timer that has expired, but not run, is cancelled as well.
IncrementSessionCount ==
    /\ iSessionCount' = iSessionCount + 1
    /\ iShutdownTimer' = IF iSessionCount' = 1 THEN "None" ELSE iShutdownTimer

\* mutated forms
DecrementSessionCount_IgnoreCleanup ==
    /\ iSessionCount' = iSessionCount - 1
    /\ IF Transient /\ iSessionCount' = 0
       THEN Restart
       ELSE UNCHANGED <<phase, iShutdownTimer>>
DecrementSessionCount_NoRestart ==
    iSessionCount' = iSessionCount - 1 /\ UNCHANGED <<phase, iShutdownTimer>>

\* With a deferred delete pending the restart is left to it.
DecrementSessionCount ==
    /\ iSessionCount' = iSessionCount - 1
    /\ IF Transient /\ iSessionCount' = 0 /\ ~iAsyncCleanup'
       THEN Restart
       ELSE UNCHANGED <<phase, iShutdownTimer>>

-----------------------------------------------------------------------------
(***************************************************************************)
(* Asynchronous requests                                                   *)
(***************************************************************************)
InboxHas(op, slot) == \E i \in DOMAIN inbox : inbox[i].op = op /\ inbox[i].slot = slot

Indices(P(_)) ==
    {i \in DOMAIN iAsyncRequests : iAsyncRequests[i].live /\ P(iAsyncRequests[i].slot)}

\* CAsyncRequest::MarkForDeletion of every request in I: it is cancelled, its
\* iSession nulled, and the deferred delete called back.
MarkForDeletion(I) ==
    /\ iAsyncRequests' = [i \in DOMAIN iAsyncRequests |->
           IF i \in I
           THEN [iAsyncRequests[i] EXCEPT !.live = FALSE, !.ready = FALSE]
           ELSE iAsyncRequests[i]]
    /\ iAsyncCleanup' = (iAsyncCleanup \/ I # {})

\* mutated form: clients are not told
CompleteAndMarkForDeletion_Silent(I) ==
    MarkForDeletion(I) /\ UNCHANGED outstanding

\* A second message in the same slot, not served yet, stays unanswered.
CompleteAndMarkForDeletion(I) ==
    /\ MarkForDeletion(I)
    /\ outstanding' = {s \in outstanding :
           InboxHas("ECall", s) \/ \A i \in I : iAsyncRequests[i].slot # s}

Find(slot) == Indices(LAMBDA s : s = slot)

\* mutated form
OfSession_ExactSubsession(c) == Indices(LAMBDA s : s.client = c /\ s.sub = NoSubsession)

\* CancelOutstandingRequests with KWildSubsession
OfSession(c) == Indices(LAMBDA s : s.client = c)

\* mutated form
OfSubsession_None(c, u) == {}

OfSubsession(c, u) == Indices(LAMBDA s : s.client = c /\ s.sub = u)

-----------------------------------------------------------------------------
(***************************************************************************)
(* RScsClientBase                                                          *)
(***************************************************************************)
Send(m) == inbox' = Append(inbox, m)

Goto(c, s) == client' = [client EXCEPT ![c].state = s]

\* mutated form: no end to the retries
AfterNoServer_Forever(r) == [r EXCEPT !.state = "Starting"]

\* The loop of Connect after KErrNotFound or KErrServerTerminated
AfterNoServer(r) ==
    IF r.retries = 1 THEN NewClient ELSE [r EXCEPT !.retries = @ - 1, !.state = "Starting"]

CreateSession(c) ==
    /\ client[c].state \in {"Closed", "Trying"}
    /\ LET r == IF client[c].state = "Closed" THEN [NewClient EXCEPT !.retries = 2] ELSE client[c]
       IN  \/ /\ phase = "Absent"
              /\ client' = [client EXCEPT ![c] = AfterNoServer(r)]
              /\ UNCHANGED inbox
           \/ /\ phase # "Absent"
              /\ client' = [client EXCEPT ![c] = [r EXCEPT !.state = "Connecting"]]
              /\ Send([op |-> "Connect", client |-> c])
    /\ UNCHANGED <<serverVars, requestVars, sessions, iSsHandles, outstanding>>

\* Launches a server (RunServerL, CScsServer::ConstructL) and waits for its
\* rendezvous; it may fail, or find that somebody else's server exists.
StartServerProcess(c) ==
    /\ client[c].state = "Starting"
    /\ \/ /\ phase = "Absent"
          /\ phase' = "Running"
          /\ iSessionCount' = 0
          /\ iShutdownTimer' = IF Transient THEN "Running" ELSE "None"
          /\ iImmediateTimeoutNextRestart' = FALSE
          /\ iAsyncCleanup' = FALSE
          /\ iAsyncRequests' = <<>>
          /\ Goto(c, "Trying")
       \/ /\ phase # "Absent"
          /\ Goto(c, "Trying")
          /\ UNCHANGED <<serverVars, requestVars>>
       \/ /\ client' = [client EXCEPT ![c] = NewClient]
          /\ UNCHANGED <<serverVars, requestVars>>
    /\ UNCHANGED <<sessions, iSsHandles, inbox, outstanding>>

\* CallSessionFunction and CallSubsessionFunction with a TRequestStatus.  A
\* client may use the slot of a request that is still outstanding, by mistake.
CallFunction(slot) ==
    /\ client[slot.client].state = "Open"
    /\ slot.sub \in iSsHandles[slot.client] \cup {NoSubsession}
    /\ ~InboxHas("ECall", slot)
    /\ Send([op |-> "ECall", client |-> slot.client, slot |-> slot])
    /\ outstanding' = outstanding \cup {slot}
    /\ UNCHANGED <<serverVars, requestVars, sessions, iSsHandles, client>>

\* A synchronous call blocks its client.
CallAndBlock(c, m) ==
    /\ client[c].state = "Open"
    /\ Goto(c, "Blocked")
    /\ Send(m)
    /\ UNCHANGED <<serverVars, requestVars, sessions, iSsHandles, outstanding>>

CancelFunction(slot) ==
    /\ slot \in outstanding
    /\ CallAndBlock(slot.client, [op |-> "ECancel", client |-> slot.client, slot |-> slot])

CreateSubsession(c) == CallAndBlock(c, [op |-> "ECreateSubsession", client |-> c])

CloseSubsession(c, u) ==
    /\ u \in iSsHandles[c]
    /\ CallAndBlock(c, [op |-> "ECloseSubsession", client |-> c, sub |-> u])

\* RScsClientBase::Close, and the same at the end of ShutdownServer
Close(c) == CallAndBlock(c, [op |-> "EPreCloseSession", client |-> c])

ShutdownServer(c) ==
    /\ ~client[c].shutdown
    /\ CallAndBlock(c, [op |-> "EShutdownAsap", client |-> c])

CloseHandle(c) ==
    /\ client[c].state = "PreClosed"
    /\ client' = [client EXCEPT ![c] =
           [NewClient EXCEPT !.state = IF client[c].shutdown THEN "AwaitExit" ELSE "Closed"]]
    /\ Send([op |-> "Disconnect", client |-> c])
    /\ UNCHANGED <<serverVars, requestVars, sessions, iSsHandles, outstanding>>

\* The entries of s that are in T, in their order.
Kept(s, T) ==
    LET kept[n \in 0 .. Len(s)] ==
            IF n = 0 THEN <<>>
            ELSE IF s[n] \in T THEN Append(kept[n - 1], s[n]) ELSE kept[n - 1]
    IN  kept[Len(s)]

\* The kernel ends the session of a client that has died: it withdraws the messages
\* of the client and sends a disconnect for it.
Drop(c, box) ==
    /\ client' = [client EXCEPT ![c] = NewClient]
    /\ inbox' = Append(Kept(box, {m \in ToSet(box) : m.client # c}),
                       [op |-> "Disconnect", client |-> c])
    /\ outstanding' = {s \in outstanding : s.client # c}

Die(c) ==
    /\ Connected(c)
    /\ Drop(c, inbox)
    /\ UNCHANGED <<serverVars, requestVars, sessions, iSsHandles>>

-----------------------------------------------------------------------------
(***************************************************************************)
(* CScsSession and CScsServer: messages                                    *)
(***************************************************************************)
\* The scheduler serves the next message, and it is this one.
Serve(op) ==
    /\ phase = "Running"
    /\ ~iAsyncCleanup
    /\ inbox # <<>>
    /\ Head(inbox).op = op

Sender == Head(inbox).client

\* mutated form: the session counts itself before it can leave
NewSession_CountFirst ==
    /\ Serve("Connect")
    /\ IncrementSessionCount
    /\ \/ /\ sessions' = sessions \cup {Sender}
          /\ client' = [client EXCEPT ![Sender] = [NewClient EXCEPT !.state = "Open"]]
       \/ /\ client' = [client EXCEPT ![Sender] = NewClient]
          /\ UNCHANGED sessions
    /\ inbox' = Tail(inbox)
    /\ UNCHANGED <<phase, iImmediateTimeoutNextRestart, requestVars, iSsHandles, outstanding>>

\* NewSessionL; it leaves on a wrong version or without memory, before the session
\* has counted itself.
NewSession ==
    /\ Serve("Connect")
    /\ \/ /\ IncrementSessionCount
          /\ sessions' = sessions \cup {Sender}
          /\ client' = [client EXCEPT ![Sender] = [NewClient EXCEPT !.state = "Open"]]
       \/ /\ client' = [client EXCEPT ![Sender] = NewClient]
          /\ UNCHANGED <<iSessionCount, iShutdownTimer, sessions>>
    /\ inbox' = Tail(inbox)
    /\ UNCHANGED <<phase, iImmediateTimeoutNextRestart, requestVars, iSsHandles, outstanding>>

\* AddAsyncRequestL: a client that has the same request outstanding is panicked.
\* Any other service may also complete at once, with an error or none.
ServiceCall ==
    /\ Serve("ECall")
    /\ LET slot == Head(inbox).slot
       IN  \/ /\ Find(slot) # {}
              /\ Drop(Sender, inbox)
              /\ UNCHANGED iAsyncRequests
           \/ /\ Find(slot) = {}
              /\ inbox' = Tail(inbox)
              /\ UNCHANGED client
              /\ \/ /\ iAsyncRequests' = Append(iAsyncRequests,
                           [slot |-> slot, live |-> TRUE, ready |-> FALSE])
                    /\ UNCHANGED outstanding
                 \/ /\ outstanding' = outstanding \ {slot}
                    /\ UNCHANGED iAsyncRequests
    /\ UNCHANGED <<serverVars, iAsyncCleanup, sessions, iSsHandles>>

\* A message of a blocked client has been served, and the client goes on.
Answer(s) == Goto(Sender, s) /\ inbox' = Tail(inbox)

CancelAsyncRequest ==
    /\ Serve("ECancel")
    /\ CompleteAndMarkForDeletion(Find(Head(inbox).slot))
    /\ Answer("Open")
    /\ UNCHANGED <<serverVars, sessions, iSsHandles>>

\* DoCreateSubsessionL may leave; containers created for it are then deleted again.
ServiceCreateSubsession ==
    /\ Serve("ECreateSubsession")
    /\ \/ \E u \in Subsessions \ iSsHandles[Sender] :
            iSsHandles' = [iSsHandles EXCEPT ![Sender] = @ \cup {u}]
       \/ UNCHANGED iSsHandles
    /\ Answer("Open")
    /\ UNCHANGED <<serverVars, requestVars, sessions, outstanding>>

ServiceCloseSubsession ==
    /\ Serve("ECloseSubsession")
    /\ LET u == Head(inbox).sub
       IN  /\ CompleteAndMarkForDeletion(OfSubsession(Sender, u))
           /\ iSsHandles' = [iSsHandles EXCEPT ![Sender] = @ \ {u}]
    /\ Answer("Open")
    /\ UNCHANGED <<serverVars, sessions>>

PreCloseSession ==
    /\ Serve("EPreCloseSession")
    /\ CompleteAndMarkForDeletion(OfSession(Sender))
    /\ Answer("PreClosed")
    /\ UNCHANGED <<serverVars, sessions, iSsHandles>>

\* ShutdownWhenIdleL fails without a timer; with one the client goes on to close.
ShutdownWhenIdle ==
    /\ Serve("EShutdownAsap")
    /\ inbox' = IF Transient
                THEN Append(Tail(inbox), [op |-> "EPreCloseSession", client |-> Sender])
                ELSE Tail(inbox)
    /\ client' = [client EXCEPT ![Sender].shutdown = Transient,
                                ![Sender].state = IF Transient THEN "Blocked" ELSE "Open"]
    /\ iImmediateTimeoutNextRestart' = (iImmediateTimeoutNextRestart \/ Transient)
    /\ UNCHANGED <<phase, iSessionCount, iShutdownTimer, requestVars, sessions, iSsHandles,
                   outstanding>>

\* ~CScsSession: clients are gone by now, so requests are not completed.
DeleteSession ==
    /\ Serve("Disconnect")
    /\ MarkForDeletion(OfSession(Sender))
    /\ sessions' = sessions \ {Sender}
    /\ iSsHandles' = [iSsHandles EXCEPT ![Sender] = {}]
    /\ DecrementSessionCount
    /\ inbox' = Tail(inbox)
    /\ UNCHANGED <<iImmediateTimeoutNextRestart, client, outstanding>>

-----------------------------------------------------------------------------
(***************************************************************************)
(* Active objects                                                          *)
(***************************************************************************)
\* The service of request i signals its active object.
ServiceComplete(i) ==
    /\ iAsyncRequests[i].live
    /\ ~iAsyncRequests[i].ready
    /\ iAsyncRequests' = [iAsyncRequests EXCEPT ![i].ready = TRUE]
    /\ UNCHANGED <<serverVars, iAsyncCleanup, sessions, iSsHandles, client, inbox, outstanding>>

\* CAsyncRequest::RunL and RunError.  A client that passed a bad descriptor is
\* panicked instead of answered.
RequestRunL(i) ==
    /\ phase = "Running"
    /\ ~iAsyncCleanup
    /\ iAsyncRequests[i].ready
    /\ \/ /\ CompleteAndMarkForDeletion({i})
          /\ UNCHANGED <<client, inbox>>
       \/ /\ Connected(iAsyncRequests[i].slot.client)
          /\ MarkForDeletion({i})
          /\ Drop(iAsyncRequests[i].slot.client, inbox)
    /\ UNCHANGED <<serverVars, sessions, iSsHandles>>

\* mutated form
RemoveCompletedRequests_NoRestart ==
    /\ phase = "Running"
    /\ iAsyncCleanup
    /\ iAsyncCleanup' = FALSE
    /\ iAsyncRequests' = Kept(iAsyncRequests, {r \in ToSet(iAsyncRequests) : r.live})
    /\ UNCHANGED <<serverVars, sessions, iSsHandles, client, inbox, outstanding>>

RemoveCompletedRequests ==
    /\ phase = "Running"
    /\ iAsyncCleanup
    /\ iAsyncCleanup' = FALSE
    /\ iAsyncRequests' = Kept(iAsyncRequests, {r \in ToSet(iAsyncRequests) : r.live})
    /\ IF Transient /\ iSessionCount = 0 THEN Restart ELSE UNCHANGED <<phase, iShutdownTimer>>
    /\ UNCHANGED <<iSessionCount, iImmediateTimeoutNextRestart, sessions, iSsHandles, client,
                   inbox, outstanding>>

\* The kernel completes the timer.
TimerExpires ==
    /\ phase = "Running"
    /\ iShutdownTimer = "Running"
    /\ iShutdownTimer' = "Expired"
    /\ UNCHANGED <<phase, iSessionCount, iImmediateTimeoutNextRestart, requestVars, sessions,
                   iSsHandles, client, inbox, outstanding>>

\* CShutdownTimer::RunL
TimerRunL ==
    /\ phase = "Running"
    /\ ~iAsyncCleanup
    /\ iShutdownTimer = "Expired"
    /\ iShutdownTimer' = "None"
    /\ phase' = "Stopping"
    /\ UNCHANGED <<iSessionCount, iImmediateTimeoutNextRestart, requestVars, sessions,
                   iSsHandles, client, inbox, outstanding>>

\* The end of RunServerL: the server object is deleted and the process ends.  The
\* kernel answers a client that waits to connect with KErrServerTerminated, and one
\* that logged on to the process in ShutdownServer.
ProcessExit ==
    /\ phase = "Stopping"
    /\ phase' = "Absent"
    /\ inbox' = <<>>
    /\ client' = [c \in Clients |->
           CASE client[c].state = "Connecting" -> AfterNoServer(client[c])
             [] client[c].state = "AwaitExit"  -> NewClient
             [] OTHER -> client[c]]
    /\ UNCHANGED <<iSessionCount, timerVars, requestVars, sessions, iSsHandles, outstanding>>

-----------------------------------------------------------------------------
Init ==
    /\ phase = "Absent"
    /\ iSessionCount = 0
    /\ iShutdownTimer = "None"
    /\ iImmediateTimeoutNextRestart = FALSE
    /\ iAsyncCleanup = FALSE
    /\ iAsyncRequests = <<>>
    /\ sessions = {}
    /\ iSsHandles = [c \in Clients |-> {}]
    /\ client = [c \in Clients |-> NewClient]
    /\ inbox = <<>>
    /\ outstanding = {}

ServeMessage ==
    \/ NewSession
    \/ ServiceCall
    \/ CancelAsyncRequest
    \/ ServiceCreateSubsession
    \/ ServiceCloseSubsession
    \/ PreCloseSession
    \/ ShutdownWhenIdle
    \/ DeleteSession

Next ==
    \/ \E c \in Clients :
         \/ CreateSession(c)
         \/ StartServerProcess(c)
         \/ CreateSubsession(c)
         \/ \E u \in Subsessions : CloseSubsession(c, u)
         \/ Close(c)
         \/ ShutdownServer(c)
         \/ CloseHandle(c)
         \/ Die(c)
    \/ \E slot \in Slots : CallFunction(slot) \/ CancelFunction(slot)
    \/ ServeMessage
    \/ \E i \in DOMAIN iAsyncRequests : ServiceComplete(i) \/ RequestRunL(i)
    \/ RemoveCompletedRequests
    \/ TimerExpires
    \/ TimerRunL
    \/ ProcessExit

Spec == Init /\ [][Next]_vars

(***************************************************************************)
(* The scheduler runs what is ready, the timer expires, and a client that  *)
(* has begun to connect or to close goes on.  Nothing makes a client call, *)
(* cancel or close, and nothing makes a service complete.                  *)
(***************************************************************************)
Fairness ==
    /\ WF_vars(ServeMessage)
    /\ WF_vars(RemoveCompletedRequests)
    /\ WF_vars(TimerExpires)
    /\ WF_vars(TimerRunL)
    /\ WF_vars(ProcessExit)
    /\ \A c \in Clients :
         /\ WF_vars(client[c].state = "Trying" /\ CreateSession(c))
         /\ WF_vars(StartServerProcess(c))
         /\ WF_vars(CloseHandle(c))

FairSpec == Spec /\ Fairness

-----------------------------------------------------------------------------
(***************************************************************************)
(* Properties                                                              *)
(***************************************************************************)
\* Every variable has its type.
TypeOK ==
    /\ phase \in {"Absent", "Running", "Stopping"}
    /\ iSessionCount \in 0 .. Cardinality(Clients)
    /\ iShutdownTimer \in {"None", "Running", "Expired"}
    /\ iImmediateTimeoutNextRestart \in BOOLEAN
    /\ iAsyncCleanup \in BOOLEAN
    /\ iAsyncRequests \in Seq(Requests)
    /\ sessions \subseteq Clients
    /\ iSsHandles \in [Clients -> SUBSET Subsessions]
    /\ client \in [Clients -> [state : ClientStates, retries : 0 .. 2, shutdown : BOOLEAN]]
    /\ inbox \in Seq(Messages)
    /\ outstanding \subseteq Slots

\* The server never goes away under a client that has been told it is connected,
\* even when the connect message was served after the timer had expired.
ConnectedServed == \A c \in Clients : Connected(c) => phase = "Running" /\ c \in sessions

\* The shutdown timer of a running server is active exactly while there is no
\* session and no deferred delete to come: Restart never finds it active (After
\* would panic), it never runs under a session, and an idle server always has it.
TimerIffIdle ==
    phase = "Running" =>
        (iShutdownTimer # "None" <=> Transient /\ sessions = {} /\ ~iAsyncCleanup)

\* ~CScsServer asserts that no session, deferred delete or request is left
\* (ESvrRemSessions, ESvrRemCleanup, ESvrRemRequests), however the scheduler was
\* stopped: by the timer, or at once after ShutdownServer.
NothingLeftAtExit ==
    phase = "Stopping" =>
        iSessionCount = 0 /\ sessions = {} /\ ~iAsyncCleanup /\ iAsyncRequests = <<>>

\* A client that waits for an asynchronous request has it in the inbox or held by
\* exactly one live request object: no request is lost by a cancel, a close or a
\* panic, and none is completed twice.
HeldOnce ==
    \A slot \in Slots :
        /\ Cardinality(Find(slot)) <= 1
        /\ slot \in outstanding => InboxHas("ECall", slot) \/ Find(slot) # {}
        /\ Connected(slot.client) /\ Find(slot) # {} => slot \in outstanding

\* MarkForDeletion goes through iSession to the server: a live request has a live
\* session, and its subsession is open.
SessionOutlivesRequests ==
    \A i \in DOMAIN iAsyncRequests :
        iAsyncRequests[i].live =>
            LET s == iAsyncRequests[i].slot
            IN  /\ s.client \in sessions
                /\ s.sub \in iSsHandles[s.client] \cup {NoSubsession}

\* A connect is answered: with a session, or with an error.
ConnectReturns ==
    \A c \in Clients :
        client[c].state = "Connecting" ~> client[c].state \notin {"Trying", "Connecting", "Starting"}

\* A server without clients shuts down, unless somebody connects again.
IdleServerStops ==
    (\A c \in Clients : client[c].state \in {"Closed", "AwaitExit"}) /\ phase = "Running"
        ~> phase = "Absent" \/ \E c \in Clients : client[c].state \notin {"Closed", "AwaitExit"}

\* EPreCloseSession: a client that closes has no request left unanswered.
ClosedAnswered ==
    \A c \in Clients :
        client[c].state = "PreClosed" => \A s \in outstanding : s.client # c
=============================================================================
