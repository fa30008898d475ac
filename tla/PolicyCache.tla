----------------------------- MODULE PolicyCache ------------------------------
(***************************************************************************)
(* How the User Prompt Service replaces its policy cache while prompts are *)
(* using it: RPolicyCacheCountedHandle with the container it counts the    *)
(* users of, CPolicyChangeEvaluator, and the parts of CUpsSession,         *)
(* CUpsSubsession and CAuthoriser that hold a handle.                      *)
(*                                                                         *)
(* The cache reads a policy list when it is first asked for it and keeps   *)
(* it, so a prompt decides by the policy it has looked up, and stores its  *)
(* decision under the version of that policy, however long the dialog      *)
(* lasts.  After the installer has changed the policy files, the change    *)
(* request gives the old cache up, waits until nobody else uses it, and    *)
(* then removes the decisions of other policy versions.                    *)
(*                                                                         *)
(* One system server and service is modelled.  A prompt is deleted, which  *)
(* releases its handle, by the deferred delete that runs before anything   *)
(* else once it is answered; both are one step here.                       *)
(***************************************************************************)
EXTENDS Integers, FiniteSets

CONSTANTS
    Prompts,        \* CAuthoriser objects
    Changes,        \* CPolicyChangeEvaluator objects
    Containers,     \* CPolicyCacheContainer objects
    Server,         \* owner of CUpsServer::iPolicyCache
    NoContainer,    \* a handle that is not open
    NoChange,       \* null iClientRequest
    MaxVersion      \* bound on the changes of the policy files

Owners   == Prompts \cup Changes \cup {Server}
Versions == 1 .. MaxVersion
Unread   == 0       \* the policy list is not in the cache

ASSUME HandleAssumption ==
    /\ IsFiniteSet(Owners) /\ IsFiniteSet(Containers)
    /\ Cardinality(Containers) >= Cardinality(Owners)
    /\ Server \notin Prompts \cup Changes /\ Prompts \cap Changes = {}
    /\ NoContainer \notin Containers /\ NoChange \notin Changes
    /\ MaxVersion \in Nat \ {0}

VARIABLES
    container,  \* reference count, version of the policy list, and iClientRequest
    handle,     \* the container each handle is open on
    prompt,     \* "None", "ECheckPolicy", or "Prompting" by a policy of the cache
    change,     \* CPolicyChangeEvaluator::iState, "None" without an object
    files,      \* version of the policy files
    announced,  \* the installer has sent ENotifyPolicyFilesChanged since it wrote them
    decisions,  \* the policy versions that decisions are stored under
    disturbed   \* what has gone wrong so far: nothing ("no"), the creation of a prompt,
                \* or a change request or its removal of decisions

vars == <<container, handle, prompt, change, files, announced, decisions,
          disturbed>>

-----------------------------------------------------------------------------
(***************************************************************************)
(* CPolicyCacheContainer                                                   *)
(***************************************************************************)
Unused == [iReferenceCount |-> 0, version |-> Unread, iClientRequest |-> NoChange]

\* mutated form: the new handle is not counted
Acquired_Uncounted(cs, c) == cs

\* IncrementReferenceCount
Acquired(cs, c) ==
    IF c = NoContainer THEN cs ELSE [cs EXCEPT ![c].iReferenceCount = @ + 1]

\* mutated form: told when nobody is left
Released_NotifyAtZero(cs, c) ==
    IF c = NoContainer THEN cs
    ELSE IF cs[c].iReferenceCount = 1 THEN [cs EXCEPT ![c] = Unused]
    ELSE [cs EXCEPT ![c].iReferenceCount = @ - 1]

\* DecrementReferenceCount: at one reference the waiting request is completed (which
\* clears iClientRequest), at none the container is deleted.
Released(cs, c) ==
    IF c = NoContainer THEN cs
    ELSE IF cs[c].iReferenceCount = 1 THEN [cs EXCEPT ![c] = Unused]
    ELSE [cs EXCEPT ![c].iReferenceCount = @ - 1,
                    ![c].iClientRequest  = IF cs[c].iReferenceCount = 2 THEN NoChange ELSE @]

\* The status of a request is pending as long as a container knows it.
Pending(e) == \E c \in Containers : container[c].iClientRequest = e

\* RPolicyCacheCountedHandle::OpenL, when the server's handle is not open
ServerCache ==
    IF handle[Server] = NoContainer
    THEN CHOOSE c \in Containers : container[c].iReferenceCount = 0
    ELSE handle[Server]

Opened ==
    IF handle[Server] = NoContainer
    THEN [container EXCEPT ![ServerCache].iReferenceCount = 1]
    ELSE container

\* mutated form: the list that has been parsed is not kept
Loaded_NotKept(cs, c) == cs

\* CPolicyCache::MatchL and ServiceConfigL read the file on first use.
Loaded(cs, c) == [cs EXCEPT ![c].version = IF @ = Unread THEN files ELSE @]

-----------------------------------------------------------------------------
(***************************************************************************)
(* Prompts                                                                 *)
(***************************************************************************)
\* CUpsSubsession::ExecutePromptL
ExecutePrompt(p) ==
    /\ prompt[p] = "None"
    /\ prompt' = [prompt EXCEPT ![p] = "ECheckPolicy"]
    /\ handle' = [handle EXCEPT ![Server] = ServerCache, ![p] = ServerCache]
    /\ container' = Acquired(Opened, ServerCache)
    /\ UNCHANGED <<change, files, announced, decisions, disturbed>>

\* CAuthoriser::NewL leaves: the cleanup item on the server's own handle releases it.
ExecutePromptFails(p) ==
    /\ prompt[p] = "None"
    /\ handle' = [handle EXCEPT ![Server] = NoContainer]
    /\ container' = Released(Opened, ServerCache)
    /\ disturbed' = IF disturbed = "no" THEN "prompt" ELSE disturbed
    /\ UNCHANGED <<prompt, change, files, announced, decisions>>

\* CAuthoriser::LookupPolicyL, for a policy that requires a prompt
LookupPolicy(p) ==
    /\ prompt[p] = "ECheckPolicy"
    /\ prompt' = [prompt EXCEPT ![p] = "Prompting"]
    /\ container' = Loaded(container, handle[p])
    /\ UNCHANGED <<handle, change, files, announced, decisions, disturbed>>

\* mutated form: Release leaves the pointer to the container
Deleted_PointerKept(p) ==
    /\ prompt' = [prompt EXCEPT ![p] = "None"]
    /\ container' = Released(container, handle[p])
    /\ UNCHANGED handle

\* ~CAuthoriser
Deleted(p) ==
    /\ prompt' = [prompt EXCEPT ![p] = "None"]
    /\ handle' = [handle EXCEPT ![p] = NoContainer]
    /\ container' = Released(container, handle[p])

\* CAuthoriser::ProcessDialogResultL, for an answer that is to be remembered
StoreDecision(p) ==
    /\ prompt[p] = "Prompting"
    /\ decisions' = decisions \cup {container[handle[p]].version}
    /\ Deleted(p)
    /\ UNCHANGED <<change, files, announced, disturbed>>

\* Any other end of a prompt: answered by the policy or a stored decision, for the
\* session only, cancelled, failed.
EndPrompt(p) ==
    /\ prompt[p] # "None"
    /\ Deleted(p)
    /\ UNCHANGED <<change, files, announced, decisions, disturbed>>

\* EGetClientConfigLength
GetClientConfig ==
    /\ handle' = [handle EXCEPT ![Server] = ServerCache]
    /\ container' = Loaded(Opened, ServerCache)
    /\ UNCHANGED <<prompt, change, files, announced, decisions, disturbed>>

-----------------------------------------------------------------------------
(***************************************************************************)
(* Policy changes                                                          *)
(***************************************************************************)
\* external: the installer writes, replaces or removes policy files
ChangeFiles ==
    /\ files < MaxVersion
    /\ files' = files + 1
    /\ announced' = FALSE
    /\ UNCHANGED <<container, handle, prompt, change, decisions, disturbed>>

\* NotifyOnRef1 of a handle that has just been copied: one waiter to a container.
Waiting(cs, c, e) ==
    IF c = NoContainer \/ cs[c].iReferenceCount <= 1 \/ cs[c].iClientRequest # NoChange
    THEN cs
    ELSE [cs EXCEPT ![c].iClientRequest = e]

\* mutated form: the server keeps its handle
GivenUp_Kept == handle[Server]

\* CUpsSession::DoServiceL releases the server's handle once the request is started.
GivenUp == NoContainer

\* ENotifyPolicyFilesChanged
NotifyPolicyFilesChanged(e) ==
    /\ change[e] = "None"
    /\ LET c == handle[Server]
           waiting == Waiting(Acquired(container, c), c, e)
           left == IF GivenUp = c THEN waiting ELSE Released(waiting, c)
       IN  /\ container' = left
           /\ handle' = [handle EXCEPT ![e] = c, ![Server] = GivenUp]
    /\ change' = [change EXCEPT ![e] = "EWaitForPolicyCacheIdle"]
    /\ announced' = TRUE
    /\ UNCHANGED <<prompt, files, decisions, disturbed>>

\* WaitForPolicyCacheIdleStateL
StartScan(e) ==
    /\ change[e] = "EWaitForPolicyCacheIdle" /\ ~Pending(e)
    /\ change' = [change EXCEPT ![e] = "EScanDatabase"]
    /\ UNCHANGED <<container, handle, prompt, files, announced, decisions, disturbed>>

\* mutated form: no entry is found to be unneeded
Unneeded_None(v) == {}

\* DeleteUnneededEntriesL: the decisions of another version than the cache has
Unneeded(v) == decisions \ {v}

\* ScanDatabaseStateL, once the view over the whole table is evaluated: the server's
\* cache is opened unless somebody has done so by now, the old one is let go, and
\* unneeded decisions are removed, or stay because an error of the removal is ignored.
ScanDatabase(e) ==
    LET old    == Released(Opened, handle[e])
        loaded == IF decisions = {} THEN old ELSE Loaded(old, ServerCache)
        stale  == Unneeded(loaded[ServerCache].version)
    IN  /\ change[e] = "EScanDatabase"
        /\ change' = [change EXCEPT ![e] = "None"]
        /\ container' = loaded
        /\ handle' = [handle EXCEPT ![Server] = ServerCache, ![e] = NoContainer]
        /\ \/ decisions' = decisions \ stale /\ UNCHANGED disturbed
           \/ stale # {} /\ disturbed' = "change" /\ UNCHANGED decisions
        /\ UNCHANGED <<prompt, files, announced>>

\* DoCancel with CancelNotifyOnRef1
Withdrawn(e) ==
    [c \in Containers |->
        IF container[c].iClientRequest = e
        THEN [container[c] EXCEPT !.iClientRequest = NoChange]
        ELSE container[c]]

\* Any other end of a change: cancelled, failed, or aborted with the database.
FailChange(e) ==
    /\ change[e] # "None"
    /\ change' = [change EXCEPT ![e] = "None"]
    /\ handle' = [handle EXCEPT ![e] = NoContainer]
    /\ container' = Released(Withdrawn(e), handle[e])
    /\ disturbed' = "change"
    /\ UNCHANGED <<prompt, files, announced, decisions>>

-----------------------------------------------------------------------------
Init ==
    /\ LET first == CHOOSE c \in Containers : TRUE
       IN  /\ container = [c \in Containers |->
                 IF c = first THEN [Unused EXCEPT !.iReferenceCount = 1] ELSE Unused]
           /\ handle = [o \in Owners |-> IF o = Server THEN first ELSE NoContainer]
    /\ prompt = [p \in Prompts |-> "None"]
    /\ change = [e \in Changes |-> "None"]
    /\ files = 1
    /\ announced = TRUE
    /\ decisions = {}
    /\ disturbed = "no"

Next ==
    \/ \E p \in Prompts :
          \/ ExecutePrompt(p)
          \/ ExecutePromptFails(p)
          \/ LookupPolicy(p)
          \/ StoreDecision(p)
          \/ EndPrompt(p)
    \/ GetClientConfig
    \/ ChangeFiles
    \/ \E e \in Changes :
          \/ NotifyPolicyFilesChanged(e)
          \/ StartScan(e)
          \/ ScanDatabase(e)
          \/ FailChange(e)

Spec == Init /\ [][Next]_vars

-----------------------------------------------------------------------------
(***************************************************************************)
(* Properties                                                              *)
(***************************************************************************)
\* The types of the variables.
TypeOK ==
    /\ container \in [Containers -> [iReferenceCount : 0 .. Cardinality(Owners),
                                     version : {Unread} \cup Versions,
                                     iClientRequest : Changes \cup {NoChange}]]
    /\ handle \in [Owners -> Containers \cup {NoContainer}]
    /\ prompt \in [Prompts -> {"None", "ECheckPolicy", "Prompting"}]
    /\ change \in [Changes -> {"None", "EWaitForPolicyCacheIdle", "EScanDatabase"}]
    /\ files \in Versions /\ announced \in BOOLEAN
    /\ decisions \subseteq Versions
    /\ disturbed \in {"no", "prompt", "change"}

UsersOf(c) == {o \in Owners : handle[o] = c}

\* A container has as many references as there are handles open on it: it is neither
\* deleted under a prompt that holds a policy of it nor kept when nobody does.
ReferencesExact ==
    \A c \in Containers : container[c].iReferenceCount = Cardinality(UsersOf(c))

\* A container holds the address of a request status only while that request waits for
\* it, through a handle of its own; and a waiting request is registered, so it will be
\* told.  The server does not use a cache somebody waits for.
WaiterAlive ==
    /\ \A c \in Containers, e \in Changes :
          container[c].iClientRequest = e =>
              change[e] = "EWaitForPolicyCacheIdle" /\ handle[e] = c /\ handle[Server] # c
    /\ \A e \in Changes :
          Pending(e) => \E p \in Prompts : handle[p] = handle[e] /\ handle[p] # NoContainer

\* A prompt under way keeps the policy it has looked up (iPolicy points into the cache).
PolicyKept ==
    \A p \in Prompts : prompt[p] = "Prompting" =>
        handle[p] # NoContainer /\ container[handle[p]].version # Unread

Quiet ==
    /\ announced
    /\ \A p \in Prompts : prompt[p] = "None"
    /\ \A e \in Changes : change[e] = "None"

\* When the last change of the policy files has been announced and everything under
\* way has ended, without a failure, no decision of a replaced policy is left, however
\* changes, prompts and dialogs have overlapped.
QuietMeansClean == Quiet /\ disturbed = "no" => decisions \subseteq {files}

\* The comment at RUpsManagement::NotifyPolicyFilesChanged (rupsmanagement.cpp:274): the
\* server deletes decisions of policies which are no longer active.
SuccessfulChangeCleans == Quiet /\ disturbed # "change" => decisions \subseteq {files}

\* A waiting change waits for fewer and fewer: nobody starts to use the cache it waits
\* for, however many prompts arrive, so that it ends when the prompts it has met end.
NobodyJoinsOldCache ==
    [][\A e \in Changes, c \in Containers :
          container[c].iClientRequest = e /\ container'[c].iClientRequest = e
              => UsersOf(c)' \subseteq UsersOf(c)]_vars

=============================================================================
