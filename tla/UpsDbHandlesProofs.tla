------------------------- MODULE UpsDbHandlesProofs -------------------------
(***************************************************************************)
(* Proofs about UpsDbHandles, for any sessions and any requests they make. *)
(* The callbacks and the views do not depend on what a walk over the       *)
(* registered handles reaches: Told may be any set.  The list of handles   *)
(* does, because a handle the walk has reached may leave it.               *)
(***************************************************************************)
EXTENDS UpsDbHandles, SequenceLemmas

-----------------------------------------------------------------------------
(* The invariant *)

\* TypeOK without the list of handles.
Types ==
    /\ session \subseteq Sessions
    /\ request \in [Requests -> {"None", "Waiting", "Ready"}]
    /\ view \in [Requests -> {"None", "Live", "Orphan"}]
    /\ iRecord \subseteq Sessions
    /\ iClient \in [Sessions -> {"session", "evaluator"}]
    /\ dying \in session \cup {NoSession}

\* The callbacks fit the evaluators only because each way to end a view request also
\* gives its callback back; and a view request that a walk reaches is only aborted
\* because its callback is the evaluator's.
HandleInv == Types /\ CallbackAlive /\ EvaluatorHasView

LEMMA RequestShape ==
    ASSUME NEW r \in Requests
    PROVE  /\ SessionOf(r) \in Sessions
           /\ IsView(r) => r = ViewOf(SessionOf(r))
           /\ IsView(r) => r[1] # "Policy"
BY RequestAssumption DEF SessionOf, IsView, ViewOf, Kinds

LEMMA ViewShape ==
    ASSUME NEW s
    PROVE  IsView(ViewOf(s)) /\ SessionOf(ViewOf(s)) = s
BY DEF SessionOf, IsView, ViewOf

\* RUpsDbHandleMaster::Close
LEMMA CloseKeepsHandles ==
    ASSUME HandleInv, NEW q, NEW failed, failed \subseteq {r \in Requests : ~IsView(r)},
           MasterClose(q, failed)
    PROVE  HandleInv'
<1> DEFINE told == Told(q)
<1> USE DEF HandleInv
<1>1. /\ request' = [r \in Requests |->
                       IF r \in AbortedBy(told) \cup failed THEN "None" ELSE request[r]]
      /\ view' = OrphanRest(told \cup failed)
      /\ iRecord' = {s \in iRecord : ViewOf(s) \notin told}
      /\ iClient' = [s \in Sessions |->
                       IF ViewOf(s) \in told THEN "session" ELSE iClient[s]]
      /\ UNCHANGED <<session, dying>>
  BY DEF MasterClose
<1>2. \A r : r \in AbortedBy(told) <=>
               r \in told /\ (IsView(r) => iClient[SessionOf(r)] = "evaluator")
  BY DEF AbortedBy
<1> HIDE DEF told
<1>3. Types'
  BY <1>1 DEF Types, OrphanRest
<1>4. CallbackAlive'
  <2>1. SUFFICES ASSUME NEW r \in Requests, IsView(r)
                 PROVE  iClient'[SessionOf(r)] = "evaluator" <=> request'[r] # "None"
    BY DEF CallbackAlive, Outstanding
  <2>2. iClient[SessionOf(r)] = "evaluator" <=> request[r] # "None"
    BY <2>1 DEF CallbackAlive, Outstanding
  <2>3. SessionOf(r) \in Sessions /\ r = ViewOf(SessionOf(r))
    BY <2>1, RequestShape
  <2>4. iClient'[SessionOf(r)] =
           IF r \in told THEN "session" ELSE iClient[SessionOf(r)]
    BY <1>1, <2>3
  <2>5. request'[r] = IF r \in AbortedBy(told) THEN "None" ELSE request[r]
    BY <1>1, <2>1
  <2>. QED
    BY <1>2, <2>1, <2>2, <2>4, <2>5
<1>5. EvaluatorHasView'
  <2>1. ASSUME NEW r \in Requests, r[1] # "Policy", request'[r] # "None",
               SessionOf(r) # dying
        PROVE  view'[r] # "None"
    <3>1. request[r] # "None" /\ r \notin AbortedBy(told) /\ r \notin failed
      BY <1>1, <2>1
    <3>2. view[r] # "None"
      BY <2>1, <3>1 DEF EvaluatorHasView, Outstanding
    <3>3. IsView(r) => iClient[SessionOf(r)] = "evaluator"
      BY <3>1 DEF CallbackAlive, Outstanding
    <3>4. r \notin told
      BY <1>2, <3>1, <3>3
    <3>. QED
      BY <1>1, <3>1, <3>2, <3>4 DEF OrphanRest
  <2>2. ASSUME NEW s \in iRecord'
        PROVE  ViewOf(s) \in Requests /\ view'[ViewOf(s)] # "None"
    <3>1. s \in iRecord /\ ViewOf(s) \notin told
      BY <1>1, <2>2
    <3>2. ViewOf(s) \in Requests /\ view[ViewOf(s)] # "None"
      BY <3>1 DEF EvaluatorHasView
    <3>3. ViewOf(s) \notin failed
      BY ViewShape
    <3>. QED
      BY <1>1, <3>1, <3>2, <3>3 DEF OrphanRest
  <2>. QED
    BY <1>1, <2>1, <2>2 DEF EvaluatorHasView, Outstanding
<1>. QED
  BY <1>3, <1>4, <1>5

\* Requests that are cancelled, in the destructor of their session or before it: then
\* no request of the session that goes is outstanding any more.
LEMMA CancelKeepsHandles ==
    ASSUME HandleInv, NEW c, NEW gone, Cancelled(c, gone),
           session' \in SUBSET session, dying' \in session' \cup {NoSession},
           dying' # dying => \A r \in RequestsOf(dying) : Outstanding(r) => r \in gone
    PROVE  HandleInv'
<1> USE DEF HandleInv
<1>1. /\ request' = [r \in Requests |-> IF r \in gone THEN "None" ELSE request[r]]
      /\ view' = [r \in Requests |-> IF r \in gone THEN "None" ELSE view[r]]
      /\ iRecord' = {s \in iRecord : ViewOf(s) \notin gone}
      /\ iClient' = [s \in Sessions |->
                       IF ViewOf(s) \in gone THEN "session" ELSE iClient[s]]
  BY DEF Cancelled, ViewsAfterCleanup, ClientsAfterCleanup
<1>2. Types'
  BY <1>1 DEF Types
<1>3. CallbackAlive'
  <2>1. SUFFICES ASSUME NEW r \in Requests, IsView(r)
                 PROVE  iClient'[SessionOf(r)] = "evaluator" <=> request'[r] # "None"
    BY DEF CallbackAlive, Outstanding
  <2>. QED
    BY <1>1, <2>1, RequestShape DEF CallbackAlive, Outstanding
<1>4. EvaluatorHasView'
  <2>1. ASSUME NEW r \in Requests, r[1] # "Policy", request'[r] # "None",
               SessionOf(r) # dying'
        PROVE  view'[r] # "None"
    <3>1. r \notin gone /\ request[r] # "None"
      BY <1>1, <2>1
    <3>2. SessionOf(r) # dying
      BY <2>1, <3>1 DEF RequestsOf, Outstanding
    <3>. QED
      BY <1>1, <2>1, <3>1, <3>2 DEF EvaluatorHasView, Outstanding
  <2>2. ASSUME NEW s \in iRecord'
        PROVE  ViewOf(s) \in Requests /\ view'[ViewOf(s)] # "None"
    BY <1>1, <2>2 DEF EvaluatorHasView
  <2>. QED
    BY <2>1, <2>2 DEF EvaluatorHasView, Outstanding
<1>. QED
  BY <1>2, <1>3, <1>4

-----------------------------------------------------------------------------
(* The steps *)

LEMMA HandleInit == Init => HandleInv
<1> SUFFICES ASSUME Init
             PROVE  HandleInv
  OBVIOUS
<1>1. Types /\ EvaluatorHasView
  BY DEF Init, Types, EvaluatorHasView, Outstanding
<1>2. CallbackAlive
  BY RequestShape DEF Init, CallbackAlive, Outstanding
<1>. QED
  BY <1>1, <1>2 DEF HandleInv

\* A request begins: only r changes, and a view request takes the callback with it.
LEMMA BeginKeepsHandles ==
    ASSUME HandleInv, NEW r \in Requests, Free, request[r] = "None" \/ ~IsView(r),
           request' = [request EXCEPT ![r] = "Waiting"],
           \/ view' = [view EXCEPT ![r] = "Live"]
           \/ r[1] = "Policy" /\ view' = view,
           iClient' = IF IsView(r) THEN [iClient EXCEPT ![SessionOf(r)] = "evaluator"]
                      ELSE iClient,
           UNCHANGED <<session, iRecord, dying>>
    PROVE  HandleInv'
<1> USE DEF HandleInv
<1>1. Types'
  BY RequestShape DEF Types
<1>2. CallbackAlive'
  <2>1. SUFFICES ASSUME NEW t \in Requests, IsView(t)
                 PROVE  iClient'[SessionOf(t)] = "evaluator" <=> request'[t] # "None"
    BY DEF CallbackAlive, Outstanding
  <2>2. IsView(r) /\ SessionOf(t) = SessionOf(r) => t = r
    BY <2>1, RequestShape
  <2>3. iClient[SessionOf(t)] = "evaluator" <=> request[t] # "None"
    BY <2>1 DEF CallbackAlive, Outstanding
  <2>4. iClient'[SessionOf(t)] = IF IsView(r) /\ t = r THEN "evaluator"
                                 ELSE iClient[SessionOf(t)]
    BY <2>2, RequestShape DEF Types
  <2>5. request'[t] = IF t = r THEN "Waiting" ELSE request[t]
    BY DEF Types
  <2>. QED
    BY <2>1, <2>3, <2>4, <2>5
<1>3. EvaluatorHasView'
  BY DEF EvaluatorHasView, Outstanding, Types
<1>. QED
  BY <1>1, <1>2, <1>3

LEMMA HandleStep == HandleInv /\ [Next]_vars => HandleInv'
<1> SUFFICES ASSUME HandleInv, [Next]_vars
             PROVE  HandleInv'
  OBVIOUS
<1> USE DEF HandleInv
<1>1. ASSUME NEW s \in Sessions, Connect(s)
      PROVE  HandleInv'
  BY <1>1 DEF Connect, Free, Types, CallbackAlive, EvaluatorHasView, Outstanding
<1>2. ASSUME NEW s \in Sessions, NextMatch(s)
      PROVE  HandleInv'
  BY <1>2 DEF NextMatch, Types, CallbackAlive, EvaluatorHasView, Outstanding
<1>3. ASSUME NEW s \in Sessions, PreCloseSession(s)
      PROVE  HandleInv'
  BY <1>3, CancelKeepsHandles DEF PreCloseSession, Types
<1>4. ASSUME NEW s \in Sessions, DestroyUpsSession(s)
      PROVE  HandleInv'
  <2>1. Types'
    BY <1>4 DEF DestroyUpsSession, Types
  <2>2. CallbackAlive'
    BY <1>4 DEF DestroyUpsSession, CallbackAlive, Outstanding
  <2>3. EvaluatorHasView'
    <3>1. ASSUME NEW r \in Requests, r[1] # "Policy", request'[r] # "None",
                 SessionOf(r) # dying'
          PROVE  view'[r] # "None"
      <4>1. r # ViewOf(s) /\ SessionOf(r) # dying
        BY <1>4, <3>1, ViewShape, RequestShape, RequestAssumption
           DEF DestroyUpsSession, Free
      <4>. QED
        BY <1>4, <3>1, <4>1 DEF DestroyUpsSession, EvaluatorHasView, Outstanding
    <3>2. ASSUME NEW t \in iRecord'
          PROVE  ViewOf(t) \in Requests /\ view'[ViewOf(t)] # "None"
      BY <1>4, <3>2, ViewShape DEF DestroyUpsSession, EvaluatorHasView
    <3>. QED
      BY <3>1, <3>2 DEF EvaluatorHasView, Outstanding
  <2>. QED
    BY <2>1, <2>2, <2>3
<1>5. ASSUME NEW r \in Requests,
             CreateView(r) \/ UpdateDecision(r) \/ NotifyPolicyFilesChanged(r) \/ StartScan(r)
      PROVE  HandleInv'
  <2>1. IsView(r) => r[1] # "Policy" /\ r[1] # "Update"
    BY DEF IsView
  <2>2. CASE CreateView(r)
    BY <2>2, BeginKeepsHandles DEF CreateView, Idle, Outstanding
  <2>3. CASE UpdateDecision(r)
    BY <2>1, <2>3, BeginKeepsHandles DEF UpdateDecision, Idle, Outstanding
  <2>4. CASE NotifyPolicyFilesChanged(r)
    BY <2>1, <2>4, BeginKeepsHandles DEF NotifyPolicyFilesChanged, Idle, Outstanding
  <2>5. CASE StartScan(r)
    BY <2>1, <2>5, BeginKeepsHandles DEF StartScan
  <2>. QED
    BY <1>5, <2>2, <2>3, <2>4, <2>5
<1>6. ASSUME NEW r \in Requests, CreateViewFails(r)
      PROVE  HandleInv'
  <2>1. Types'
    BY <1>6, RequestShape DEF CreateViewFails, Types
  <2>2. CallbackAlive'
    <3>1. SUFFICES ASSUME NEW t \in Requests, IsView(t)
                   PROVE  iClient'[SessionOf(t)] = "evaluator" <=> request'[t] # "None"
      BY DEF CallbackAlive, Outstanding
    <3>. QED
      BY <1>6, <3>1, RequestShape
         DEF CreateViewFails, Idle, CallbackAlive, Outstanding, Types
  <2>3. EvaluatorHasView'
    BY <1>6 DEF CreateViewFails, EvaluatorHasView, Outstanding, Types
  <2>. QED
    BY <2>1, <2>2, <2>3
<1>7. ASSUME NEW r \in Requests, CloseView(r)
      PROVE  HandleInv'
  <2>1. Types' /\ CallbackAlive'
    BY <1>7 DEF CloseView, Types, CallbackAlive, Outstanding
  <2>2. \A t : ViewOf(t) = r => t = SessionOf(r)
    BY ViewShape
  <2>3. EvaluatorHasView'
    BY <1>7, <2>2 DEF CloseView, Idle, EvaluatorHasView, Outstanding, Types
  <2>. QED
    BY <2>1, <2>3
<1>8. ASSUME NEW r \in Requests, CancelRequest(r)
      PROVE  HandleInv'
  BY <1>8, CancelKeepsHandles DEF CancelRequest, Types
<1>9. ASSUME NEW r \in Requests, EvaluateView(r) \/ PolicyCacheIdle(r)
      PROVE  HandleInv'
  <2>1. /\ request[r] = "Waiting" /\ request' = [request EXCEPT ![r] = "Ready"]
        /\ UNCHANGED <<session, view, iRecord, iClient, dying>>
    BY <1>9 DEF EvaluateView, PolicyCacheIdle
  <2>2. \A t \in Requests : Outstanding(t)' <=> Outstanding(t)
    BY <2>1 DEF Outstanding, Types
  <2>3. Types'
    BY <2>1 DEF Types
  <2>. QED
    BY <2>1, <2>2, <2>3 DEF CallbackAlive, EvaluatorHasView
<1>10. ASSUME NEW r \in Requests, ViewRunL(r)
       PROVE  HandleInv'
  <2>1. SessionOf(r) \in Sessions /\ r = ViewOf(SessionOf(r)) /\ r[1] # "Policy"
    BY <1>10, RequestShape DEF ViewRunL
  <2>2. view[r] # "None"
    <3>1. SessionOf(r) # dying
      BY <1>10, <2>1, RequestAssumption DEF ViewRunL, Free
    <3>. QED
      BY <1>10, <2>1, <3>1 DEF ViewRunL, EvaluatorHasView, Outstanding
  <2>3. Types'
    BY <1>10, <2>1 DEF ViewRunL, Types
  <2>4. CallbackAlive'
    <3>1. SUFFICES ASSUME NEW t \in Requests, IsView(t)
                   PROVE  iClient'[SessionOf(t)] = "evaluator" <=> request'[t] # "None"
      BY DEF CallbackAlive, Outstanding
    <3>2. SessionOf(t) = SessionOf(r) => t = r
      BY <2>1, <3>1, RequestShape
    <3>. QED
      BY <1>10, <2>1, <3>1, <3>2 DEF ViewRunL, CallbackAlive, Outstanding, Types
  <2>5. EvaluatorHasView'
    BY <1>10, <2>1, <2>2 DEF ViewRunL, EvaluatorHasView, Outstanding, Types
  <2>. QED
    BY <2>3, <2>4, <2>5
<1>11. ASSUME NEW r \in Requests, ViewRunError(r) \/ EvaluatorRunL(r)
       PROVE  HandleInv'
  BY <1>11, CancelKeepsHandles DEF ViewRunError, EvaluatorRunL, Types
<1>12. ASSUME NEW r \in Requests, EvaluatorRunError(r)
       PROVE  HandleInv'
  BY <1>12, CloseKeepsHandles DEF EvaluatorRunError
<1>13. CASE UseDatabase
  BY <1>13 DEF UseDatabase, Types, CallbackAlive, EvaluatorHasView, Outstanding
<1>14. CASE DeleteDatabase
  BY <1>14, CloseKeepsHandles DEF DeleteDatabase
<1>15. CASE DestroyScsSession
  <2>1. dying' \in session' \cup {NoSession} /\ session' \in SUBSET session
    BY <1>15 DEF DestroyScsSession
  <2>. QED
    BY <1>15, <2>1, CancelKeepsHandles DEF DestroyScsSession
<1>16. CASE Panic
  BY <1>16, RequestShape
     DEF Panic, Types, CallbackAlive, EvaluatorHasView, Outstanding
<1>17. CASE UNCHANGED vars
  BY <1>17 DEF vars, Types, CallbackAlive, EvaluatorHasView, Outstanding
<1>. QED
  BY <1>1, <1>2, <1>3, <1>4, <1>5, <1>6, <1>7, <1>8, <1>9, <1>10, <1>11, <1>12, <1>13,
     <1>14, <1>15, <1>16, <1>17
     DEF Next, RunL

LEMMA HandleInvariant == Spec => []HandleInv
BY HandleInit, HandleStep, PTL DEF Spec

-----------------------------------------------------------------------------
(* The list of registered handles *)

\* The list is one of handles, each registered once.  The other two conjuncts hold
\* because a handle registers before its view is created and leaves the list only with
\* its request or session, or in the callback that deletes the view.
ListInv ==
    /\ clients \in Seq(Requests)
    /\ RegisteredAlive
    /\ EveryViewWatched

DatabaseType == iDatabase \in BOOLEAN

\* What RegisteredAlive says of a registered handle r.
Owned(r) == IF IsView(r) THEN SessionOf(r) \in session \ {dying}
            ELSE Outstanding(r) /\ view[r] # "None"

LEMMA ListInvParts ==
    ASSUME clients \in Seq(Requests)
    PROVE  RegisteredAlive <=>
              /\ Unrepeated(clients)
              /\ \A r \in Requests : Contains(clients, r) => Owned(r)
<1>1. DOMAIN clients = 1 .. Len(clients) /\ \A i \in 1 .. Len(clients) : clients[i] \in Requests
  OBVIOUS
<1>2. (\A i \in DOMAIN clients : Owned(clients[i]))
        <=> \A r \in Requests : Contains(clients, r) => Owned(r)
  BY <1>1 DEF Contains
<1>3. RegisteredAlive <=> Unrepeated(clients) /\ \A i \in DOMAIN clients : Owned(clients[i])
  BY <1>1 DEF RegisteredAlive, Unrepeated, Owned
<1>. QED
  BY <1>2, <1>3

LEMMA ListInvPrimed ==
    ASSUME clients' \in Seq(Requests), Unrepeated(clients'),
           \A r \in Requests : Contains(clients', r) => Owned(r)',
           \A r \in Requests : view'[r] # "None" => Contains(clients', r)
    PROVE  ListInv'
<1>1. DOMAIN clients' = 1 .. Len(clients') /\ \A i \in 1 .. Len(clients') : clients'[i] \in Requests
  OBVIOUS
<1>2. \A i \in DOMAIN clients' : Owned(clients[i])'
  BY <1>1 DEF Contains
<1>3. RegisteredAlive'
  BY <1>1, <1>2 DEF RegisteredAlive, Unrepeated, Owned
<1>. QED
  BY <1>3 DEF ListInv, EveryViewWatched

\* RUpsDbHandleMaster::Register
LEMMA RegisteredList ==
    ASSUME NEW q \in Seq(Requests), Unrepeated(q), NEW r \in Requests
    PROVE  /\ Registered(q, r) \in Seq(Requests) /\ Unrepeated(Registered(q, r))
           /\ \A x : Contains(Registered(q, r), x) <=> Contains(q, x) \/ x = r
<1>1. CASE Contains(q, r)
  BY <1>1 DEF Registered
<1>2. CASE ~Contains(q, r)
  <2> DEFINE t == <<r>> \o q
  <2>1. /\ t \in Seq(Requests) /\ Len(t) = Len(q) + 1 /\ Len(q) \in Nat
        /\ t[1] = r /\ \A i \in 1 .. Len(q) : t[i + 1] = q[i]
    OBVIOUS
  <2>2. Registered(q, r) = t
    BY <1>2 DEF Registered
  <2> HIDE DEF t
  <2>3. \A i \in 1 .. Len(t) : i = 1 \/ \E j \in 1 .. Len(q) : i = j + 1 /\ t[i] = q[j]
    <3>1. TAKE i \in 1 .. Len(t)
    <3>2. CASE i # 1
      <4>1. i - 1 \in 1 .. Len(q) /\ i = (i - 1) + 1
        BY <2>1, <3>2
      <4>. QED
        BY <2>1, <4>1
    <3>. QED
      BY <3>2
  <2>4. Unrepeated(t)
    BY <1>2, <2>1, <2>3 DEF Unrepeated, Contains
  <2>5. ASSUME NEW x, Contains(t, x) PROVE Contains(q, x) \/ x = r
    BY <2>1, <2>3, <2>5 DEF Contains
  <2>6. ASSUME NEW x, Contains(q, x) PROVE Contains(t, x)
    BY <2>1, <2>6 DEF Contains
  <2>7. Contains(t, r)
    BY <2>1 DEF Contains
  <2>. QED
    BY <2>1, <2>2, <2>4, <2>5, <2>6, <2>7
<1>. QED
  BY <1>1, <1>2

\* What the walk leaves: the handles of views, and those it did not reach.
LEMMA RemainingList ==
    ASSUME NEW q \in Seq(Requests), Unrepeated(q)
    PROVE  /\ Remaining(q) \in Seq(Requests) /\ Unrepeated(Remaining(q))
           /\ \A x : Contains(Remaining(q), x) <=>
                        Contains(q, x) /\ (IsView(x) \/ x \notin Told(q))
<1>0. Len(q) \in Nat /\ DOMAIN q = 1 .. Len(q)
  OBVIOUS
<1>1. CASE \A i \in 1 .. Len(q) : IsView(q[i])
  <2>1. Remaining(q) = q
    BY <1>1 DEF Remaining, RemoveFirstMatch
  <2>. QED
    BY <1>1, <2>1 DEF Contains
<1>2. CASE ~ \A i \in 1 .. Len(q) : IsView(q[i])
  <2> DEFINE I == {i \in 1 .. Len(q) : ~IsView(q[i])}
             m == Min(I)
  <2>1. \E x \in I : \A y \in I : x <= y
    <3>1. I \subseteq Nat /\ I # {}
      BY <1>2
    <3> HIDE DEF I
    <3>. QED
      BY <3>1, LeastElement
  <2>2. m \in I /\ \A y \in I : m <= y
    BY <2>1 DEF Min
  <2>3. SelectInSeq(q, LAMBDA r : ~IsView(r)) = m
    BY <1>2 DEF SelectInSeq
  <2>4. Remaining(q) = RemoveAt(q, m)
    BY <1>2, <2>3 DEF Remaining, RemoveFirstMatch
  <2> HIDE DEF m
  <2>5. m \in 1 .. Len(q) /\ ~IsView(q[m]) /\ \A h \in 1 .. m - 1 : IsView(q[h])
    <3>1. \A h \in 1 .. m - 1 : h \in 1 .. Len(q) /\ ~ (m <= h)
      BY <1>0, <2>2
    <3>. QED
      BY <2>2, <3>1
  <2>6. \A x : x \in Told(q) /\ ~IsView(x) <=> x = q[m]
    <3>1. \A i \in 1 .. Len(q) : (\A h \in 1 .. i - 1 : IsView(q[h])) /\ ~IsView(q[i]) => i = m
      <4>1. SUFFICES ASSUME NEW i \in 1 .. Len(q), \A h \in 1 .. i - 1 : IsView(q[h]), ~IsView(q[i])
                     PROVE  i = m
        OBVIOUS
      <4>2. m <= i
        BY <2>2, <4>1
      <4>3. ~ (m < i)
        BY <1>0, <2>5, <4>1
      <4>. QED
        BY <1>0, <2>5, <4>2, <4>3
    <3>. QED
      BY <1>0, <2>5, <3>1 DEF Told
  <2>7. q[m] \in Requests
    BY <2>5
  <2>8. /\ RemoveAt(q, m) \in Seq(Requests) /\ Unrepeated(RemoveAt(q, m))
        /\ \A x : Contains(RemoveAt(q, m), x) <=> Contains(q, x) /\ x # q[m]
    BY <2>5, RemoveAtUnrepeated
  <2>. QED
    BY <2>4, <2>5, <2>6, <2>8
<1>. QED
  BY <1>1, <1>2

\* The handles that are closed with the requests of c in gone.
LEMMA ClosedList ==
    ASSUME NEW q \in Seq(Requests), Unrepeated(q), NEW gone, NEW r
    PROVE  /\ Closed(q, gone, r) \in Seq(Requests) /\ Unrepeated(Closed(q, gone, r))
           /\ \A x : Contains(Closed(q, gone, r), x) <=> Contains(q, x) /\ ~(x = r /\ r \in gone)
BY RemoveFirstType, RemoveFirstUnrepeated DEF Closed, Unregistered

LEMMA CancelKeepsList ==
    ASSUME ListInv, NEW c, NEW gone, gone \subseteq {r \in Requests : SessionOf(r) = c},
           Cancelled(c, gone), session' \ {dying'} = session \ {dying}
    PROVE  ListInv'
<1> DEFINE u == Closed(clients, gone, <<"Update", c>>)
           p == Closed(u, gone, <<"Policy", c>>)
<1>1. clients \in Seq(Requests) /\ Unrepeated(clients)
  BY ListInvParts DEF ListInv
<1>2. /\ u \in Seq(Requests) /\ Unrepeated(u)
      /\ \A x : Contains(u, x) <=>
                  Contains(clients, x) /\ ~(x = <<"Update", c>> /\ <<"Update", c>> \in gone)
  BY <1>1, ClosedList
<1> HIDE DEF u
<1>3. /\ p \in Seq(Requests) /\ Unrepeated(p)
      /\ \A x : Contains(p, x) <=>
                  Contains(u, x) /\ ~(x = <<"Policy", c>> /\ <<"Policy", c>> \in gone)
  BY <1>2, ClosedList
<1>4. clients' = p
  BY DEF Cancelled, u
<1> HIDE DEF p
<1>5. \A r \in gone : r = ViewOf(c) \/ r = <<"Update", c>> \/ r = <<"Policy", c>>
  BY RequestAssumption DEF Kinds, SessionOf, ViewOf
<1>6. \A r : Contains(clients', r) <=> Contains(clients, r) /\ (IsView(r) \/ r \notin gone)
  BY <1>2, <1>3, <1>4, <1>5, ViewShape DEF IsView
<1>7. \A r \in Requests : /\ request'[r] = IF r \in gone THEN "None" ELSE request[r]
                          /\ view'[r] = IF r \in gone THEN "None" ELSE view[r]
  BY DEF Cancelled, ViewsAfterCleanup
<1>8. \A r \in Requests : Contains(clients', r) => Owned(r)'
  <2>1. \A r \in Requests : Contains(clients, r) => Owned(r)
    BY ListInvParts DEF ListInv
  <2>. QED
    BY <1>6, <1>7, <2>1 DEF Owned, Outstanding
<1>9. \A r \in Requests : view'[r] # "None" => Contains(clients', r)
  BY <1>6, <1>7 DEF ListInv, EveryViewWatched
<1>. QED
  BY <1>3, <1>4, <1>8, <1>9, ListInvPrimed

\* RUpsDbHandleMaster::Close over the list without the handles of the failed requests:
\* what the walk does not reach stays registered.
LEMMA CloseKeepsList ==
    ASSUME HandleInv, ListInv, NEW q \in Seq(Requests), Unrepeated(q), NEW failed,
           failed \subseteq Requests,
           \A r \in failed : ~IsView(r),
           \A x : Contains(q, x) <=> Contains(clients, x) /\ x \notin failed,
           MasterClose(q, failed)
    PROVE  ListInv'
<1>1. clients' = Remaining(q)
  BY DEF MasterClose
<1>2. /\ clients' \in Seq(Requests) /\ Unrepeated(clients')
      /\ \A x : Contains(clients', x) <=> Contains(q, x) /\ (IsView(x) \/ x \notin Told(q))
  BY <1>1, RemainingList
<1> DEFINE told == Told(q)
<1>3. \A r \in Requests :
        /\ request'[r] = IF r \in AbortedBy(told) \cup failed THEN "None" ELSE request[r]
        /\ view'[r] = IF r \in told \cup failed THEN "None"
                      ELSE IF view[r] = "Live" THEN "Orphan" ELSE view[r]
  BY DEF MasterClose, OrphanRest
<1>4. UNCHANGED <<session, dying>>
  BY DEF MasterClose
<1>5. AbortedBy(told) \subseteq told
  BY DEF AbortedBy
<1> HIDE DEF told
<1>6. \A r \in Requests : Contains(clients', r) => Owned(r)'
  <2>1. \A r \in Requests : Contains(clients, r) => Owned(r)
    BY ListInvParts DEF ListInv
  <2>2. SUFFICES ASSUME NEW r \in Requests, Contains(clients', r) PROVE Owned(r)'
    OBVIOUS
  <2>3. Owned(r) /\ r \notin failed /\ (IsView(r) \/ r \notin told)
    BY <1>2, <2>1, <2>2 DEF told
  <2>4. CASE IsView(r)
    BY <1>4, <2>3, <2>4 DEF Owned
  <2>5. CASE ~IsView(r)
    <3>1. request'[r] = request[r] /\ request[r] # "None" /\ view[r] # "None" /\ view'[r] # "None"
      BY <1>3, <1>5, <2>3, <2>5 DEF Owned, Outstanding
    <3>. QED
      BY <2>5, <3>1 DEF Owned, Outstanding
  <2>. QED
    BY <2>4, <2>5
<1>7. \A r \in Requests : view'[r] # "None" => Contains(clients', r)
  <2>1. SUFFICES ASSUME NEW r \in Requests, view'[r] # "None" PROVE Contains(clients', r)
    OBVIOUS
  <2>2. r \notin told /\ r \notin failed /\ view[r] # "None"
    BY <1>3, <2>1
  <2>3. Contains(clients, r)
    BY <2>2 DEF ListInv, EveryViewWatched
  <2>. QED
    BY <1>2, <2>2, <2>3 DEF told
<1>. QED
  BY <1>2, <1>6, <1>7, ListInvPrimed

\* A handle registers for r, which gets its view if it was not to fail.
LEMMA RegisterKeepsList ==
    ASSUME HandleInv, ListInv, Free, NEW r \in Requests, clients' = Registered(clients, r),
           UNCHANGED <<session, dying>>,
           IsView(r) => SessionOf(r) \in session,
           ~IsView(r) => request'[r] # "None" /\ view'[r] # "None",
           \A t \in Requests : t # r => request'[t] = request[t] /\ view'[t] = view[t]
    PROVE  ListInv'
<1>1. clients \in Seq(Requests) /\ Unrepeated(clients)
  BY ListInvParts DEF ListInv
<1>2. /\ clients' \in Seq(Requests) /\ Unrepeated(clients')
      /\ \A x : Contains(clients', x) <=> Contains(clients, x) \/ x = r
  BY <1>1, RegisteredList
<1>3. \A t \in Requests : Contains(clients', t) => Owned(t)'
  <2>1. \A t \in Requests : Contains(clients, t) => Owned(t)
    BY ListInvParts DEF ListInv
  <2>2. ASSUME NEW t \in Requests, t # r, Contains(clients', t) PROVE Owned(t)'
    BY <1>2, <2>1, <2>2 DEF Owned, Outstanding
  <2>3. Owned(r)'
    BY RequestAssumption DEF Owned, Outstanding, Free, HandleInv, Types
  <2>. QED
    BY <2>2, <2>3
<1>4. \A t \in Requests : view'[t] # "None" => Contains(clients', t)
  BY <1>2 DEF ListInv, EveryViewWatched
<1>. QED
  BY <1>2, <1>3, <1>4, ListInvPrimed

\* The list stays, and so does what the handles on it belong to.
LEMMA SameList ==
    ASSUME ListInv, UNCHANGED clients,
           session \ {dying} \subseteq session' \ {dying'},
           \A r \in Requests : /\ ~IsView(r) /\ request[r] # "None" => request'[r] # "None"
                               /\ ~IsView(r) /\ view[r] # "None" => view'[r] # "None"
                               /\ view[r] = "None" => view'[r] = "None" \/ Contains(clients, r)
    PROVE  ListInv'
<1>1. \A r \in Requests : Contains(clients, r) => Owned(r)
  BY ListInvParts DEF ListInv
<1>2. \A r \in Requests : Contains(clients', r) => Owned(r)'
  BY <1>1 DEF Owned, Outstanding
<1>3. \A r \in Requests : view'[r] # "None" => Contains(clients', r)
  BY DEF ListInv, EveryViewWatched
<1>. QED
  BY <1>2, <1>3, ListInvParts, ListInvPrimed DEF ListInv

LEMMA ListInit == Init => ListInv
<1> SUFFICES ASSUME Init PROVE ListInv
  OBVIOUS
<1>. QED
  BY DEF Init, ListInv, RegisteredAlive, EveryViewWatched

LEMMA ListStep == HandleInv /\ ListInv /\ [Next]_vars => ListInv'
<1> SUFFICES ASSUME HandleInv, ListInv, [Next]_vars
             PROVE  ListInv'
  OBVIOUS
<1>t. Types
  BY DEF HandleInv
<1>1. ASSUME NEW s \in Sessions, Connect(s)
      PROVE  ListInv'
  BY <1>1, SameList DEF Connect
<1>2. ASSUME NEW s \in Sessions, NextMatch(s)
      PROVE  ListInv'
  BY <1>2, SameList DEF NextMatch
<1>3. ASSUME NEW s \in Sessions, PreCloseSession(s)
      PROVE  ListInv'
  <2> DEFINE gone == {r \in RequestsOf(s) : Outstanding(r)}
  <2>1. gone \subseteq {r \in Requests : SessionOf(r) = s}
    BY DEF RequestsOf
  <2>2. Cancelled(s, gone) /\ UNCHANGED <<session, dying>>
    BY <1>3 DEF PreCloseSession
  <2> HIDE DEF gone
  <2>. QED
    BY <2>1, <2>2, CancelKeepsList
<1>4. ASSUME NEW s \in Sessions, DestroyUpsSession(s)
      PROVE  ListInv'
  <2>1. clients \in Seq(Requests) /\ Unrepeated(clients)
    BY ListInvParts DEF ListInv
  <2>2. clients' = RemoveFirst(clients, ViewOf(s))
    BY <1>4 DEF DestroyUpsSession, SessionGone, Unregistered
  <2>3. /\ clients' \in Seq(Requests) /\ Unrepeated(clients')
        /\ \A x : Contains(clients', x) <=> Contains(clients, x) /\ x # ViewOf(s)
    BY <2>1, <2>2, RemoveFirstType, RemoveFirstUnrepeated
  <2>4. \A r \in Requests : view'[r] = IF r = ViewOf(s) THEN "None" ELSE view[r]
    BY <1>4 DEF DestroyUpsSession
  <2>5. UNCHANGED <<session, request>> /\ dying' = s
    BY <1>4 DEF DestroyUpsSession
  <2>6. \A r \in Requests : Contains(clients', r) => Owned(r)'
    <3>1. SUFFICES ASSUME NEW r \in Requests, Contains(clients', r) PROVE Owned(r)'
      OBVIOUS
    <3>2. Owned(r) /\ r # ViewOf(s)
      BY <2>3, <3>1, ListInvParts DEF ListInv
    <3>3. IsView(r) => SessionOf(r) # s
      BY <3>2, RequestShape
    <3>. QED
      BY <2>4, <2>5, <3>2, <3>3 DEF Owned, Outstanding
  <2>7. \A r \in Requests : view'[r] # "None" => Contains(clients', r)
    BY <2>3, <2>4 DEF ListInv, EveryViewWatched
  <2>. QED
    BY <2>3, <2>6, <2>7, ListInvPrimed
<1>5. ASSUME NEW r \in Requests,
             CreateView(r) \/ CreateViewFails(r) \/ UpdateDecision(r) \/ StartScan(r)
      PROVE  ListInv'
  <2>1. Free /\ clients' = Registered(clients, r) /\ UNCHANGED <<session, dying>>
    BY <1>5 DEF CreateView, CreateViewFails, UpdateDecision, StartScan, Idle
  <2>2. /\ IsView(r) => SessionOf(r) \in session
        /\ ~IsView(r) => request'[r] # "None" /\ view'[r] # "None"
    <3>1. CASE CreateView(r) \/ CreateViewFails(r)
      BY <3>1 DEF CreateView, CreateViewFails, Idle
    <3>2. CASE UpdateDecision(r) \/ StartScan(r)
      BY <1>t, <3>2 DEF UpdateDecision, StartScan, Idle, IsView, Types
    <3>. QED
      BY <1>5, <3>1, <3>2
  <2>3. \A t \in Requests : t # r => request'[t] = request[t] /\ view'[t] = view[t]
    BY <1>t, <1>5 DEF CreateView, CreateViewFails, UpdateDecision, StartScan, Types
  <2>. QED
    BY <2>1, <2>2, <2>3, RegisterKeepsList
<1>6. ASSUME NEW r \in Requests, NotifyPolicyFilesChanged(r)
      PROVE  ListInv'
  BY <1>t, <1>6, SameList DEF NotifyPolicyFilesChanged, Types
<1>7. ASSUME NEW r \in Requests, CloseView(r)
      PROVE  ListInv'
  BY <1>t, <1>7, SameList DEF CloseView, Types
<1>8. ASSUME NEW r \in Requests, CancelRequest(r) \/ ViewRunError(r) \/ EvaluatorRunL(r)
      PROVE  ListInv'
  <2>1. Cancelled(SessionOf(r), {r}) /\ UNCHANGED <<session, dying>>
    BY <1>8 DEF CancelRequest, ViewRunError, EvaluatorRunL
  <2>. QED
    BY <2>1, CancelKeepsList
<1>9. ASSUME NEW r \in Requests, EvaluateView(r) \/ PolicyCacheIdle(r) \/ ViewRunL(r)
      PROVE  ListInv'
  BY <1>t, <1>9, SameList DEF EvaluateView, PolicyCacheIdle, ViewRunL, Types
<1>10. ASSUME NEW r \in Requests, EvaluatorRunError(r)
       PROVE  ListInv'
  <2> DEFINE q == RemoveFirst(clients, r)
  <2>1. clients \in Seq(Requests) /\ Unrepeated(clients)
    BY ListInvParts DEF ListInv
  <2>2. /\ q \in Seq(Requests) /\ Unrepeated(q)
        /\ \A x : Contains(q, x) <=> Contains(clients, x) /\ x \notin {r}
    BY <2>1, RemoveFirstType, RemoveFirstUnrepeated
  <2>3. MasterClose(q, {r}) /\ ~IsView(r)
    BY <1>10 DEF EvaluatorRunError, Unregistered
  <2> HIDE DEF q
  <2>. QED
    BY <2>2, <2>3, CloseKeepsList
<1>11. CASE UseDatabase
  BY <1>11, SameList DEF UseDatabase
<1>12. CASE DeleteDatabase
  <2>1. clients \in Seq(Requests) /\ Unrepeated(clients)
    BY ListInvParts DEF ListInv
  <2>2. MasterClose(clients, {})
    BY <1>12 DEF DeleteDatabase
  <2>. QED
    BY <2>1, <2>2, CloseKeepsList
<1>13. CASE DestroyScsSession
  <2> DEFINE gone == {r \in RequestsOf(dying) : Outstanding(r)}
  <2>1. gone \subseteq {r \in Requests : SessionOf(r) = dying}
    BY DEF RequestsOf
  <2>2. /\ Cancelled(dying, gone)
        /\ session' = session \ {dying} /\ dying' = NoSession
    BY <1>13 DEF DestroyScsSession
  <2>3. session' \ {dying'} = session \ {dying}
    BY <1>t, <2>2, RequestAssumption DEF Types
  <2> HIDE DEF gone
  <2>. QED
    BY <2>1, <2>2, <2>3, CancelKeepsList
<1>14. CASE Panic
  BY <1>14 DEF Panic, ListInv, RegisteredAlive, EveryViewWatched
<1>15. CASE UNCHANGED vars
  BY <1>15, SameList DEF vars
<1>. QED
  BY <1>1, <1>2, <1>3, <1>4, <1>5, <1>6, <1>7, <1>8, <1>9, <1>10, <1>11, <1>12, <1>13,
     <1>14, <1>15
     DEF Next, RunL

LEMMA ListInvariant == Spec => []ListInv
BY HandleInvariant, ListInit, ListStep, PTL DEF Spec

\* The handle of a session calls an evaluator exactly while the session's view request is
\* outstanding, however requests, sessions and the database come to their ends
\* (CViewEvaluator::DoCleanup, CUpsSession::DbHandleAboutToBeDeleted).
THEOREM CallbackAliveHolds == Spec => []CallbackAlive
BY HandleInvariant, PTL DEF HandleInv

\* Whoever cancels a request finds its view, outside of the destructor of its session,
\* and a prefetched record belongs to a view (the ASSERTs of the DoCancel functions,
\* CUpsSession::CloseView).
THEOREM EvaluatorHasViewHolds == Spec => []EvaluatorHasView
BY HandleInvariant, PTL DEF HandleInv

\* The master's list holds each handle once, and none of a session or request that is gone:
\* whatever the walk of RUpsDbHandleMaster::Close calls still exists.
THEOREM RegisteredAliveHolds == Spec => []RegisteredAlive
BY ListInvariant, PTL DEF ListInv

\* Whatever has a view is on the master's list, also after a walk that has missed it.
THEOREM EveryViewWatchedHolds == Spec => []EveryViewWatched
BY ListInvariant, PTL DEF ListInv

\* Every variable has its type.
THEOREM TypeOKHolds == Spec => []TypeOK
<1>1. Spec => []DatabaseType
  <2>1. Init => DatabaseType
    BY DEF Init, DatabaseType
  <2>2. DatabaseType /\ [Next]_vars => DatabaseType'
    BY DEF Next, vars, DatabaseType, Connect, NextMatch, PreCloseSession, DestroyUpsSession,
           CreateView, CreateViewFails, UpdateDecision, NotifyPolicyFilesChanged, CloseView,
           CancelRequest, EvaluateView, PolicyCacheIdle, RunL, ViewRunL, ViewRunError,
           StartScan, EvaluatorRunL, EvaluatorRunError, UseDatabase, DeleteDatabase,
           MasterClose, DestroyScsSession, Panic
  <2>. QED
    BY <2>1, <2>2, PTL DEF Spec
<1>2. HandleInv /\ ListInv /\ DatabaseType => TypeOK
  BY DEF HandleInv, Types, ListInv, DatabaseType, TypeOK
<1>. QED
  BY <1>1, <1>2, HandleInvariant, ListInvariant, PTL

=============================================================================
