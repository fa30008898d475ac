------------------------ MODULE UpsAuthoriserProofs ------------------------
(***************************************************************************)
(* Proofs about UpsAuthoriser, for any number of subsessions, sessions and *)
(* keys, and any bound on record ids.                                      *)
(***************************************************************************)
EXTENDS UpsAuthoriser, SequenceLemmas

-----------------------------------------------------------------------------
(* The dialog gate *)

\* WakeupNextPendingL keeps the gate well-formed and the current dialog.
LEMMA WakeupNextPendingType ==
    ASSUME NEW g \in GateType
    PROVE  /\ WakeupNextPending(g) \in GateType
           /\ WakeupNextPending(g).current = g.current
<1>1. CASE g.being = <<>>
  BY <1>1 DEF WakeupNextPending
<1>2. CASE g.being # <<>>
  <2>1. Head(g.being) \in Subsessions /\ Tail(g.being) \in Seq(Subsessions)
    BY <1>2, HeadTailProperties DEF GateType
  <2>2. Append(g.woken, Head(g.being)) \in Seq(Subsessions)
    BY <2>1, AppendProperties DEF GateType
  <2>. QED
    BY <1>2, <2>1, <2>2 DEF WakeupNextPending, GateType
<1>. QED
  BY <1>1, <1>2

\* So does taking an authoriser out of the FIFOs.
LEMMA ForgetType ==
    ASSUME NEW g \in GateType, NEW a
    PROVE  Forget(g, a) \in GateType /\ Forget(g, a).current = g.current
<1>1. RemoveFirst(g.flurry, a) \in Seq(Subsessions)
  BY RemoveFirstType DEF GateType
<1>2. RemoveFirst(g.being, a) \in Seq(Subsessions)
  BY RemoveFirstType DEF GateType
<1>. QED
  BY <1>1, <1>2 DEF Forget, GateType

\* AuthoriserDoneL gives up the dialog of its caller and of nobody else.
LEMMA AuthoriserDoneType ==
    ASSUME NEW g \in GateType, NEW a \in Subsessions
    PROVE  /\ AuthoriserDone(g, a) \in GateType
           /\ AuthoriserDone(g, a).current = IF g.current = a THEN NoRequest ELSE g.current
<1> DEFINE f == Forget(g, a)
<1>1. f \in GateType /\ f.current = g.current
  BY ForgetType
<1>2. CASE g.current # a
  BY <1>1, <1>2 DEF AuthoriserDone
<1>3. CASE g.current = a
  <2> DEFINE h == [f EXCEPT !.current = NoRequest]
             w == SwapIfDrained(h)
  <2>1. h \in GateType /\ h.current = NoRequest
    BY <1>1 DEF GateType
  <2>2. w \in GateType /\ w.current = NoRequest
    BY <2>1 DEF SwapIfDrained, GateType
  <2>3. WakeupNextPending(w) \in GateType /\ WakeupNextPending(w).current = NoRequest
    BY <2>2, WakeupNextPendingType
  <2>. QED
    BY <1>3, <2>3 DEF AuthoriserDone
<1>. QED
  BY <1>2, <1>3

\* The gate a RunL, or a cancelled authoriser, hands on.
LEMMA RunGateType ==
    ASSUME gate \in GateType, NEW a
    PROVE  RunGate(a) \in GateType /\ RunGate(a).current = gate.current
<1> DEFINE g == [gate EXCEPT !.woken = IF @ = <<>> THEN @ ELSE Tail(@)]
<1>1. g \in GateType /\ g.current = gate.current
  BY HeadTailProperties DEF GateType
<1>. QED
  BY <1>1, WakeupNextPendingType DEF RunGate

LEMMA CancelGateType ==
    ASSUME gate \in GateType, NEW a
    PROVE  CancelGate(a) \in GateType /\ CancelGate(a).current = gate.current
<1> DEFINE g == WakeupNextPending(gate)
<1>1. g \in GateType /\ g.current = gate.current
  BY WakeupNextPendingType
<1>2. RemoveFirst(g.woken, a) \in Seq(Subsessions)
  BY <1>1, RemoveFirstType DEF GateType
<1>. HIDE DEF g
<1>3. [g EXCEPT !.woken = RemoveFirst(g.woken, a)] \in GateType
  BY <1>1, <1>2 DEF GateType
<1>4. [g EXCEPT !.woken = RemoveFirst(g.woken, a)].current = gate.current
  BY <1>1 DEF GateType
<1>. QED
  BY <1>3, <1>4 DEF CancelGate, g

-----------------------------------------------------------------------------
(* The decision table *)

\* A lookup ends with a record of the table, or none.
LEMMA LookupResultsType ==
    ASSUME TypeOK, NEW a \in Subsessions, NEW r \in LookupResults(a)
    PROVE  r \in RecordIds \cup {NoRecord}
<1> DEFINE F == Fingerprints[a]
<1>1. F \in Seq(Keys)
  BY RecordAssumption
<1>2. \A i \in Matches(a) : i \in Nat /\ db[F[i]] \in RecordIds \cup {NoRecord}
  BY <1>1 DEF Matches, TypeOK
<1>3. FirstMatch(a) \in RecordIds \cup {NoRecord}
  <2>1. CASE Matches(a) = {}
    BY <2>1 DEF FirstMatch
  <2>2. CASE Matches(a) # {}
    <3>1. \E i \in Matches(a) : \A j \in Matches(a) : i <= j
      BY <1>2, <2>2, LeastElement
    <3>. QED
      BY <1>2, <2>2, <3>1 DEF FirstMatch
  <2>. QED
    BY <2>1, <2>2
<1>. QED
  BY <1>2, <1>3 DEF LookupResults

LEMMA AfterRemovalType ==
    ASSUME TypeOK, NEW a \in Subsessions, NEW d \in AfterRemoval(a)
    PROVE  d \in [Keys -> RecordIds \cup {NoRecord}]
BY DEF AfterRemoval, RemoveRecord, TypeOK

-----------------------------------------------------------------------------
(* Types, one dialog, and owned disputes *)

\* The invariant is inductive: which authoriser has the dialog, and which one
\* owns a dispute, depends on no queue.
DialogInv == TypeOK /\ OneDialog /\ DisputesOwned

\* The end of an authoriser keeps it, whether or not it has the dialog.
LEMMA FinishStep ==
    ASSUME DialogInv, NEW a \in Subsessions, NEW g \in GateType,
           g.current = gate.current \/ (gate.current = NoRequest /\ g.current = a),
           Finish(a, g),
           db' \in [Keys -> RecordIds \cup {NoRecord}],
           nextId' \in 0 .. MaxRecordId + 1,
           closing' \in Sessions \cup {NoSession}
    PROVE  DialogInv'
<1>. USE DEF DialogInv
<1>1. /\ gate' \in GateType
      /\ gate'.current = IF g.current = a THEN NoRequest ELSE g.current
  BY AuthoriserDoneType DEF Finish
<1>2. TypeOK'
  <2>1. iAsyncRequests' \in Seq(Subsessions)
    BY RemoveFirstType DEF Finish, TypeOK
  <2>. QED
    BY <1>1, <2>1 DEF Finish, TypeOK, States
<1>3. OneDialog'
  <2>1. \A b \in Subsessions :
          state'[b] \in DialogStates <=> b # a /\ state[b] \in DialogStates
    BY DEF Finish, TypeOK, DialogStates
  <2>2. \A b \in Subsessions : gate'.current = b <=> b # a /\ gate.current = b
    BY <1>1, SessionAssumption
  <2>. QED
    BY <2>1, <2>2 DEF OneDialog
<1>4. DisputesOwned'
  <2>1. \A b \in Subsessions :
          /\ iForcedRecord'[b] = IF b = a THEN NoRecord ELSE iForcedRecord[b]
          /\ Live(b)' <=> b # a /\ Live(b)
    BY DEF Finish, TypeOK, Live, LiveStates, LookupStates, DialogStates
  <2>2. iDisputed' = iDisputed \ {iForcedRecord[a]}
    BY DEF Finish
  <2>. QED
    BY <2>1, <2>2 DEF DisputesOwned, TypeOK
<1>. QED
  BY <1>2, <1>3, <1>4

\* So does one that is given the dialog and leaves.
LEMMA NoDialogCreatorStep ==
    ASSUME DialogInv, NEW a \in Subsessions, NoDialogCreator(a),
           UNCHANGED <<dbVars, closing>>
    PROVE  DialogInv'
<1> DEFINE g == [RunGate(a) EXCEPT !.current = a]
<1>1. /\ RunGate(a) \in GateType
      /\ RunGate(a).current = gate.current
      /\ gate.current = NoRequest
      /\ Finish(a, g)
  BY RunGateType DEF DialogInv, TypeOK, NoDialogCreator
<1>2. g \in GateType /\ g.current = a
  BY <1>1 DEF GateType
<1>. HIDE DEF g
<1>. QED
  BY <1>1, <1>2, FinishStep DEF DialogInv, TypeOK, dbVars

\* So does the gate keeper, with the dispute the authoriser comes with.
LEMMA GateKeeperStep ==
    ASSUME DialogInv, NEW a \in Subsessions, state[a] \in LookupStates,
           NEW forced \in RecordIds \cup {NoRecord}, NEW disputed,
           \/ forced = iForcedRecord[a] /\ disputed = iDisputed
           \/ /\ forced \in RecordIds \ iDisputed
              /\ disputed = (iDisputed \ {iForcedRecord[a]}) \cup {forced},
           GateKeeper(a, forced, disputed),
           UNCHANGED <<dbVars, closing>>
    PROVE  DialogInv'
<1>. USE DEF DialogInv
<1> DEFINE g == RunGate(a)
<1>1. g \in GateType /\ g.current = gate.current
  BY RunGateType DEF TypeOK
<1>2. UNCHANGED <<db, nextId, closing>>
  BY DEF dbVars
<1>3. gate.current # a
  BY DEF OneDialog, LookupStates, DialogStates
<1>. HIDE DEF g
<1>4. ASSUME iForcedRecord' = [iForcedRecord EXCEPT ![a] = forced],
             iDisputed' = disputed,
             NEW s \in LiveStates, state' = [state EXCEPT ![a] = s]
      PROVE  DisputesOwned' /\ iDisputed' \subseteq RecordIds
  <2>1. \A b \in Subsessions :
          /\ iForcedRecord'[b] = IF b = a THEN forced ELSE iForcedRecord[b]
          /\ Live(b)' <=> Live(b)
    BY <1>4 DEF TypeOK, Live, LiveStates, LookupStates
  <2>2. \A b \in Subsessions :
          iForcedRecord[b] # NoRecord => Live(b) /\ iForcedRecord[b] \in iDisputed
    BY DEF DisputesOwned, TypeOK
  <2>3. Live(a)
    BY DEF Live, LiveStates
  <2>4. CASE forced = iForcedRecord[a] /\ disputed = iDisputed
    BY <1>4, <2>1, <2>4 DEF DisputesOwned, TypeOK
  <2>5. CASE /\ forced \in RecordIds \ iDisputed
             /\ disputed = (iDisputed \ {iForcedRecord[a]}) \cup {forced}
    <3>1. forced # NoRecord
      BY <2>5, RecordAssumption
    <3>2. iDisputed' = {iForcedRecord'[b] : b \in {c \in Subsessions : Live(c)'}} \ {NoRecord}
      BY <1>4, <2>1, <2>2, <2>3, <2>5, <3>1 DEF DisputesOwned, TypeOK
    <3>3. \A b, c \in Subsessions :
            iForcedRecord'[b] = iForcedRecord'[c] /\ iForcedRecord'[b] # NoRecord => b = c
      BY <2>1, <2>2, <2>5 DEF DisputesOwned
    <3>4. \A b \in Subsessions : ~Live(b)' => iForcedRecord'[b] = NoRecord
      BY <2>1, <2>3 DEF DisputesOwned
    <3>. QED
      BY <1>4, <2>5, <3>2, <3>3, <3>4 DEF DisputesOwned, TypeOK
  <2>. QED
    BY <2>4, <2>5
<1>5. CASE /\ g.current # NoRequest
           /\ state' = [state EXCEPT ![a] = "ECheckDatabase"]
           /\ status' = [status EXCEPT ![a] = "Inactive"]
           /\ gate' = [g EXCEPT !.flurry = Append(@, a)]
           /\ iForcedRecord' = [iForcedRecord EXCEPT ![a] = forced]
           /\ iDisputed' = disputed
           /\ UNCHANGED iAsyncRequests
  <2>1. gate' \in GateType /\ gate'.current = gate.current
    <3>1. Append(g.flurry, a) \in Seq(Subsessions)
      BY <1>1, AppendProperties DEF GateType
    <3>. QED
      BY <1>1, <1>5, <3>1 DEF GateType
  <2>2. DisputesOwned' /\ iDisputed' \subseteq RecordIds
    BY <1>4, <1>5 DEF LiveStates, LookupStates
  <2>3. OneDialog'
    BY <1>3, <1>5, <2>1 DEF OneDialog, TypeOK, DialogStates
  <2>4. TypeOK'
    BY <1>2, <1>5, <2>1, <2>2 DEF TypeOK, States, LiveStates, LookupStates
  <2>. QED
    BY <2>2, <2>3, <2>4
<1>6. CASE /\ g.current = NoRequest
           /\ Issue(a, "EPreparingDialog")
           /\ gate' = [g EXCEPT !.current = a]
           /\ iForcedRecord' = [iForcedRecord EXCEPT ![a] = forced]
           /\ iDisputed' = disputed
           /\ UNCHANGED iAsyncRequests
  <2>1. gate' \in GateType /\ gate'.current = a
    BY <1>1, <1>6 DEF GateType
  <2>2. DisputesOwned' /\ iDisputed' \subseteq RecordIds
    BY <1>4, <1>6 DEF Issue, LiveStates, DialogStates
  <2>3. OneDialog'
    BY <1>1, <1>6, <2>1, SessionAssumption DEF OneDialog, TypeOK, DialogStates, Issue
  <2>4. TypeOK'
    BY <1>2, <1>6, <2>1, <2>2 DEF TypeOK, States, LiveStates, DialogStates, Issue
  <2>. QED
    BY <2>2, <2>3, <2>4
<1>7. CASE NoDialogCreator(a)
  BY <1>7, NoDialogCreatorStep
<1>. QED
  BY <1>5, <1>6, <1>7 DEF GateKeeper, g

\* After a panic there is no dialog and no dispute.
LEMMA PanicStep ==
    ASSUME DialogInv, Panic, UNCHANGED <<dbVars, closing>>
    PROVE  DialogInv'
BY SessionAssumption, RecordAssumption
   DEF DialogInv, TypeOK, OneDialog, DisputesOwned, Panic, NewGate, GateType, dbVars,
       States, DialogStates, Live, LiveStates, LookupStates

LEMMA DialogInvInit == Init => DialogInv
BY SessionAssumption, RecordAssumption
   DEF Init, DialogInv, TypeOK, OneDialog, DisputesOwned, NewGate, GateType, EmptyDb,
       RecordIds, States, DialogStates, Live, LiveStates, LookupStates

\* One step per action of the server.
LEMMA DialogInvNext == DialogInv /\ [Next]_vars => DialogInv'
<1>. SUFFICES ASSUME DialogInv, [Next]_vars
              PROVE  DialogInv'
  OBVIOUS
<1>. USE DEF DialogInv
<1>t. /\ db \in [Keys -> RecordIds \cup {NoRecord}]
      /\ nextId \in 0 .. MaxRecordId + 1
      /\ closing \in Sessions \cup {NoSession}
      /\ iAsyncRequests \in Seq(Subsessions)
      /\ gate \in GateType
  BY DEF TypeOK
<1>g. \A a \in Subsessions :
        /\ RunGate(a) \in GateType /\ RunGate(a).current = gate.current
        /\ CancelGate(a) \in GateType /\ CancelGate(a).current = gate.current
  BY <1>t, RunGateType, CancelGateType
<1>1. ASSUME NEW a \in Subsessions, ExecutePrompt(a)
      PROVE  DialogInv'
  <2>1. \A b \in Subsessions : Live(b)' <=> b = a \/ Live(b)
    BY <1>1 DEF ExecutePrompt, Live, LiveStates, TypeOK
  <2>2. DisputesOwned'
    <3>1. iForcedRecord[a] = NoRecord
      BY <1>1 DEF ExecutePrompt, DisputesOwned, Live, LiveStates, LookupStates, DialogStates
    <3>. QED
      BY <1>1, <2>1, <3>1 DEF ExecutePrompt, DisputesOwned
  <2>3. OneDialog'
    BY <1>1 DEF ExecutePrompt, OneDialog, TypeOK, DialogStates
  <2>4. TypeOK'
    BY <1>1, AppendProperties DEF ExecutePrompt, TypeOK, States, LiveStates, dbVars
  <2>. QED
    BY <2>2, <2>3, <2>4
<1>2. ASSUME NEW a \in Subsessions, CheckPolicy(a)
      PROVE  DialogInv'
  <2>0. UNCHANGED <<db, nextId, closing>>
    BY <1>2 DEF CheckPolicy, dbVars
  <2>1. CASE Finish(a, RunGate(a))
    BY <1>t, <1>g, <2>0, <2>1, FinishStep
  <2>2. CASE /\ Issue(a, "ECreatingFingerprints")
             /\ gate' = RunGate(a)
             /\ UNCHANGED <<iForcedRecord, iDisputed, iAsyncRequests>>
    <3>1. \A b \in Subsessions : Live(b)' <=> Live(b)
      BY <1>2, <2>2 DEF CheckPolicy, Issue, Live, LiveStates, LookupStates, TypeOK
    <3>2. DisputesOwned'
      BY <2>2, <3>1 DEF DisputesOwned
    <3>3. OneDialog'
      BY <1>2, <1>g, <2>2 DEF CheckPolicy, Issue, OneDialog, DialogStates, TypeOK
    <3>4. TypeOK'
      BY <1>g, <2>0, <2>2 DEF Issue, TypeOK, States, LiveStates, LookupStates
    <3>. QED
      BY <3>2, <3>3, <3>4
  <2>. QED
    BY <1>2, <2>1, <2>2 DEF CheckPolicy
<1>3. ASSUME NEW a \in Subsessions, LookupFingerprints(a)
      PROVE  DialogInv'
  <2>1. PICK r \in LookupResults(a) :
          \/ r = NoRecord /\ GateKeeper(a, iForcedRecord[a], iDisputed)
          \/ r \in iDisputed /\ (Panic \/ NoDialogCreator(a))
          \/ /\ r # NoRecord /\ r \notin iDisputed
             /\ \/ Finish(a, RunGate(a))
                \/ GateKeeper(a, r, (iDisputed \ {iForcedRecord[a]}) \cup {r})
    BY <1>3 DEF LookupFingerprints
  <2>2. state[a] \in LookupStates /\ UNCHANGED <<dbVars, closing>>
    BY <1>3 DEF LookupFingerprints
  <2>3. r \in RecordIds \cup {NoRecord} /\ iForcedRecord[a] \in RecordIds \cup {NoRecord}
    BY LookupResultsType DEF TypeOK
  <2>4. CASE GateKeeper(a, iForcedRecord[a], iDisputed)
    BY <2>2, <2>3, <2>4, GateKeeperStep
  <2>5. CASE Finish(a, RunGate(a))
    BY <1>t, <1>g, <2>2, <2>5, FinishStep DEF dbVars
  <2>6. CASE /\ r # NoRecord /\ r \notin iDisputed
             /\ GateKeeper(a, r, (iDisputed \ {iForcedRecord[a]}) \cup {r})
    <3>1. r \in RecordIds \ iDisputed
      BY <2>3, <2>6
    <3>. QED
      BY <2>2, <2>3, <2>6, <3>1, GateKeeperStep
  <2>7. CASE Panic
    BY <2>2, <2>7, PanicStep
  <2>8. CASE NoDialogCreator(a)
    BY <2>2, <2>8, NoDialogCreatorStep
  <2>. QED
    BY <2>1, <2>4, <2>5, <2>6, <2>7, <2>8
<1>4. ASSUME NEW a \in Subsessions, ExecuteDialog(a)
      PROVE  DialogInv'
  <2>1. \A b \in Subsessions : Live(b)' <=> Live(b)
    BY <1>4 DEF ExecuteDialog, Issue, Live, LiveStates, DialogStates, TypeOK
  <2>2. DisputesOwned'
    BY <1>4, <2>1 DEF ExecuteDialog, DisputesOwned
  <2>3. OneDialog'
    BY <1>4, <1>g DEF ExecuteDialog, Issue, OneDialog, DialogStates, TypeOK
  <2>4. TypeOK'
    BY <1>4, <1>g DEF ExecuteDialog, Issue, TypeOK, States, LiveStates, DialogStates, dbVars
  <2>. QED
    BY <2>2, <2>3, <2>4
<1>5. ASSUME NEW a \in Subsessions, ProcessDialogResult(a)
      PROVE  DialogInv'
  <2>1. PICK d \in AfterRemoval(a) :
          \/ db' = d /\ UNCHANGED nextId
          \/ \E k \in ToSet(Fingerprints[a]) : StoreDecision(d, k)
    BY <1>5 DEF ProcessDialogResult
  <2>2. d \in [Keys -> RecordIds \cup {NoRecord}]
    BY AfterRemovalType
  <2>3. ToSet(Fingerprints[a]) \subseteq Keys
    BY RecordAssumption DEF ToSet
  <2>4. db' \in [Keys -> RecordIds \cup {NoRecord}] /\ nextId' \in 0 .. MaxRecordId + 1
    <3>1. CASE db' = d /\ UNCHANGED nextId
      BY <1>t, <2>2, <3>1
    <3>2. ASSUME NEW k \in Keys, StoreDecision(d, k)
          PROVE  db' \in [Keys -> RecordIds \cup {NoRecord}] /\ nextId' \in 0 .. MaxRecordId + 1
      BY <1>t, <2>2, <3>2, RecordAssumption DEF StoreDecision, RecordIds
    <3>. QED
      BY <2>1, <2>3, <3>1, <3>2
  <2>. QED
    BY <1>5, <1>t, <1>g, <2>4, FinishStep DEF ProcessDialogResult
<1>6. ASSUME NEW a \in Subsessions, RunError(a)
      PROVE  DialogInv'
  BY <1>6, <1>t, <1>g, FinishStep DEF RunError, dbVars
<1>7. ASSUME NEW a \in Subsessions, HandleDbError(a)
      PROVE  DialogInv'
  <2>1. db' \in [Keys -> RecordIds \cup {NoRecord}] /\ nextId' \in 0 .. MaxRecordId + 1
    BY <1>7, RecordAssumption DEF HandleDbError, EmptyDb
  <2>. QED
    BY <1>7, <1>t, <1>g, <2>1, FinishStep DEF HandleDbError
<1>8. ASSUME NEW a \in Subsessions, PluginComplete(a)
      PROVE  DialogInv'
  BY <1>8 DEF PluginComplete, TypeOK, OneDialog, DisputesOwned, Live, dbVars
<1>9. ASSUME NEW a \in Subsessions, CancelRequest(a)
      PROVE  DialogInv'
  BY <1>9, <1>t, <1>g, FinishStep DEF CancelRequest, dbVars
<1>10. ASSUME NEW s \in Sessions, CloseSession(s)
       PROVE  DialogInv'
  BY <1>10 DEF CloseSession, TypeOK, OneDialog, DisputesOwned, Live, dbVars
<1>11. CASE CancelOutstanding
  <2>1. CASE OfSession(closing) = {}
    BY <1>11, <2>1 DEF CancelOutstanding, TypeOK, OneDialog, DisputesOwned, Live, dbVars
  <2>2. CASE OfSession(closing) # {}
    <3> DEFINE I == OfSession(closing)
               i == CHOOSE x \in I : \A j \in I : j <= x
    <3>1. I \subseteq 1 .. Len(iAsyncRequests) /\ Len(iAsyncRequests) \in Nat
      BY <1>t DEF OfSession
    <3>2. \E x \in I : \A j \in I : j <= x
      BY <2>2, <3>1, LastElement
    <3>3. i \in 1 .. Len(iAsyncRequests)
      BY <3>1, <3>2
    <3>4. iAsyncRequests[i] \in Subsessions
      BY <1>t, <3>3
    <3>5. Finish(iAsyncRequests[i], CancelGate(iAsyncRequests[i])) /\ UNCHANGED <<dbVars, closing>>
      BY <1>11, <2>2 DEF CancelOutstanding
    <3>. QED
      BY <1>t, <1>g, <3>4, <3>5, FinishStep DEF dbVars
  <2>. QED
    BY <2>1, <2>2
<1>12. CASE RemoveCompletedRequests
  <2>1. \A b \in Subsessions :
          /\ Live(b)' <=> Live(b)
          /\ state'[b] \in DialogStates <=> state[b] \in DialogStates
    BY <1>12 DEF RemoveCompletedRequests, Live, LiveStates, LookupStates, DialogStates
  <2>. QED
    BY <1>12, <2>1 DEF RemoveCompletedRequests, TypeOK, OneDialog, DisputesOwned, dbVars, States
<1>13. ASSUME NEW k \in Keys, RemoveDecision(k)
       PROVE  DialogInv'
  BY <1>13 DEF RemoveDecision, TypeOK, OneDialog, DisputesOwned, Live
<1>14. CASE DeleteDatabase
  BY <1>14, RecordAssumption
     DEF DeleteDatabase, TypeOK, OneDialog, DisputesOwned, Live, EmptyDb
<1>15. CASE UNCHANGED vars
  BY <1>15 DEF vars, TypeOK, OneDialog, DisputesOwned, Live
<1>. QED
  BY <1>1, <1>2, <1>3, <1>4, <1>5, <1>6, <1>7, <1>8, <1>9, <1>10, <1>11, <1>12, <1>13,
     <1>14, <1>15 DEF Next, RunL

\* The invariant holds in every reachable state.
THEOREM DialogInvariant == Spec => []DialogInv
BY DialogInvInit, DialogInvNext, PTL DEF Spec

\* The variables of the server keep their types.
THEOREM TypeCorrect == Spec => []TypeOK
BY DialogInvariant, PTL DEF DialogInv

\* There is one dialog at a time, and iCurrentDialog always points to it and to
\* nothing else (GateKeeperL, AuthoriserDoneL).
THEOREM OneDialogHolds == Spec => []OneDialog
BY DialogInvariant, PTL DEF DialogInv

\* The disputed record ids are exactly those of the live authorisers that force
\* a prompt, each owned once (DisputeRecordIdL, UnDisputeRecordIdL, DoCleanup).
THEOREM DisputesOwnedHolds == Spec => []DisputesOwned
BY DialogInvariant, PTL DEF DialogInv
=============================================================================
