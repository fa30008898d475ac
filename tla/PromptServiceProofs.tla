------------------------- MODULE PromptServiceProofs -------------------------
(***************************************************************************)
(* Proofs that UpsAuthoriser keeps what PromptService promises, and of the *)
(* two properties of the decision table this rests on.  The hypotheses are *)
(* about DbEvents only: what a lookup that runs out of memory, a corrupt   *)
(* database or its deletion does to these properties is real (see the run  *)
(* UpsAuthoriser_idreuse), so each theorem names the events it excludes.   *)
(***************************************************************************)
EXTENDS UpsAuthoriserProofs

-----------------------------------------------------------------------------
(* The decision table and the forced prompts *)

\* The decisions stored have ids of their own, smaller than the counter's.
IdsUnique ==
    /\ \A k \in Keys : db[k] # NoRecord => db[k] < nextId
    /\ \A k, l \in Keys : db[k] = db[l] /\ db[k] # NoRecord => k = l

\* A forced prompt remembers the id of a decision that was stored.
ForcedIdsUsed ==
    \A a \in Subsessions : iForcedRecord[a] # NoRecord => iForcedRecord[a] < nextId

ForcedInv == IdsUnique /\ ForcedIdsUsed /\ ForcedRecordMatched

\* A lookup that finds a record has it from a key of the request.
LEMMA LookupResultsMatch ==
    ASSUME TypeOK, NEW a \in Subsessions, NEW r \in LookupResults(a), r # NoRecord
    PROVE  \E k \in ToSet(Fingerprints[a]) : k \in Keys /\ db[k] = r
<1> DEFINE F == Fingerprints[a]
<1>1. F \in Seq(Keys)
  BY RecordAssumption
<1>2. ASSUME NEW i \in Matches(a), r = db[F[i]]
      PROVE  \E k \in ToSet(F) : k \in Keys /\ db[k] = r
  BY <1>1, <1>2 DEF Matches, ToSet
<1>3. CASE r = FirstMatch(a)
  <2>1. Matches(a) # {} /\ Matches(a) \subseteq Nat
    BY <1>1, <1>3 DEF FirstMatch, Matches
  <2>2. \E i \in Matches(a) : \A j \in Matches(a) : i <= j
    BY <2>1, LeastElement
  <2>. QED
    BY <1>2, <1>3, <2>1, <2>2 DEF FirstMatch
<1>. QED
  BY <1>2, <1>3 DEF LookupResults

\* The table without some of its decisions
LEMMA AfterRemovalSubset ==
    ASSUME TypeOK, NEW a \in Subsessions, NEW d \in AfterRemoval(a)
    PROVE  /\ d \in [Keys -> RecordIds \cup {NoRecord}]
           /\ \A k \in Keys : \/ d[k] = db[k]
                              \/ d[k] = NoRecord /\ db[k] = iForcedRecord[a]
BY DEF AfterRemoval, RemoveRecord, TypeOK

\* A smaller or larger id than all others is new: what is stored under it is unique.
LEMMA StoreKeepsForced ==
    ASSUME TypeOK, ForcedInv, NEW a \in Subsessions, ProcessDialogResult(a)
    PROVE  ForcedInv'
<1>1. PICK d \in AfterRemoval(a) :
        \/ db' = d /\ UNCHANGED nextId
        \/ \E k \in ToSet(Fingerprints[a]) : StoreDecision(d, k)
  BY DEF ProcessDialogResult
<1>2. /\ d \in [Keys -> RecordIds \cup {NoRecord}]
      /\ \A k \in Keys : d[k] = db[k] \/ d[k] = NoRecord
  BY AfterRemovalSubset
<1>3. \A b \in Subsessions : iForcedRecord'[b] = IF b = a THEN NoRecord ELSE iForcedRecord[b]
  BY DEF ProcessDialogResult, Finish, TypeOK
<1>4. /\ nextId \in Nat
      /\ \A b \in Subsessions : iForcedRecord[b] # NoRecord => iForcedRecord[b] \in Nat
      /\ \A k \in Keys : d[k] # NoRecord => d[k] \in Nat
  BY <1>2, RecordAssumption DEF TypeOK, RecordIds
<1>5. CASE db' = d /\ UNCHANGED nextId
  BY <1>2, <1>3, <1>5 DEF ForcedInv, IdsUnique, ForcedIdsUsed, ForcedRecordMatched
<1>6. ASSUME NEW k \in ToSet(Fingerprints[a]), StoreDecision(d, k)
      PROVE  ForcedInv'
  <2>1. CASE db' = d /\ UNCHANGED nextId
    BY <1>2, <1>3, <2>1 DEF ForcedInv, IdsUnique, ForcedIdsUsed, ForcedRecordMatched
  <2>2. CASE d[k] = NoRecord /\ db' = [d EXCEPT ![k] = nextId] /\ nextId' = nextId + 1
    <3>1. k \in Keys
      BY RecordAssumption DEF ToSet
    <3>2. \A l \in Keys : db'[l] = IF l = k THEN nextId ELSE d[l]
      BY <1>2, <2>2, <3>1
    <3>3. \A l \in Keys : d[l] # NoRecord => d[l] < nextId
      BY <1>2 DEF ForcedInv, IdsUnique
    <3>4. \A l, m \in Keys : d[l] = d[m] /\ d[l] # NoRecord => l = m
      BY <1>2 DEF ForcedInv, IdsUnique
    <3>5. \A b \in Subsessions : iForcedRecord[b] # NoRecord => iForcedRecord[b] < nextId
      BY DEF ForcedInv, ForcedIdsUsed
    <3>6. IdsUnique'
      <4>1. \A l \in Keys : db'[l] # NoRecord => db'[l] < nextId'
        BY <1>4, <2>2, <3>2, <3>3
      <4>2. \A l, m \in Keys : db'[l] = db'[m] /\ db'[l] # NoRecord => l = m
        BY <1>4, <3>2, <3>3, <3>4
      <4>. QED
        BY <4>1, <4>2 DEF IdsUnique
    <3>7. ForcedIdsUsed'
      BY <1>3, <1>4, <2>2, <3>5 DEF ForcedIdsUsed
    <3>8. ForcedRecordMatched'
      <4>1. SUFFICES ASSUME NEW b \in Subsessions, NEW l \in Keys,
                            iForcedRecord'[b] # NoRecord, db'[l] = iForcedRecord'[b]
                     PROVE  l \in ToSet(Fingerprints[b])
        BY DEF ForcedRecordMatched
      <4>2. iForcedRecord'[b] = iForcedRecord[b] /\ iForcedRecord[b] < nextId
        BY <1>3, <3>5, <4>1
      <4>3. l # k
        BY <1>4, <3>2, <4>1, <4>2
      <4>. QED
        BY <1>2, <3>2, <4>1, <4>2, <4>3 DEF ForcedInv, ForcedRecordMatched
    <3>. QED
      BY <3>6, <3>7, <3>8 DEF ForcedInv
  <2>. QED
    BY <1>6, <2>1, <2>2 DEF StoreDecision
<1>. QED
  BY <1>1, <1>5, <1>6

\* A step that stores nothing and gives the forced prompts no other decision
LEMMA SmallerKeepsForced ==
    ASSUME TypeOK, ForcedInv, UNCHANGED nextId,
           \A k \in Keys : db'[k] = db[k] \/ db'[k] = NoRecord,
           \A b \in Subsessions : iForcedRecord'[b] \in {iForcedRecord[b], NoRecord}
    PROVE  ForcedInv'
BY DEF ForcedInv, IdsUnique, ForcedIdsUsed, ForcedRecordMatched

LEMMA FinishForced ==
    ASSUME TypeOK, NEW a, NEW g, Finish(a, g)
    PROVE  \A b \in Subsessions : iForcedRecord'[b] \in {iForcedRecord[b], NoRecord}
BY DEF Finish, TypeOK

LEMMA LookupKeepsForced ==
    ASSUME TypeOK, ForcedInv, NEW a \in Subsessions, LookupFingerprints(a)
    PROVE  ForcedInv'
<1>1. UNCHANGED <<db, nextId>>
  BY DEF LookupFingerprints, dbVars
<1>2. PICK r \in LookupResults(a) :
        \/ r = NoRecord /\ GateKeeper(a, iForcedRecord[a], iDisputed)
        \/ r \in iDisputed /\ (Panic \/ NoDialogCreator(a))
        \/ /\ r # NoRecord /\ r \notin iDisputed
           /\ \/ Finish(a, RunGate(a))
              \/ GateKeeper(a, r, (iDisputed \ {iForcedRecord[a]}) \cup {r})
  BY DEF LookupFingerprints
<1>3. CASE \A b \in Subsessions : iForcedRecord'[b] \in {iForcedRecord[b], NoRecord}
  BY <1>1, <1>3, SmallerKeepsForced
<1>4. CASE NoDialogCreator(a) \/ Finish(a, RunGate(a))
  BY <1>3, <1>4, FinishForced DEF NoDialogCreator
<1>5. CASE Panic
  BY <1>3, <1>5 DEF Panic
<1>6. CASE GateKeeper(a, iForcedRecord[a], iDisputed) /\ ~NoDialogCreator(a)
  BY <1>3, <1>6 DEF GateKeeper, TypeOK
<1>7. CASE r # NoRecord /\ GateKeeper(a, r, (iDisputed \ {iForcedRecord[a]}) \cup {r})
               /\ ~NoDialogCreator(a)
  <2>1. \A b \in Subsessions : iForcedRecord'[b] = IF b = a THEN r ELSE iForcedRecord[b]
    BY <1>7 DEF GateKeeper, TypeOK
  <2>2. PICK k \in ToSet(Fingerprints[a]) : k \in Keys /\ db[k] = r
    BY <1>7, LookupResultsMatch
  <2>. QED
    BY <1>1, <1>7, <2>1, <2>2 DEF ForcedInv, IdsUnique, ForcedIdsUsed, ForcedRecordMatched
<1>. QED
  BY <1>2, <1>4, <1>5, <1>6, <1>7

LEMMA ForcedInvNext ==
    ASSUME "KErrCorrupt" \notin DbEvents, "EDeleteDatabase" \notin DbEvents,
           TypeOK, ForcedInv, [Next]_vars
    PROVE  ForcedInv'
<1> DEFINE Smaller ==
        /\ UNCHANGED nextId
        /\ \A k \in Keys : db'[k] = db[k] \/ db'[k] = NoRecord
        /\ \A b \in Subsessions : iForcedRecord'[b] \in {iForcedRecord[b], NoRecord}
<1>k. ASSUME Smaller PROVE ForcedInv'
  BY <1>k, SmallerKeepsForced
<1> HIDE DEF Smaller
<1>1. ASSUME NEW a, NEW g, Finish(a, g), UNCHANGED dbVars
      PROVE  ForcedInv'
  <2>1. Smaller
    BY <1>1, FinishForced DEF Smaller, dbVars
  <2>. QED
    BY <1>k, <2>1
<1>2. CASE UNCHANGED <<db, nextId, iForcedRecord>>
  <2>1. Smaller
    BY <1>2 DEF Smaller
  <2>. QED
    BY <1>k, <2>1
<1>3. ASSUME NEW a \in Subsessions, RunL(a)
      PROVE  ForcedInv'
  <2>1. CASE CheckPolicy(a)
    BY <1>1, <1>2, <2>1 DEF CheckPolicy, dbVars
  <2>2. CASE LookupFingerprints(a)
    BY <2>2, LookupKeepsForced
  <2>3. CASE ExecuteDialog(a)
    BY <1>2, <2>3 DEF ExecuteDialog, dbVars
  <2>4. CASE ProcessDialogResult(a)
    BY <2>4, StoreKeepsForced
  <2>5. CASE RunError(a)
    BY <1>1, <2>5 DEF RunError
  <2>6. CASE HandleDbError(a)
    BY <2>6 DEF HandleDbError
  <2>. QED
    BY <1>3, <2>1, <2>2, <2>3, <2>4, <2>5, <2>6 DEF RunL
<1>4. CASE CancelOutstanding
  BY <1>1, <1>2, <1>4 DEF CancelOutstanding, dbVars
<1>5. ASSUME NEW k \in Keys, RemoveDecision(k)
      PROVE  ForcedInv'
  <2>1. Smaller
    BY <1>5 DEF RemoveDecision, Smaller, TypeOK
  <2>. QED
    BY <1>k, <2>1
<1>6. ASSUME NEW a \in Subsessions, ExecutePrompt(a) \/ PluginComplete(a)
      PROVE  ForcedInv'
  BY <1>2, <1>6 DEF ExecutePrompt, PluginComplete, dbVars
<1>7. ASSUME NEW a \in Subsessions, CancelRequest(a)
      PROVE  ForcedInv'
  BY <1>1, <1>7 DEF CancelRequest
<1>8. ASSUME NEW s \in Sessions, CloseSession(s)
      PROVE  ForcedInv'
  BY <1>2, <1>8 DEF CloseSession, dbVars
<1>9. CASE RemoveCompletedRequests
  BY <1>2, <1>9 DEF RemoveCompletedRequests, dbVars
<1>10. CASE DeleteDatabase
  BY <1>10 DEF DeleteDatabase
<1>11. CASE UNCHANGED vars
  BY <1>2, <1>11 DEF vars
<1>. QED
  BY <1>3, <1>4, <1>5, <1>6, <1>7, <1>8, <1>9, <1>10, <1>11 DEF Next

LEMMA ForcedInvInit == Init => ForcedInv
BY DEF Init, EmptyDb, ForcedInv, IdsUnique, ForcedIdsUsed, ForcedRecordMatched

LEMMA ForcedInvariant ==
    ASSUME "KErrCorrupt" \notin DbEvents, "EDeleteDatabase" \notin DbEvents
    PROVE  Spec => []ForcedInv
<1>1. TypeOK /\ ForcedInv /\ [Next]_vars => ForcedInv'
  BY ForcedInvNext
<1>. QED
  BY <1>1, ForcedInvInit, TypeCorrect, PTL DEF Spec

\* As long as the database is neither deleted nor found corrupt, the record whose id a
\* forced prompt remembers, if it still exists, is one the request has matched: ids are
\* not used again (ProcessDialogResultL).
THEOREM ForcedRecordMatchedHolds ==
    ASSUME "KErrCorrupt" \notin DbEvents, "EDeleteDatabase" \notin DbEvents
    PROVE  Spec => []ForcedRecordMatched
<1>1. ForcedInv => ForcedRecordMatched
  BY DEF ForcedInv
<1>. QED
  BY <1>1, ForcedInvariant, PTL

-----------------------------------------------------------------------------
(* No prompt for what is decided *)

\* Only the gate keeper starts to prepare a dialog.
LEMMA PreparesInLookup ==
    ASSUME TypeOK, [Next]_vars, NEW a \in Subsessions,
           state[a] # "EPreparingDialog", state'[a] = "EPreparingDialog"
    PROVE  LookupFingerprints(a)
<1>1. ASSUME NEW b, NEW g, Finish(b, g) PROVE FALSE
  BY <1>1 DEF Finish, TypeOK
<1>2. ASSUME NEW b \in Subsessions, RunL(b) PROVE LookupFingerprints(a)
  <2>1. CASE LookupFingerprints(b)
    <3>1. CASE b = a
      BY <2>1, <3>1
    <3>2. CASE b # a
      <4>1. PICK forced, disputed : GateKeeper(b, forced, disputed) \/ Panic
        BY <1>1, <2>1 DEF LookupFingerprints, NoDialogCreator
      <4>. QED
        BY <1>1, <3>2, <4>1 DEF GateKeeper, NoDialogCreator, Issue, Panic, TypeOK
    <3>. QED
      BY <3>1, <3>2
  <2>2. CASE CheckPolicy(b)
    BY <1>1, <2>2 DEF CheckPolicy, Issue, TypeOK
  <2>3. CASE ExecuteDialog(b)
    BY <2>3 DEF ExecuteDialog, Issue, TypeOK
  <2>4. CASE ProcessDialogResult(b) \/ RunError(b) \/ HandleDbError(b)
    BY <1>1, <2>4 DEF ProcessDialogResult, RunError, HandleDbError
  <2>. QED
    BY <1>2, <2>1, <2>2, <2>3, <2>4 DEF RunL
<1>3. ASSUME NEW b \in Subsessions, ExecutePrompt(b) \/ PluginComplete(b) \/ CancelRequest(b)
      PROVE  FALSE
  BY <1>1, <1>3 DEF ExecutePrompt, PluginComplete, CancelRequest, TypeOK
<1>4. CASE CancelOutstanding \/ RemoveCompletedRequests
  BY <1>1, <1>4 DEF CancelOutstanding, RemoveCompletedRequests
<1>5. CASE UNCHANGED state
  BY <1>5
<1>. QED
  BY <1>2, <1>3, <1>4, <1>5 DEF Next, CloseSession, RemoveDecision, DeleteDatabase, vars

\* A dialog is prepared only for a request that no stored decision answers, unless its
\* evaluator has forced the prompt on that decision.  A lookup that runs out of memory is
\* taken for one without a match (LookupFingerprintsL) and may prompt again.
THEOREM NoRedundantPromptHolds ==
    ASSUME "KErrNoMemory" \notin DbEvents
    PROVE  Spec => NoRedundantPrompt
<1> DEFINE A == \A a \in Subsessions :
                   state[a] # "EPreparingDialog" /\ state'[a] = "EPreparingDialog"
                      => FirstMatch(a) \in {NoRecord, iForcedRecord'[a]}
<1>1. TypeOK /\ [Next]_vars => A
  <2> SUFFICES ASSUME TypeOK, [Next]_vars, NEW a \in Subsessions,
                      state[a] # "EPreparingDialog", state'[a] = "EPreparingDialog"
               PROVE  FirstMatch(a) \in {NoRecord, iForcedRecord'[a]}
    OBVIOUS
  <2>1. LookupFingerprints(a)
    BY PreparesInLookup
  <2>2. LookupResults(a) = {FirstMatch(a)}
    BY DEF LookupResults
  <2>3. ASSUME NEW g, Finish(a, g) PROVE FALSE
    BY <2>3 DEF Finish, TypeOK
  <2>4. ~NoDialogCreator(a)
    BY <2>3 DEF NoDialogCreator
  <2>5. ~Panic
    BY DEF Panic
  <2>6. \/ FirstMatch(a) = NoRecord
        \/ GateKeeper(a, FirstMatch(a), (iDisputed \ {iForcedRecord[a]}) \cup {FirstMatch(a)})
    BY <2>1, <2>2, <2>3, <2>4, <2>5 DEF LookupFingerprints
  <2>. QED
    BY <2>4, <2>6 DEF GateKeeper, TypeOK
<1>2. Spec => [][Next]_vars
  BY PTL DEF Spec
<1>. QED
  BY <1>1, <1>2, TypeCorrect, PTL DEF NoRedundantPrompt

-----------------------------------------------------------------------------
(* The server implements the abstract prompt service *)

Phases  == [a \in Subsessions |-> Phase(a)]
Decided == {k \in Keys : db[k] # NoRecord}

LEMMA PhaseOf ==
    ASSUME TypeOK, NEW a \in Subsessions
    PROVE  /\ Phase(a) = "idle" <=> ~Live(a)
           /\ Phase(a) = "prompting" <=> state[a] \in DialogStates
           /\ Phase(a) \in {"idle", "asked", "prompting"}
BY DEF Phase, Live, LiveStates, LookupStates, DialogStates

\* An end of an authoriser is the end of the request of the service, or goes unnoticed.
LEMMA FinishEnds ==
    ASSUME TypeOK, NEW a \in Subsessions, NEW g, Finish(a, g),
           \/ UNCHANGED db
           \/ /\ state[a] \in DialogStates
              /\ db' \in [Keys -> RecordIds \cup {NoRecord}]
              /\ \A k \in Keys : k \notin ToSet(Fingerprints[a]) => db'[k] = db[k]
    PROVE  Service!Next \/ UNCHANGED Service!vars
<1>1. \A b \in Subsessions : Phase(b)' = IF b = a THEN "idle" ELSE Phase(b)
  BY DEF Finish, TypeOK, Phase, Live, LiveStates, LookupStates, DialogStates
<1>2. CASE Phase(a) = "idle"
  <2>1. UNCHANGED db
    BY <1>2, PhaseOf DEF DialogStates, Phase
  <2>2. UNCHANGED Phases /\ UNCHANGED Decided
    BY <1>1, <1>2, <2>1 DEF Phases, Decided
  <2>. QED
    BY <2>2 DEF Service!vars, Phases, Decided
<1>3. CASE Phase(a) # "idle"
  <2>1. Phases' = [Phases EXCEPT ![a] = "idle"] /\ Phases[a] = Phase(a)
    BY <1>1 DEF Phases
  <2>2. \/ UNCHANGED Decided
        \/ /\ Phases[a] = "prompting" /\ Decided' \in SUBSET Keys
           /\ Decided' \ ToSet(Fingerprints[a]) = Decided \ ToSet(Fingerprints[a])
    <3>1. CASE UNCHANGED db
      BY <3>1 DEF Decided
    <3>2. CASE /\ state[a] \in DialogStates
               /\ \A k \in Keys : k \notin ToSet(Fingerprints[a]) => db'[k] = db[k]
      BY <2>1, <3>2 DEF Decided, Phase
    <3>. QED
      BY <3>1, <3>2
  <2>3. Service!End(a)
    BY <1>3, <2>1, <2>2 DEF Service!End, Phases, Decided
  <2>. QED
    BY <2>3 DEF Service!Next
<1>. QED
  BY <1>2, <1>3

\* A dialog that is prepared is a prompt of the service: nobody else has one.
LEMMA PrepareIsPrompt ==
    ASSUME DialogInv, NEW a \in Subsessions, state[a] \in LookupStates,
           gate.current = NoRequest, Issue(a, "EPreparingDialog"), UNCHANGED db
    PROVE  Service!Next
<1>1. \A b \in Subsessions : Phase(b)' = IF b = a THEN "prompting" ELSE Phase(b)
  BY DEF DialogInv, Issue, TypeOK, Phase, Live, LiveStates, LookupStates, DialogStates
<1>2. Phases' = [Phases EXCEPT ![a] = "prompting"]
  BY <1>1 DEF Phases
<1>3. Phases[a] = "asked"
  BY DEF Phases, Phase, Live, LiveStates, LookupStates, DialogStates
<1>4. \A b \in Subsessions : Phases[b] # "prompting"
  <2>1. \A b \in Subsessions : state[b] \notin DialogStates
    BY SessionAssumption DEF DialogInv, OneDialog
  <2>. QED
    BY <2>1, PhaseOf DEF DialogInv, Phases
<1>5. UNCHANGED Decided
  BY DEF Decided
<1>6. Service!Prompt(a)
  BY <1>2, <1>3, <1>4, <1>5 DEF Service!Prompt, Phases, Decided
<1>. QED
  BY <1>6 DEF Service!Next

LEMMA PhaseKept ==
    ASSUME \A b \in Subsessions : Phase(b)' = Phase(b), UNCHANGED db
    PROVE  UNCHANGED Service!vars
<1>1. UNCHANGED Phases /\ UNCHANGED Decided
  BY DEF Phases, Decided
<1>. QED
  BY <1>1 DEF Service!vars, Phases, Decided

LEMMA PanicDies ==
    ASSUME Panic, UNCHANGED db
    PROVE  Service!Next
<1>1. Phases' = [b \in Subsessions |-> "idle"] /\ UNCHANGED Decided
  BY DEF Panic, Phases, Decided, Phase, Live, LiveStates, LookupStates, DialogStates
<1>2. Service!Die
  BY <1>1 DEF Service!Die, Phases, Decided
<1>. QED
  BY <1>2 DEF Service!Next

LEMMA LookupImplements ==
    ASSUME DialogInv, NEW a \in Subsessions, LookupFingerprints(a)
    PROVE  Service!Next \/ UNCHANGED Service!vars
<1>1. TypeOK /\ state[a] \in LookupStates /\ UNCHANGED db
  BY DEF DialogInv, LookupFingerprints, dbVars
<1>2. ASSUME NEW g, Finish(a, g) PROVE Service!Next \/ UNCHANGED Service!vars
  BY <1>1, <1>2, FinishEnds
<1>3. CASE NoDialogCreator(a)
  BY <1>2, <1>3 DEF NoDialogCreator
<1>4. CASE Panic
  BY <1>1, <1>4, PanicDies
<1>5. ASSUME NEW forced, NEW disputed, GateKeeper(a, forced, disputed)
      PROVE  Service!Next \/ UNCHANGED Service!vars
  <2>1. RunGate(a).current = gate.current
    BY <1>1, RunGateType DEF TypeOK
  <2>2. CASE state' = [state EXCEPT ![a] = "ECheckDatabase"]
    <3>1. \A b \in Subsessions : Phase(b)' = Phase(b)
      BY <1>1, <2>2 DEF TypeOK, Phase, Live, LiveStates, LookupStates, DialogStates
    <3>. QED
      BY <1>1, <3>1, PhaseKept
  <2>3. CASE RunGate(a).current = NoRequest /\ Issue(a, "EPreparingDialog")
    BY <1>1, <2>1, <2>3, PrepareIsPrompt
  <2>. QED
    BY <1>3, <1>5, <2>2, <2>3 DEF GateKeeper
<1>. QED
  BY <1>2, <1>3, <1>4, <1>5 DEF LookupFingerprints

\* The answer of a forced prompt replaces a decision of the request, by one of its own.
LEMMA ProcessImplements ==
    ASSUME DialogInv, ForcedInv, NEW a \in Subsessions, ProcessDialogResult(a)
    PROVE  Service!Next \/ UNCHANGED Service!vars
<1>1. PICK d \in AfterRemoval(a) :
        \/ db' = d /\ UNCHANGED nextId
        \/ \E k \in ToSet(Fingerprints[a]) : StoreDecision(d, k)
  BY DEF ProcessDialogResult
<1>2. /\ d \in [Keys -> RecordIds \cup {NoRecord}]
      /\ \A k \in Keys : \/ d[k] = db[k]
                         \/ d[k] = NoRecord /\ db[k] = iForcedRecord[a]
  BY AfterRemovalSubset DEF DialogInv
<1>3. \A k \in Keys : k \notin ToSet(Fingerprints[a]) => d[k] = db[k]
  <2>1. TAKE k \in Keys
  <2>2. HAVE k \notin ToSet(Fingerprints[a])
  <2>3. CASE d[k] = NoRecord /\ db[k] = iForcedRecord[a]
    <3>1. iForcedRecord[a] = NoRecord
      BY <2>2, <2>3 DEF ForcedInv, ForcedRecordMatched
    <3>. QED
      BY <2>3, <3>1
  <2>. QED
    BY <1>2, <2>3
<1>4. /\ db' \in [Keys -> RecordIds \cup {NoRecord}]
      /\ \A k \in Keys : k \notin ToSet(Fingerprints[a]) => db'[k] = d[k]
  <2>1. CASE db' = d
    BY <1>2, <2>1
  <2>2. ASSUME NEW k \in ToSet(Fingerprints[a]), db' = [d EXCEPT ![k] = nextId],
               nextId <= MaxRecordId
        PROVE  /\ db' \in [Keys -> RecordIds \cup {NoRecord}]
               /\ \A l \in Keys : l \notin ToSet(Fingerprints[a]) => db'[l] = d[l]
    <3>1. k \in Keys /\ nextId \in RecordIds
      BY <2>2, RecordAssumption DEF ToSet, DialogInv, TypeOK, RecordIds
    <3>. QED
      BY <1>2, <2>2, <3>1
  <2>. QED
    BY <1>1, <2>1, <2>2 DEF StoreDecision
<1>5. state[a] \in DialogStates /\ Finish(a, RunGate(a))
  BY DEF ProcessDialogResult, DialogStates
<1>. QED
  BY <1>3, <1>4, <1>5, FinishEnds DEF DialogInv

LEMMA NextImplements ==
    ASSUME "KErrCorrupt" \notin DbEvents, "EDeleteDatabase" \notin DbEvents,
           DialogInv, ForcedInv, [Next]_vars
    PROVE  Service!Next \/ UNCHANGED Service!vars
<1>0. TypeOK
  BY DEF DialogInv
<1>1. ASSUME NEW a \in Subsessions, NEW g, Finish(a, g), UNCHANGED db
      PROVE  Service!Next \/ UNCHANGED Service!vars
  BY <1>0, <1>1, FinishEnds
<1>2. CASE UNCHANGED <<state, db>>
  <2>1. \A b \in Subsessions : Phase(b)' = Phase(b)
    BY <1>2 DEF Phase, Live
  <2>. QED
    BY <1>2, <2>1, PhaseKept
<1>3. ASSUME NEW a \in Subsessions, ExecutePrompt(a)
      PROVE  Service!Next
  <2>1. Phases' = [Phases EXCEPT ![a] = "asked"]
    <3>1. \A b \in Subsessions : Phase(b)' = IF b = a THEN "asked" ELSE Phase(b)
      BY <1>0, <1>3 DEF ExecutePrompt, TypeOK, Phase, Live, LiveStates, LookupStates, DialogStates
    <3>. QED
      BY <3>1 DEF Phases
  <2>2. Phases[a] = "idle" /\ UNCHANGED Decided
    BY <1>3 DEF ExecutePrompt, dbVars, Phases, Decided, Phase, Live, LiveStates, LookupStates,
                DialogStates
  <2>3. Service!Ask(a)
    BY <2>1, <2>2 DEF Service!Ask, Phases, Decided
  <2>. QED
    BY <2>3 DEF Service!Next
<1>4. ASSUME NEW a \in Subsessions, RunL(a)
      PROVE  Service!Next \/ UNCHANGED Service!vars
  <2>1. CASE CheckPolicy(a)
    <3>1. CASE Finish(a, RunGate(a))
      BY <1>1, <2>1, <3>1 DEF CheckPolicy, dbVars
    <3>2. CASE Issue(a, "ECreatingFingerprints")
      <4>1. \A b \in Subsessions : Phase(b)' = Phase(b)
        BY <1>0, <2>1, <3>2
           DEF CheckPolicy, Issue, TypeOK, Phase, Live, LiveStates, LookupStates, DialogStates
      <4>. QED
        BY <2>1, <4>1, PhaseKept DEF CheckPolicy, dbVars
    <3>. QED
      BY <2>1, <3>1, <3>2 DEF CheckPolicy
  <2>2. CASE LookupFingerprints(a)
    BY <2>2, LookupImplements
  <2>3. CASE ExecuteDialog(a)
    <3>1. \A b \in Subsessions : Phase(b)' = Phase(b)
      BY <1>0, <2>3 DEF ExecuteDialog, Issue, TypeOK, Phase, Live, LiveStates, DialogStates
    <3>. QED
      BY <2>3, <3>1, PhaseKept DEF ExecuteDialog, dbVars
  <2>4. CASE ProcessDialogResult(a)
    BY <2>4, ProcessImplements
  <2>5. CASE RunError(a)
    BY <1>1, <2>5 DEF RunError, dbVars
  <2>6. CASE HandleDbError(a)
    BY <2>6 DEF HandleDbError
  <2>. QED
    BY <1>4, <2>1, <2>2, <2>3, <2>4, <2>5, <2>6 DEF RunL
<1>5. ASSUME NEW a \in Subsessions, CancelRequest(a)
      PROVE  Service!Next \/ UNCHANGED Service!vars
  BY <1>1, <1>5 DEF CancelRequest, dbVars
<1>6. CASE CancelOutstanding
  <2>1. CASE OfSession(closing) = {}
    BY <1>2, <1>6, <2>1 DEF CancelOutstanding, dbVars
  <2>2. CASE OfSession(closing) # {}
    <3> DEFINE I == OfSession(closing)
               i == CHOOSE x \in I : \A j \in I : j <= x
    <3>0. iAsyncRequests \in Seq(Subsessions)
      BY <1>0 DEF TypeOK
    <3>1. I \subseteq 1 .. Len(iAsyncRequests) /\ Len(iAsyncRequests) \in Nat
      BY <3>0 DEF OfSession
    <3>2. \E x \in I : \A j \in I : j <= x
      BY <2>2, <3>1, LastElement
    <3>3. iAsyncRequests[i] \in Subsessions
      BY <3>0, <3>1, <3>2
    <3>4. Finish(iAsyncRequests[i], CancelGate(iAsyncRequests[i])) /\ UNCHANGED db
      BY <1>6, <2>2 DEF CancelOutstanding, dbVars
    <3>. QED
      BY <1>1, <3>3, <3>4
  <2>. QED
    BY <2>1, <2>2
<1>7. CASE RemoveCompletedRequests
  <2>1. \A b \in Subsessions : Phase(b)' = Phase(b)
    BY <1>7 DEF RemoveCompletedRequests, Phase, Live, LiveStates, LookupStates, DialogStates
  <2>. QED
    BY <1>7, <2>1, PhaseKept DEF RemoveCompletedRequests, dbVars
<1>8. ASSUME NEW k \in Keys, RemoveDecision(k)
      PROVE  Service!Next
  <2>1. UNCHANGED Phases
    BY <1>8 DEF RemoveDecision, Phases, Phase, Live
  <2>2. Decided' = Decided \ {k}
    BY <1>0, <1>8 DEF RemoveDecision, Decided, TypeOK
  <2>3. Service!Forget(k)
    BY <2>1, <2>2 DEF Service!Forget, Phases, Decided
  <2>. QED
    BY <2>3 DEF Service!Next
<1>9. CASE DeleteDatabase
  BY <1>9 DEF DeleteDatabase
<1>. QED
  BY <1>2, <1>3, <1>4, <1>5, <1>6, <1>7, <1>8, <1>9
     DEF Next, PluginComplete, CloseSession, dbVars, vars

LEMMA InitImplements == Init => Service!Init
BY DEF Init, Service!Init, EmptyDb, Phase, Live, LiveStates, LookupStates, DialogStates

\* The server implements the abstract prompt service, as long as its database is neither
\* deleted nor found corrupt: behind the queues, the wake-ups and the disputes there is one
\* prompt at a time, and decisions change only with the request they apply to.
THEOREM ServiceImplemented ==
    ASSUME "KErrCorrupt" \notin DbEvents, "EDeleteDatabase" \notin DbEvents
    PROVE  Spec => ImplementsService
<1>1. DialogInv /\ ForcedInv /\ [Next]_vars => [Service!Next]_(Service!vars)
  BY NextImplements
<1>2. Spec => [][Next]_vars /\ Init
  BY PTL DEF Spec
<1>. QED
  BY <1>1, <1>2, InitImplements, DialogInvariant, ForcedInvariant, PTL
     DEF ImplementsService, Service!Spec

=============================================================================
