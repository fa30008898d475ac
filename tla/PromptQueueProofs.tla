-------------------------- MODULE PromptQueueProofs --------------------------
(***************************************************************************)
(* Proofs about the queues of UpsAuthoriser's dialog gate, for any number  *)
(* of subsessions and sessions and whatever the database does: a request   *)
(* is queued exactly while it waits to be evaluated again, and none is     *)
(* left behind.                                                            *)
(***************************************************************************)
EXTENDS UpsAuthoriserProofs

-----------------------------------------------------------------------------
(* The gate *)

Queued(g, x) == Contains(g.woken, x) \/ Contains(g.being, x) \/ Contains(g.flurry, x)

\* No request is in the queues twice.
Once(g) ==
    /\ Unrepeated(g.woken) /\ Unrepeated(g.being) /\ Unrepeated(g.flurry)
    /\ \A x : /\ ~(Contains(g.woken, x) /\ Contains(g.being, x))
              /\ ~(Contains(g.woken, x) /\ Contains(g.flurry, x))
              /\ ~(Contains(g.being, x) /\ Contains(g.flurry, x))

\* NoStrandedRequest, of any gate
Attended(g) ==
    /\ g.flurry # <<>> => g.current # NoRequest
    /\ g.being # <<>> => g.woken # <<>>

\* WakeupNextPendingL moves a request from one queue to another.
LEMMA WakeupNextPendingQueues ==
    ASSUME NEW g \in GateType, Once(g)
    PROVE  /\ Once(WakeupNextPending(g))
           /\ \A x : /\ Queued(WakeupNextPending(g), x) <=> Queued(g, x)
                     /\ Contains(g.woken, x) => Contains(WakeupNextPending(g).woken, x)
                     /\ Contains(WakeupNextPending(g).woken, x) =>
                           Contains(g.woken, x) \/ Contains(g.being, x)
           /\ WakeupNextPending(g).flurry = g.flurry
           /\ WakeupNextPending(g).being # <<>> => WakeupNextPending(g).woken # <<>>
           /\ g.being = <<>> => WakeupNextPending(g) = g
           /\ g.being # <<>> => Len(WakeupNextPending(g).woken) = Len(g.woken) + 1
<1>1. CASE g.being = <<>>
  BY <1>1 DEF WakeupNextPending
<1>2. CASE g.being # <<>>
  <2> DEFINE w == WakeupNextPending(g)
             h == Head(g.being)
  <2>0. g.being \in Seq(Subsessions) /\ g.woken \in Seq(Subsessions)
    BY DEF GateType
  <2>1. /\ w.being = Tail(g.being) /\ w.woken = Append(g.woken, h)
        /\ w.flurry = g.flurry
    BY <1>2 DEF WakeupNextPending, GateType
  <2>2. /\ Unrepeated(w.being)
        /\ \A x : Contains(w.being, x) <=> Contains(g.being, x) /\ x # h
        /\ Contains(g.being, h) /\ h \in Subsessions
    BY <1>2, <2>0, <2>1, TailUnrepeated, HeadTailProperties DEF Once
  <2> HIDE DEF h, w
  <2>3. ~Contains(g.woken, h)
    BY <2>2 DEF Once
  <2>4. /\ Unrepeated(w.woken)
        /\ \A x : Contains(w.woken, x) <=> Contains(g.woken, x) \/ x = h
        /\ w.woken # <<>> /\ Len(w.woken) = Len(g.woken) + 1
    BY <2>0, <2>1, <2>2, <2>3, AppendUnrepeated, AppendProperties DEF Once
  <2>5. Once(w)
    BY <2>1, <2>2, <2>4 DEF Once
  <2>6. \A x : Queued(w, x) <=> Queued(g, x)
    BY <2>1, <2>2, <2>4 DEF Queued
  <2>. QED
    BY <1>2, <2>1, <2>2, <2>4, <2>5, <2>6 DEF w
<1>. QED
  BY <1>1, <1>2

\* CAuthoriserFifo::RemoveL on both FIFOs
LEMMA ForgetQueues ==
    ASSUME NEW g \in GateType, NEW a, Once(g)
    PROVE  /\ Once(Forget(g, a))
           /\ \A x : /\ Contains(Forget(g, a).being, x) <=> Contains(g.being, x) /\ x # a
                     /\ Contains(Forget(g, a).flurry, x) <=> Contains(g.flurry, x) /\ x # a
           /\ Forget(g, a).woken = g.woken
           /\ g.flurry = <<>> => Forget(g, a).flurry = <<>>
           /\ g.being = <<>> => Forget(g, a).being = <<>>
<1> DEFINE f == Forget(g, a)
<1>1. /\ f.flurry = RemoveFirst(g.flurry, a) /\ f.being = RemoveFirst(g.being, a)
      /\ f.woken = g.woken
      /\ g.flurry \in Seq(Subsessions) /\ g.being \in Seq(Subsessions)
  BY DEF Forget, GateType
<1> HIDE DEF f
<1>2. /\ Unrepeated(f.flurry) /\ Unrepeated(f.being)
      /\ \A x : /\ Contains(f.being, x) <=> Contains(g.being, x) /\ x # a
                /\ Contains(f.flurry, x) <=> Contains(g.flurry, x) /\ x # a
  BY <1>1, RemoveFirstUnrepeated DEF Once
<1>3. Once(f)
  BY <1>1, <1>2 DEF Once
<1>4. /\ g.flurry = <<>> => f.flurry = <<>>
      /\ g.being = <<>> => f.being = <<>>
  BY <1>1 DEF RemoveFirst
<1>. QED
  BY <1>1, <1>2, <1>3, <1>4 DEF f

\* AuthoriserDoneL takes a request off the queues.  The dialog may go to the next only
\* when it is not given up while others wait for it and some are being evaluated.
LEMMA AuthoriserDoneQueues ==
    ASSUME NEW g \in GateType, NEW a \in Subsessions, Once(g), ~Contains(g.woken, a)
    PROVE  /\ Once(AuthoriserDone(g, a))
           /\ \A x : Queued(AuthoriserDone(g, a), x) <=> Queued(g, x) /\ x # a
           /\ Attended(g) /\ (g.current = a => g.being = <<>> \/ g.flurry = <<>>) =>
                 Attended(AuthoriserDone(g, a))
           /\ g.current # a => AuthoriserDone(g, a).woken = g.woken
<1> DEFINE f == Forget(g, a)
           d == AuthoriserDone(g, a)
<1>1. f \in GateType /\ f.current = g.current
  BY ForgetType
<1>2. /\ Once(f)
      /\ \A x : /\ Contains(f.being, x) <=> Contains(g.being, x) /\ x # a
                /\ Contains(f.flurry, x) <=> Contains(g.flurry, x) /\ x # a
      /\ f.woken = g.woken
      /\ g.flurry = <<>> => f.flurry = <<>>
      /\ g.being = <<>> => f.being = <<>>
  BY ForgetQueues
<1> HIDE DEF f
<1>3. \A x : Queued(f, x) <=> Queued(g, x) /\ x # a
  BY <1>2 DEF Queued
<1>4. CASE g.current # a
  <2>1. d = f
    BY <1>4 DEF AuthoriserDone, f
  <2> HIDE DEF d
  <2>2. Attended(g) => Attended(d)
    BY <1>1, <1>2, <2>1 DEF Attended
  <2>. QED
    BY <1>2, <1>3, <1>4, <2>1, <2>2 DEF d
<1>5. CASE g.current = a
  <2> DEFINE h == [f EXCEPT !.current = NoRequest]
             w == SwapIfDrained(h)
  <2>1. /\ h \in GateType /\ h.woken = f.woken /\ h.being = f.being /\ h.flurry = f.flurry
        /\ h.current = NoRequest
    BY <1>1 DEF GateType
  <2>2. d = WakeupNextPending(w)
    BY <1>5 DEF AuthoriserDone, f
  <2> HIDE DEF h, d
  <2>3. /\ w \in GateType /\ w.woken = f.woken /\ w.current = NoRequest
        /\ \/ w.being = f.flurry /\ w.flurry = f.being /\ f.being = <<>>
           \/ w.being = f.being /\ w.flurry = f.flurry /\ f.being # <<>>
    BY <2>1 DEF SwapIfDrained, GateType
  <2> HIDE DEF w
  <2>4. Once(w) /\ \A x : Queued(w, x) <=> Queued(f, x)
    BY <1>2, <2>3 DEF Once, Queued
  <2>5. /\ Once(d) /\ \A x : Queued(d, x) <=> Queued(w, x)
        /\ d.flurry = w.flurry
        /\ d.being # <<>> => d.woken # <<>>
    BY <2>2, <2>3, <2>4, WakeupNextPendingQueues
  <2>6. g.being = <<>> \/ g.flurry = <<>> => Attended(d)
    BY <1>2, <2>3, <2>5 DEF Attended
  <2>. QED
    BY <1>3, <1>5, <2>4, <2>5, <2>6 DEF d
<1>. QED
  BY <1>4, <1>5

-----------------------------------------------------------------------------
(* The invariant *)

\* Queued exactly while waiting to be evaluated again, and then inactive.
QueuedWaiting ==
    \A a \in Subsessions :
        /\ Queued(gate, a) <=> state[a] = "ECheckDatabase"
        /\ Queued(gate, a) => status[a] = "Inactive"

\* While a session is being closed the gate is not passed: a dialog that is in progress
\* then was so before, when nobody was being evaluated again.
ClosingQuiet == closing # NoSession /\ gate.current # NoRequest => gate.woken = <<>>

QueueInv == Once(gate) /\ QueuedWaiting /\ Attended(gate) /\ ClosingQuiet

\* A request that has the scheduler and is not the one woken first is not queued, ...
LEMMA RunGateQueues ==
    ASSUME DialogInv, QueueInv, NEW a \in Subsessions, CanRun(a)
    PROVE  /\ Once(RunGate(a))
           /\ \A x \in Subsessions : Queued(RunGate(a), x) <=> Queued(gate, x) /\ x # a
           /\ ~Contains(RunGate(a).woken, a)
           /\ Attended(RunGate(a))
           /\ state[a] \in DialogStates =>
                 RunGate(a).being = <<>> /\ RunGate(a).woken = <<>>
<1> DEFINE h == [gate EXCEPT !.woken = IF @ = <<>> THEN @ ELSE Tail(@)]
           g == RunGate(a)
<1>1. gate \in GateType /\ gate.woken \in Seq(Subsessions)
  BY DEF DialogInv, TypeOK, GateType
<1>2. /\ h \in GateType /\ h.being = gate.being /\ h.flurry = gate.flurry
      /\ h.current = gate.current
      /\ h.woken = IF gate.woken = <<>> THEN <<>> ELSE Tail(gate.woken)
  BY <1>1, HeadTailProperties DEF GateType
<1>3. g = WakeupNextPending(h)
  BY DEF RunGate
<1> HIDE DEF h, g
<1>4. /\ Unrepeated(h.woken)
      /\ \A x \in Subsessions : Contains(h.woken, x) <=> Contains(gate.woken, x) /\ x # a
      /\ \A x : Contains(h.woken, x) => Contains(gate.woken, x)
      /\ ~Contains(gate.being, a) /\ ~Contains(gate.flurry, a) /\ ~Contains(h.woken, a)
  <2>1. CASE gate.woken = <<>>
    <3>1. ~Queued(gate, a)
      BY <2>1 DEF CanRun, QueueInv, QueuedWaiting
    <3>. QED
      BY <1>2, <2>1, <3>1, EmptyUnrepeated DEF Queued
  <2>2. CASE gate.woken # <<>>
    <3>1. a = Head(gate.woken)
      BY <2>2 DEF CanRun
    <3>2. /\ Unrepeated(Tail(gate.woken))
          /\ \A x : Contains(Tail(gate.woken), x) <=> Contains(gate.woken, x) /\ x # a
          /\ Contains(gate.woken, a)
      BY <1>1, <2>2, <3>1, TailUnrepeated DEF QueueInv, Once
    <3>3. ~Contains(gate.being, a) /\ ~Contains(gate.flurry, a)
      BY <3>2 DEF QueueInv, Once
    <3>. QED
      BY <1>2, <2>2, <3>2, <3>3
  <2>. QED
    BY <2>1, <2>2
<1>5. Once(h)
  BY <1>2, <1>4 DEF QueueInv, Once
<1>6. /\ Once(g)
      /\ \A x : /\ Queued(g, x) <=> Queued(h, x)
                /\ Contains(g.woken, x) => Contains(h.woken, x) \/ Contains(h.being, x)
      /\ g.flurry = h.flurry
      /\ g.being # <<>> => g.woken # <<>>
      /\ h.being = <<>> => g = h
  BY <1>2, <1>3, <1>5, WakeupNextPendingQueues
<1>7. \A x \in Subsessions : Queued(g, x) <=> Queued(gate, x) /\ x # a
  BY <1>2, <1>4, <1>6 DEF Queued
<1>8. g.current = gate.current
  BY <1>1, RunGateType DEF g
<1>9. Attended(g)
  BY <1>2, <1>6, <1>8 DEF QueueInv, Attended
<1>10. state[a] \in DialogStates => g.being = <<>> /\ g.woken = <<>>
  <2>1. SUFFICES ASSUME state[a] \in DialogStates PROVE g.being = <<>> /\ g.woken = <<>>
    OBVIOUS
  <2>2. gate.woken = <<>>
    <3>1. SUFFICES ASSUME gate.woken # <<>> PROVE FALSE
      OBVIOUS
    <3>2. Contains(gate.woken, a)
      BY <1>1, <3>1, TailUnrepeated DEF CanRun, QueueInv, Once
    <3>. QED
      BY <2>1, <3>2 DEF QueueInv, QueuedWaiting, Queued, DialogStates
  <2>. QED
    BY <1>2, <1>6, <2>2 DEF QueueInv, Attended
<1>. QED
  BY <1>2, <1>4, <1>6, <1>7, <1>9, <1>10 DEF g

\* ... and nobody's end leaves the request behind that he would have woken.
LEMMA CancelGateQueues ==
    ASSUME DialogInv, QueueInv, NEW a \in Subsessions
    PROVE  /\ Once(CancelGate(a))
           /\ \A x : x # a => (Queued(CancelGate(a), x) <=> Queued(gate, x))
           /\ ~Contains(CancelGate(a).woken, a)
           /\ Attended(CancelGate(a))
           /\ gate.being = <<>> => CancelGate(a).being = <<>>
           /\ gate.woken = <<>> => CancelGate(a).woken = <<>>
<1> DEFINE g == WakeupNextPending(gate)
           c == CancelGate(a)
<1>1. gate \in GateType
  BY DEF DialogInv, TypeOK
<1>2. CASE ~Active(a)
  <2>1. c = gate
    BY <1>2 DEF CancelGate
  <2> HIDE DEF c
  <2>. QED
    BY <1>2, <2>1 DEF Active, QueueInv, c
<1>3. CASE Active(a)
  <2>1. /\ g \in GateType /\ g.current = gate.current
        /\ g.woken \in Seq(Subsessions)
    BY <1>1, WakeupNextPendingType DEF GateType
  <2>2. /\ Once(g)
        /\ \A x : Queued(g, x) <=> Queued(gate, x)
        /\ g.flurry = gate.flurry
        /\ gate.being = <<>> => g = gate
        /\ gate.being # <<>> => Len(g.woken) = Len(gate.woken) + 1
    BY <1>1, WakeupNextPendingQueues DEF QueueInv
  <2>3. c = [g EXCEPT !.woken = RemoveFirst(g.woken, a)]
    BY <1>3 DEF CancelGate
  <2> HIDE DEF c, g
  <2>4. /\ c.woken = RemoveFirst(g.woken, a) /\ c.being = g.being
        /\ c.flurry = g.flurry /\ c.current = g.current
    BY <2>1, <2>3 DEF GateType
  <2>5. /\ Unrepeated(c.woken)
        /\ \A x : Contains(c.woken, x) <=> Contains(g.woken, x) /\ x # a
        /\ Len(c.woken) >= Len(g.woken) - 1
    BY <2>1, <2>2, <2>4, RemoveFirstUnrepeated DEF Once
  <2>6. Once(c)
    BY <2>2, <2>4, <2>5 DEF Once
  <2>7. \A x : x # a => (Queued(c, x) <=> Queued(gate, x))
    BY <2>2, <2>4, <2>5 DEF Queued
  <2>8. c.being # <<>> => c.woken # <<>>
    <3>1. SUFFICES ASSUME c.being # <<>> PROVE c.woken # <<>>
      OBVIOUS
    <3>2. gate.being # <<>>
      BY <2>2, <2>4, <3>1
    <3>3. gate.woken # <<>> /\ gate.woken \in Seq(Subsessions)
      BY <1>1, <3>2 DEF QueueInv, Attended, GateType
    <3>4. Len(gate.woken) \in Nat \ {0}
      BY <3>3, EmptySeq
    <3>. QED
      BY <2>2, <2>5, <3>2, <3>4
  <2>9. Attended(c)
    BY <2>1, <2>2, <2>4, <2>8 DEF QueueInv, Attended
  <2>10. gate.woken = <<>> => c.woken = <<>>
    <3>1. gate.woken = <<>> => gate.being = <<>>
      BY DEF QueueInv, Attended
    <3>. QED
      BY <2>2, <2>4, <3>1 DEF RemoveFirst
  <2>. QED
    BY <2>2, <2>4, <2>5, <2>6, <2>7, <2>9, <2>10 DEF c
<1>. QED
  BY <1>2, <1>3

-----------------------------------------------------------------------------
(* Every step keeps the queues *)

\* The end of an authoriser, with the gate its RunL or its cancellation hands on
LEMMA FinishQueues ==
    ASSUME DialogInv, QueueInv, NEW a \in Subsessions, NEW g \in GateType, Finish(a, g),
           Once(g), ~Contains(g.woken, a), Attended(g),
           \A x \in Subsessions : x # a => (Queued(g, x) <=> Queued(gate, x)),
           g.current = a => g.being = <<>> \/ g.flurry = <<>>,
           closing # NoSession /\ g.current # NoRequest => g.woken = <<>>,
           UNCHANGED closing
    PROVE  QueueInv'
<1>1. gate' = AuthoriserDone(g, a)
  BY DEF Finish
<1>2. /\ Once(gate')
      /\ \A x : Queued(gate', x) <=> Queued(g, x) /\ x # a
      /\ Attended(gate')
      /\ g.current # a => gate'.woken = g.woken
  BY <1>1, AuthoriserDoneQueues
<1>3. gate'.current = IF g.current = a THEN NoRequest ELSE g.current
  BY <1>1, AuthoriserDoneType
<1>4. \A x \in Subsessions :
         /\ state'[x] = IF x = a THEN "Done" ELSE state[x]
         /\ status'[x] = IF x = a THEN "Inactive" ELSE status[x]
  BY DEF Finish, DialogInv, TypeOK
<1>5. QueuedWaiting'
  <2>1. SUFFICES ASSUME NEW x \in Subsessions
                 PROVE  /\ Queued(gate', x) <=> state'[x] = "ECheckDatabase"
                        /\ Queued(gate', x) => status'[x] = "Inactive"
    BY DEF QueuedWaiting
  <2>2. Queued(gate', x) <=> x # a /\ Queued(gate, x)
    BY <1>2
  <2>3. Queued(gate, x) <=> state[x] = "ECheckDatabase"
    BY DEF QueueInv, QueuedWaiting
  <2>4. Queued(gate, x) => status[x] = "Inactive"
    BY DEF QueueInv, QueuedWaiting
  <2>. QED
    BY <1>4, <2>2, <2>3, <2>4
<1>6. ClosingQuiet'
  BY <1>2, <1>3 DEF ClosingQuiet
<1>. QED
  BY <1>2, <1>5, <1>6 DEF QueueInv

\* An authoriser that runs and ends
LEMMA RunFinishQueues ==
    ASSUME DialogInv, QueueInv, NEW a \in Subsessions, CanRun(a), Finish(a, RunGate(a)),
           UNCHANGED closing
    PROVE  QueueInv'
<1>1. RunGate(a) \in GateType /\ RunGate(a).current = gate.current
  BY RunGateType DEF DialogInv, TypeOK
<1>2. gate.current = a => RunGate(a).being = <<>>
  BY RunGateQueues DEF DialogInv, OneDialog
<1>3. closing = NoSession
  BY DEF CanRun
<1>. QED
  BY <1>1, <1>2, <1>3, RunGateQueues, FinishQueues

\* ... and one that is cancelled
LEMMA CancelFinishQueues ==
    ASSUME DialogInv, QueueInv, NEW a \in Subsessions, Finish(a, CancelGate(a)),
           CanServe \/ closing # NoSession, UNCHANGED closing
    PROVE  QueueInv'
<1>1. CancelGate(a) \in GateType /\ CancelGate(a).current = gate.current
  BY CancelGateType DEF DialogInv, TypeOK
<1>2. gate.current # NoRequest => gate.woken = <<>> /\ gate.being = <<>>
  BY DEF CanServe, QueueInv, ClosingQuiet, Attended
<1>3. CancelGate(a).current = a => CancelGate(a).being = <<>>
  BY <1>1, <1>2, SessionAssumption, CancelGateQueues
<1>4. CancelGate(a).current # NoRequest => CancelGate(a).woken = <<>>
  BY <1>1, <1>2, CancelGateQueues
<1>. QED
  BY <1>1, <1>3, <1>4, CancelGateQueues, FinishQueues

\* The gate is handed on by an authoriser that goes on.
LEMMA RunOnQueues ==
    ASSUME DialogInv, QueueInv, NEW a \in Subsessions, CanRun(a), NEW s,
           s # "ECheckDatabase", state' = [state EXCEPT ![a] = s],
           NEW t, status' = [status EXCEPT ![a] = t],
           Once(gate'), Attended(gate'),
           \A x \in Subsessions : Queued(gate', x) <=> Queued(gate, x) /\ x # a,
           UNCHANGED closing
    PROVE  QueueInv'
<1>1. \A x \in Subsessions : /\ state'[x] = IF x = a THEN s ELSE state[x]
                             /\ status'[x] = IF x = a THEN t ELSE status[x]
  BY DEF DialogInv, TypeOK
<1>2. QueuedWaiting'
  <2>1. SUFFICES ASSUME NEW x \in Subsessions
                 PROVE  /\ Queued(gate', x) <=> state'[x] = "ECheckDatabase"
                        /\ Queued(gate', x) => status'[x] = "Inactive"
    BY DEF QueuedWaiting
  <2>2. Queued(gate', x) <=> x # a /\ Queued(gate, x)
    OBVIOUS
  <2>3. /\ Queued(gate, x) <=> state[x] = "ECheckDatabase"
        /\ Queued(gate, x) => status[x] = "Inactive"
    BY DEF QueueInv, QueuedWaiting
  <2>. QED
    BY <1>1, <2>2, <2>3
<1>3. ClosingQuiet'
  BY DEF CanRun, ClosingQuiet
<1>. QED
  BY <1>2, <1>3 DEF QueueInv

LEMMA NoDialogCreatorQueues ==
    ASSUME DialogInv, QueueInv, NEW a \in Subsessions, CanRun(a), NoDialogCreator(a),
           UNCHANGED closing
    PROVE  QueueInv'
<1> DEFINE r == RunGate(a)
           g == [r EXCEPT !.current = a]
<1>1. r \in GateType /\ r.current = NoRequest /\ Finish(a, g) /\ closing = NoSession
  BY RunGateType DEF NoDialogCreator, CanRun, DialogInv, TypeOK
<1>2. /\ Once(r) /\ ~Contains(r.woken, a) /\ Attended(r)
      /\ \A x \in Subsessions : Queued(r, x) <=> Queued(gate, x) /\ x # a
  BY RunGateQueues
<1> HIDE DEF r
<1>3. /\ g \in GateType /\ g.current = a
      /\ g.woken = r.woken /\ g.being = r.being /\ g.flurry = r.flurry
  BY <1>1 DEF GateType
<1> HIDE DEF g
<1>4. Once(g) /\ \A x : Queued(g, x) <=> Queued(r, x)
  BY <1>2, <1>3 DEF Once, Queued
<1>5. Attended(g) /\ g.flurry = <<>>
  BY <1>1, <1>2, <1>3 DEF Attended
<1>. QED
  BY <1>1, <1>2, <1>3, <1>4, <1>5, FinishQueues

LEMMA GateKeeperQueues ==
    ASSUME DialogInv, QueueInv, NEW a \in Subsessions, CanRun(a),
           NEW forced, NEW disputed, GateKeeper(a, forced, disputed),
           UNCHANGED closing
    PROVE  QueueInv'
<1> DEFINE r == RunGate(a)
<1>1. /\ r \in GateType /\ r.flurry \in Seq(Subsessions)
  BY RunGateType DEF DialogInv, TypeOK, GateType
<1>2. /\ Once(r) /\ Attended(r)
      /\ \A x \in Subsessions : Queued(r, x) <=> Queued(gate, x) /\ x # a
      /\ ~Contains(r.woken, a)
  BY RunGateQueues
<1>0. ~Queued(r, a)
  BY <1>2
<1> HIDE DEF r
<1>3. CASE /\ r.current # NoRequest
           /\ state' = [state EXCEPT ![a] = "ECheckDatabase"]
           /\ status' = [status EXCEPT ![a] = "Inactive"]
           /\ gate' = [r EXCEPT !.flurry = Append(@, a)]
  <2>1. /\ gate'.flurry = Append(r.flurry, a) /\ gate'.woken = r.woken
        /\ gate'.being = r.being /\ gate'.current = r.current
    BY <1>1, <1>3 DEF GateType
  <2>2. /\ Unrepeated(gate'.flurry)
        /\ \A x : Contains(gate'.flurry, x) <=> Contains(r.flurry, x) \/ x = a
    BY <1>0, <1>1, <1>2, <2>1, AppendUnrepeated DEF Once, Queued
  <2>3. Once(gate')
    BY <1>0, <1>2, <2>1, <2>2 DEF Once, Queued
  <2>4. \A x : Queued(gate', x) <=> Queued(r, x) \/ x = a
    BY <2>1, <2>2 DEF Queued
  <2>5. Attended(gate')
    BY <1>2, <1>3, <2>1 DEF Attended
  <2>6. QueuedWaiting'
    <3>1. \A x \in Subsessions : /\ state'[x] = IF x = a THEN "ECheckDatabase" ELSE state[x]
                                 /\ status'[x] = IF x = a THEN "Inactive" ELSE status[x]
      BY <1>3 DEF DialogInv, TypeOK
    <3>2. \A x \in Subsessions : Queued(gate', x) <=> x = a \/ Queued(gate, x)
      BY <1>2, <2>4
    <3>. QED
      BY <3>1, <3>2 DEF QueueInv, QueuedWaiting
  <2>7. ClosingQuiet'
    BY DEF CanRun, ClosingQuiet
  <2>. QED
    BY <2>3, <2>5, <2>6, <2>7 DEF QueueInv
<1>4. CASE /\ r.current = NoRequest
           /\ Issue(a, "EPreparingDialog")
           /\ gate' = [r EXCEPT !.current = a]
  <2>1. /\ gate'.flurry = r.flurry /\ gate'.woken = r.woken
        /\ gate'.being = r.being /\ gate'.current = a
    BY <1>1, <1>4 DEF GateType
  <2>2. Once(gate') /\ \A x : Queued(gate', x) <=> Queued(r, x)
    BY <1>2, <2>1 DEF Once, Queued
  <2>3. Attended(gate')
    BY <1>2, <2>1, SessionAssumption DEF Attended
  <2>. QED
    BY <1>2, <1>4, <2>2, <2>3, RunOnQueues DEF Issue
<1>5. CASE NoDialogCreator(a)
  BY <1>5, NoDialogCreatorQueues
<1>. QED
  BY <1>3, <1>4, <1>5 DEF GateKeeper, r

LEMMA PanicQueues ==
    ASSUME Panic PROVE QueueInv'
BY EmptyUnrepeated
   DEF Panic, NewGate, QueueInv, Once, QueuedWaiting, Queued, Attended, ClosingQuiet

LEMMA QueueInvInit == Init => QueueInv
BY EmptyUnrepeated
   DEF Init, NewGate, QueueInv, Once, QueuedWaiting, Queued, Attended, ClosingQuiet

LEMMA QueueInvNext == DialogInv /\ QueueInv /\ [Next]_vars => QueueInv'
<1> SUFFICES ASSUME DialogInv, QueueInv, [Next]_vars PROVE QueueInv'
  OBVIOUS
<1> DEFINE Kept == UNCHANGED <<gate, closing>> /\ \A x \in Subsessions :
                      /\ state'[x] = "ECheckDatabase" <=> state[x] = "ECheckDatabase"
                      /\ state[x] = "ECheckDatabase" /\ status[x] = "Inactive" =>
                            status'[x] = "Inactive"
<1>k. ASSUME Kept PROVE QueueInv'
  BY <1>k DEF QueueInv, QueuedWaiting, ClosingQuiet
<1> HIDE DEF Kept
<1>1. ASSUME NEW a \in Subsessions, ExecutePrompt(a)
      PROVE  QueueInv'
  <2>1. Kept
    BY <1>1 DEF ExecutePrompt, Kept, DialogInv, TypeOK
  <2>. QED
    BY <1>k, <2>1
<1>2. ASSUME NEW a \in Subsessions, CheckPolicy(a)
      PROVE  QueueInv'
  <2>1. CanRun(a) /\ UNCHANGED closing
    BY <1>2 DEF CheckPolicy
  <2>2. CASE Finish(a, RunGate(a))
    BY <2>1, <2>2, RunFinishQueues
  <2>3. CASE Issue(a, "ECreatingFingerprints") /\ gate' = RunGate(a)
    BY <2>1, <2>3, RunGateQueues, RunOnQueues DEF Issue
  <2>. QED
    BY <1>2, <2>2, <2>3 DEF CheckPolicy
<1>3. ASSUME NEW a \in Subsessions, LookupFingerprints(a)
      PROVE  QueueInv'
  <2>1. CanRun(a) /\ UNCHANGED closing
    BY <1>3 DEF LookupFingerprints
  <2>2. ASSUME NEW forced, NEW disputed, GateKeeper(a, forced, disputed)
        PROVE  QueueInv'
    BY <2>1, <2>2, GateKeeperQueues
  <2>3. CASE NoDialogCreator(a)
    BY <2>1, <2>3, NoDialogCreatorQueues
  <2>4. CASE Finish(a, RunGate(a))
    BY <2>1, <2>4, RunFinishQueues
  <2>5. CASE Panic
    BY <2>5, PanicQueues
  <2>. QED
    BY <1>3, <2>2, <2>3, <2>4, <2>5 DEF LookupFingerprints
<1>4. ASSUME NEW a \in Subsessions, ExecuteDialog(a)
      PROVE  QueueInv'
  BY <1>4, RunGateQueues, RunOnQueues DEF ExecuteDialog, Issue
<1>5. ASSUME NEW a \in Subsessions,
             ProcessDialogResult(a) \/ RunError(a) \/ HandleDbError(a)
      PROVE  QueueInv'
  BY <1>5, RunFinishQueues DEF ProcessDialogResult, RunError, HandleDbError
<1>6. ASSUME NEW a \in Subsessions, PluginComplete(a)
      PROVE  QueueInv'
  <2>1. Kept
    BY <1>6 DEF PluginComplete, Kept, DialogInv, TypeOK
  <2>. QED
    BY <1>k, <2>1
<1>7. ASSUME NEW a \in Subsessions, CancelRequest(a)
      PROVE  QueueInv'
  BY <1>7, CancelFinishQueues DEF CancelRequest
<1>8. ASSUME NEW s \in Sessions, CloseSession(s)
      PROVE  QueueInv'
  BY <1>8 DEF CloseSession, CanServe, QueueInv, QueuedWaiting, ClosingQuiet
<1>9. CASE CancelOutstanding
  <2>1. CASE OfSession(closing) = {}
    BY <1>9, <2>1 DEF CancelOutstanding, QueueInv, QueuedWaiting, ClosingQuiet
  <2>2. CASE OfSession(closing) # {}
    <3> DEFINE I == OfSession(closing)
               i == CHOOSE x \in I : \A j \in I : j <= x
    <3>1. /\ I \subseteq 1 .. Len(iAsyncRequests) /\ Len(iAsyncRequests) \in Nat
          /\ iAsyncRequests \in Seq(Subsessions)
      BY DEF OfSession, DialogInv, TypeOK
    <3>2. \E x \in I : \A j \in I : j <= x
      <4>1. I \subseteq 0 .. Len(iAsyncRequests) /\ I # {}
        BY <2>2, <3>1
      <4> HIDE DEF I
      <4>. QED
        BY <3>1, <4>1, LastElement
    <3>3. iAsyncRequests[i] \in Subsessions
      BY <3>1, <3>2
    <3>4. /\ Finish(iAsyncRequests[i], CancelGate(iAsyncRequests[i]))
          /\ closing # NoSession /\ UNCHANGED closing
      BY <1>9, <2>2 DEF CancelOutstanding
    <3>. QED
      BY <3>3, <3>4, CancelFinishQueues
  <2>. QED
    BY <2>1, <2>2
<1>10. CASE RemoveCompletedRequests
  <2>1. Kept
    BY <1>10 DEF RemoveCompletedRequests, Kept, DialogInv, TypeOK
  <2>. QED
    BY <1>k, <2>1
<1>11. CASE UNCHANGED <<state, status, gate, closing>>
  <2>1. Kept
    BY <1>11 DEF Kept
  <2>. QED
    BY <1>k, <2>1
<1>. QED
  BY <1>1, <1>2, <1>3, <1>4, <1>5, <1>6, <1>7, <1>8, <1>9, <1>10, <1>11
     DEF Next, RunL, RemoveDecision, DeleteDatabase, vars

LEMMA QueueInvariant == Spec => []QueueInv
BY DialogInvariant, QueueInvInit, QueueInvNext, PTL DEF Spec

\* Where a request of Waiting comes from
LEMMA WaitingParts ==
    ASSUME gate \in GateType
    PROVE  /\ Len(Waiting) = Len(gate.woken) + Len(gate.being) + Len(gate.flurry)
           /\ \A i \in 1 .. Len(Waiting) :
                 \/ i <= Len(gate.woken) /\ Waiting[i] = gate.woken[i]
                 \/ /\ i - Len(gate.woken) \in 1 .. Len(gate.being)
                    /\ Waiting[i] = gate.being[i - Len(gate.woken)]
                 \/ /\ i - Len(gate.woken) - Len(gate.being) \in 1 .. Len(gate.flurry)
                    /\ Waiting[i] = gate.flurry[i - Len(gate.woken) - Len(gate.being)]
           /\ \A x : Contains(Waiting, x) <=> Queued(gate, x)
<1> DEFINE W == gate.woken
           B == gate.being
           F == gate.flurry
<1>1. /\ W \in Seq(Subsessions) /\ B \in Seq(Subsessions) /\ F \in Seq(Subsessions)
      /\ Waiting = (W \o B) \o F
  BY DEF GateType, Waiting
<1> HIDE DEF W, B, F
<1> DEFINE u == W \o B
<1>2. /\ u \in Seq(Subsessions) /\ Len(u) = Len(W) + Len(B)
      /\ \A i \in 1 .. Len(W) + Len(B) : u[i] = IF i <= Len(W) THEN W[i] ELSE B[i - Len(W)]
  BY <1>1, ConcatProperties
<1> HIDE DEF u
<1>3. /\ Len(Waiting) = Len(u) + Len(F)
      /\ \A i \in 1 .. Len(u) + Len(F) :
            Waiting[i] = IF i <= Len(u) THEN u[i] ELSE F[i - Len(u)]
  BY <1>1, <1>2, ConcatProperties DEF u
<1>4. Len(W) \in Nat /\ Len(B) \in Nat /\ Len(F) \in Nat
  BY <1>1
<1>8. Len(Waiting) = Len(W) + Len(B) + Len(F)
  BY <1>2, <1>3
<1>5. \A i \in 1 .. Len(Waiting) :
         \/ i <= Len(W) /\ Waiting[i] = W[i]
         \/ i - Len(W) \in 1 .. Len(B) /\ Waiting[i] = B[i - Len(W)]
         \/ /\ i - Len(W) - Len(B) \in 1 .. Len(F)
            /\ Waiting[i] = F[i - Len(W) - Len(B)]
  <2>1. TAKE i \in 1 .. Len(Waiting)
  <2>2. CASE i <= Len(W)
    BY <1>2, <1>3, <1>4, <2>2
  <2>3. CASE i > Len(W) /\ i <= Len(W) + Len(B)
    <3>1. Waiting[i] = u[i] /\ u[i] = B[i - Len(W)]
      BY <1>2, <1>3, <1>4, <2>3
    <3>. QED
      BY <1>4, <2>3, <3>1
  <2>4. CASE i > Len(W) + Len(B)
    <3>1. Waiting[i] = F[i - Len(u)] /\ i - Len(u) = i - Len(W) - Len(B)
      BY <1>2, <1>3, <1>4, <2>4
    <3>. QED
      BY <1>2, <1>3, <1>4, <2>4, <3>1
  <2>. QED
    BY <1>4, <2>2, <2>3, <2>4
<1>6. ASSUME NEW x, Contains(W, x) \/ Contains(B, x) \/ Contains(F, x)
      PROVE  Contains(Waiting, x)
  <2>1. ASSUME NEW i \in 1 .. Len(W), W[i] = x PROVE Contains(Waiting, x)
    <3>1. i \in 1 .. Len(Waiting) /\ Waiting[i] = x
      BY <1>2, <1>3, <1>4, <2>1
    <3>. QED
      BY <3>1 DEF Contains
  <2>2. ASSUME NEW i \in 1 .. Len(B), B[i] = x PROVE Contains(Waiting, x)
    <3> DEFINE j == Len(W) + i
    <3>1. j \in 1 .. Len(u) /\ j \in 1 .. Len(Waiting) /\ ~(j <= Len(W)) /\ j - Len(W) = i
      BY <1>2, <1>3, <1>4, <2>2
    <3> HIDE DEF j
    <3>2. Waiting[j] = x
      BY <1>2, <1>3, <1>4, <2>2, <3>1
    <3>. QED
      BY <3>1, <3>2 DEF Contains
  <2>3. ASSUME NEW i \in 1 .. Len(F), F[i] = x PROVE Contains(Waiting, x)
    <3> DEFINE j == Len(u) + i
    <3>1. j \in 1 .. Len(Waiting) /\ ~(j <= Len(u)) /\ j - Len(u) = i
      BY <1>2, <1>3, <1>4, <2>3
    <3> HIDE DEF j
    <3>2. Waiting[j] = x
      BY <1>3, <2>3, <3>1
    <3>. QED
      BY <3>1, <3>2 DEF Contains
  <2>. QED
    BY <1>6, <2>1, <2>2, <2>3 DEF Contains
<1>7. ASSUME NEW x, Contains(Waiting, x)
      PROVE  Contains(W, x) \/ Contains(B, x) \/ Contains(F, x)
  <2>1. PICK i \in 1 .. Len(Waiting) : Waiting[i] = x
    BY <1>7 DEF Contains
  <2>2. CASE i <= Len(W) /\ W[i] = x
    <3>1. i \in 1 .. Len(W)
      BY <1>4, <1>8, <2>2
    <3>. QED
      BY <2>2, <3>1 DEF Contains
  <2>3. CASE i - Len(W) \in 1 .. Len(B) /\ B[i - Len(W)] = x
    BY <2>3 DEF Contains
  <2>4. CASE i - Len(W) - Len(B) \in 1 .. Len(F) /\ F[i - Len(W) - Len(B)] = x
    BY <2>4 DEF Contains
  <2>. QED
    BY <1>5, <2>1, <2>2, <2>3, <2>4
<1>. QED
  BY <1>5, <1>6, <1>7, <1>8 DEF Queued, W, B, F

\* The FIFOs hold no pointer to an authoriser that is done, no request twice, and none
\* that is active (GateKeeperL, WakeupNextPendingL, CAuthoriserFifo::RemoveL).
THEOREM QueuedOnceHolds == Spec => []QueuedOnce
<1>1. DialogInv /\ QueueInv => QueuedOnce
  <2> SUFFICES ASSUME DialogInv, QueueInv PROVE QueuedOnce
    OBVIOUS
  <2>1. gate \in GateType
    BY DEF DialogInv, TypeOK
  <2> DEFINE W == gate.woken
             B == gate.being
             F == gate.flurry
  <2>2. /\ Len(W) \in Nat /\ Len(B) \in Nat /\ Len(F) \in Nat
        /\ Len(Waiting) = Len(W) + Len(B) + Len(F)
        /\ \A i \in 1 .. Len(Waiting) :
              \/ i <= Len(W) /\ Waiting[i] = W[i]
              \/ i - Len(W) \in 1 .. Len(B) /\ Waiting[i] = B[i - Len(W)]
              \/ /\ i - Len(W) - Len(B) \in 1 .. Len(F)
                 /\ Waiting[i] = F[i - Len(W) - Len(B)]
        /\ \A x : Contains(Waiting, x) <=> Queued(gate, x)
    BY <2>1, WaitingParts DEF GateType
  <2>3. Unrepeated(W) /\ Unrepeated(B) /\ Unrepeated(F)
    BY DEF QueueInv, Once
  <2>4. \A x : /\ ~(Contains(W, x) /\ Contains(B, x))
               /\ ~(Contains(W, x) /\ Contains(F, x))
               /\ ~(Contains(B, x) /\ Contains(F, x))
    BY DEF QueueInv, Once
  <2>5. DOMAIN Waiting = 1 .. Len(Waiting)
    <3>1. Waiting \in Seq(Subsessions)
      BY <2>1, ConcatProperties DEF Waiting, GateType
    <3>. QED
      BY <3>1
  <2> HIDE DEF W, B, F
  <2>6. ASSUME NEW i \in 1 .. Len(Waiting), NEW j \in 1 .. Len(Waiting),
               Waiting[i] = Waiting[j]
        PROVE  i = j
    <3> DEFINE x == Waiting[i]
               I == i - Len(W)
               J == j - Len(W)
    <3>1. CASE i <= Len(W) /\ x = W[i]
      <4>1. Contains(W, x)
        BY <2>2, <3>1 DEF Contains
      <4>2. ~Contains(B, x) /\ ~Contains(F, x)
        BY <2>4, <4>1
      <4>3. j <= Len(W) /\ W[j] = x
        BY <2>2, <2>6, <4>2 DEF Contains
      <4>. QED
        BY <2>2, <2>3, <3>1, <4>3 DEF Unrepeated
    <3>2. CASE I \in 1 .. Len(B) /\ x = B[I]
      <4>1. Contains(B, x)
        BY <3>2 DEF Contains
      <4>2. ~Contains(W, x) /\ ~Contains(F, x)
        BY <2>4, <4>1
      <4>3. J \in 1 .. Len(B) /\ B[J] = x
        <5>1. ~(j <= Len(W) /\ W[j] = x)
          BY <2>2, <4>2 DEF Contains
        <5>2. ~(J - Len(B) \in 1 .. Len(F) /\ F[J - Len(B)] = x)
          BY <4>2 DEF Contains
        <5>. QED
          BY <2>2, <2>6, <5>1, <5>2
      <4>4. I = J
        BY <2>3, <3>2, <4>3 DEF Unrepeated
      <4>. QED
        BY <2>2, <4>4
    <3>3. CASE I - Len(B) \in 1 .. Len(F) /\ x = F[I - Len(B)]
      <4>1. Contains(F, x)
        BY <3>3 DEF Contains
      <4>2. ~Contains(W, x) /\ ~Contains(B, x)
        BY <2>4, <4>1
      <4>3. J - Len(B) \in 1 .. Len(F) /\ F[J - Len(B)] = x
        <5>1. ~(j <= Len(W) /\ W[j] = x)
          BY <2>2, <4>2 DEF Contains
        <5>2. ~(J \in 1 .. Len(B) /\ B[J] = x)
          BY <4>2 DEF Contains
        <5>. QED
          BY <2>2, <2>6, <5>1, <5>2
      <4>4. I - Len(B) = J - Len(B)
        BY <2>3, <3>3, <4>3 DEF Unrepeated
      <4>. QED
        BY <2>2, <4>4
    <3>. QED
      BY <2>2, <3>1, <3>2, <3>3
  <2>. QED
    BY <2>2, <2>5, <2>6 DEF QueueInv, QueuedWaiting, QueuedOnce
<1>. QED
  BY <1>1, DialogInvariant, QueueInvariant, PTL

\* A request in the flurry queue has a dialog to wait for, and while requests are being
\* evaluated again one of them has been woken.
THEOREM NoStrandedRequestHolds == Spec => []NoStrandedRequest
<1>1. QueueInv => NoStrandedRequest
  BY DEF QueueInv, Attended, NoStrandedRequest
<1>. QED
  BY <1>1, QueueInvariant, PTL

=============================================================================
