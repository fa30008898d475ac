--------------------------- MODULE ScsServerProofs ---------------------------
(***************************************************************************)
(* Proofs about ScsServer, for any clients, subsessions and functions, and *)
(* with or without a shutdown timer.                                       *)
(***************************************************************************)
EXTENDS ScsServer, SequenceLemmas, FiniteSetTheorems

-----------------------------------------------------------------------------
(* What Kept leaves of a sequence *)

\* K is Kept, for the first n entries of s.
KeptUpTo(K, s, T, m) ==
    K = [n \in 0 .. m |->
            IF n = 0 THEN <<>>
            ELSE IF s[n] \in T THEN Append(K[n - 1], s[n]) ELSE K[n - 1]]

LEMMA KeptDefined ==
    ASSUME NEW S, NEW s \in Seq(S), NEW T
    PROVE  \E K : KeptUpTo(K, s, T, Len(s)) /\ Kept(s, T) = K[Len(s)]
<1>1. \A m \in 0 .. Len(s) : \E K : KeptUpTo(K, s, T, m)
  <2> DEFINE A == {m \in 0 .. Len(s) : ~ \E K : KeptUpTo(K, s, T, m)}
  <2>1. SUFFICES ASSUME A # {} PROVE FALSE
    OBVIOUS
  <2>2. PICK x \in A : \A y \in A : x <= y
    <3>1. A \subseteq Nat
      OBVIOUS
    <3>. HIDE DEF A
    <3>. QED
      BY <2>1, <3>1, LeastElement
  <2>3. x # 0
    <3> DEFINE K == [n \in 0 .. 0 |-> <<>>]
    <3>1. KeptUpTo(K, s, T, 0)
      BY DEF KeptUpTo
    <3> HIDE DEF K
    <3>. QED
      BY <3>1
  <2>4. x \in 1 .. Len(s) /\ x - 1 \in 0 .. Len(s) /\ ~ (x <= x - 1)
    BY <2>3
  <2>5. x - 1 \notin A
    <3>. HIDE DEF A
    <3>. QED
      BY <2>2, <2>4
  <2>6. PICK K : KeptUpTo(K, s, T, x - 1)
    BY <2>4, <2>5
  <2> DEFINE L == [n \in 0 .. x |->
                     IF n = x THEN IF s[x] \in T THEN Append(K[x - 1], s[x]) ELSE K[x - 1]
                     ELSE K[n]]
  <2>7. \A n \in 0 .. x : n # 0 => L[n - 1] = K[n - 1]
    BY <2>4
  <2>8. \A n \in 0 .. x - 1 :
          K[n] = IF n = 0 THEN <<>>
                 ELSE IF s[n] \in T THEN Append(K[n - 1], s[n]) ELSE K[n - 1]
    BY <2>6, Zenon DEF KeptUpTo
  <2>9. \A n \in 0 .. x :
          L[n] = IF n = 0 THEN <<>>
                 ELSE IF s[n] \in T THEN Append(L[n - 1], s[n]) ELSE L[n - 1]
    <3>1. TAKE n \in 0 .. x
    <3>2. CASE n = x
      <4>1. n # 0 /\ L[n] = IF s[x] \in T THEN Append(K[x - 1], s[x]) ELSE K[x - 1]
        BY <2>3, <3>2
      <4>. QED
        BY <2>7, <3>2, <4>1
    <3>3. CASE n # x
      <4>1. n \in 0 .. x - 1 /\ L[n] = K[n]
        BY <2>4, <3>3
      <4>. HIDE DEF L
      <4>. QED
        BY <2>7, <2>8, <4>1
    <3>. QED
      BY <3>2, <3>3
  <2>10. KeptUpTo(L, s, T, x)
    <3>1. L = [n \in 0 .. x |-> L[n]]
      OBVIOUS
    <3>. HIDE DEF L
    <3>. QED
      BY <2>9, <3>1 DEF KeptUpTo
  <2>. QED
    BY <2>10, Zenon
<1>2. \E K : KeptUpTo(K, s, T, Len(s))
  BY <1>1
<1>3. KeptUpTo((CHOOSE K : KeptUpTo(K, s, T, Len(s))), s, T, Len(s))
  BY <1>2
<1>4. Kept(s, T) = (CHOOSE K : KeptUpTo(K, s, T, Len(s)))[Len(s)]
  BY Zenon DEF Kept, KeptUpTo
<1>. QED
  BY <1>3, <1>4, Zenon

\* u holds the entries of the first n of s that are in T, in their order.
Subsequence(u, s, T, n) ==
    /\ \A x : (\E i \in 1 .. Len(u) : u[i] = x) <=> x \in T /\ \E i \in 1 .. n : s[i] = x
    /\ \A i, j \in 1 .. Len(u) : i < j =>
          \E p, q \in 1 .. n : p < q /\ s[p] = u[i] /\ s[q] = u[j]

LEMMA SubsequenceGrows ==
    ASSUME NEW S, NEW s \in Seq(S), NEW T, NEW n \in 1 .. Len(s), NEW u \in Seq(S),
           Subsequence(u, s, T, n - 1)
    PROVE  /\ s[n] \in T => /\ Append(u, s[n]) \in Seq(S)
                            /\ Subsequence(Append(u, s[n]), s, T, n)
           /\ s[n] \notin T => Subsequence(u, s, T, n)
<1>0. /\ \A i \in 1 .. n : i = n \/ i \in 1 .. n - 1
      /\ \A i \in 1 .. n - 1 : i \in 1 .. n /\ i < n
      /\ n \in 1 .. n /\ s[n] \in S
  OBVIOUS
<1>1. ASSUME s[n] \notin T
      PROVE  Subsequence(u, s, T, n)
  <2>1. \A x : x \in T => ((\E i \in 1 .. n : s[i] = x) <=> \E i \in 1 .. n - 1 : s[i] = x)
    BY <1>0, <1>1
  <2>2. \A x : (\E i \in 1 .. Len(u) : u[i] = x) <=> x \in T /\ \E i \in 1 .. n : s[i] = x
    BY <2>1 DEF Subsequence
  <2>3. \A i, j \in 1 .. Len(u) : i < j =>
          \E p, q \in 1 .. n : p < q /\ s[p] = u[i] /\ s[q] = u[j]
    BY <1>0 DEF Subsequence
  <2>. QED
    BY <2>2, <2>3 DEF Subsequence
<1>2. ASSUME s[n] \in T
      PROVE  Append(u, s[n]) \in Seq(S) /\ Subsequence(Append(u, s[n]), s, T, n)
  <2> DEFINE v == Append(u, s[n])
  <2>1. /\ v \in Seq(S) /\ Len(v) = Len(u) + 1 /\ Len(u) \in Nat
        /\ \A i \in 1 .. Len(u) : v[i] = u[i]
        /\ v[Len(u) + 1] = s[n]
    BY <1>0, AppendProperties
  <2> HIDE DEF v
  <2>2. /\ \A i \in 1 .. Len(v) : i = Len(u) + 1 \/ i \in 1 .. Len(u)
        /\ \A i \in 1 .. Len(u) : i \in 1 .. Len(v)
        /\ Len(u) + 1 \in 1 .. Len(v)
    BY <2>1
  <2>3. \A x : (\E i \in 1 .. Len(v) : v[i] = x) <=> x = s[n] \/ \E i \in 1 .. Len(u) : u[i] = x
    BY <2>1, <2>2
  <2>4. \A x : (\E i \in 1 .. n : s[i] = x) <=> x = s[n] \/ \E i \in 1 .. n - 1 : s[i] = x
    BY <1>0
  <2>5. \A x : (\E i \in 1 .. Len(v) : v[i] = x) <=> x \in T /\ \E i \in 1 .. n : s[i] = x
    BY <1>2, <2>3, <2>4 DEF Subsequence
  <2>6. ASSUME NEW i \in 1 .. Len(v), NEW j \in 1 .. Len(v), i < j
        PROVE  \E p, q \in 1 .. n : p < q /\ s[p] = v[i] /\ s[q] = v[j]
    <3>1. i \in 1 .. Len(u) /\ v[i] = u[i]
      BY <2>1, <2>2, <2>6
    <3>2. CASE j \in 1 .. Len(u)
      <4>1. v[j] = u[j]
        BY <2>1, <3>2
      <4>2. PICK p \in 1 .. n - 1, q \in 1 .. n - 1 : p < q /\ s[p] = u[i] /\ s[q] = u[j]
        BY <2>6, <3>1, <3>2 DEF Subsequence
      <4>. QED
        BY <1>0, <3>1, <4>1, <4>2
    <3>3. CASE j = Len(u) + 1
      <4>1. PICK p \in 1 .. n - 1 : s[p] = u[i]
        BY <3>1 DEF Subsequence
      <4>. QED
        BY <1>0, <2>1, <3>1, <3>3, <4>1
    <3>. QED
      BY <2>2, <3>2, <3>3
  <2>7. Subsequence(v, s, T, n)
    BY <2>5, <2>6 DEF Subsequence
  <2>. QED
    BY <2>1, <2>7 DEF v
<1>. QED
  BY <1>1, <1>2

\* Kept takes the entries out that are not in T, and leaves the order of the others.
LEMMA KeptProperties ==
    ASSUME NEW S, NEW s \in Seq(S), NEW T
    PROVE  Kept(s, T) \in Seq(S) /\ Subsequence(Kept(s, T), s, T, Len(s))
<1>1. PICK K : KeptUpTo(K, s, T, Len(s)) /\ Kept(s, T) = K[Len(s)]
  BY KeptDefined
<1>2. \A n \in 0 .. Len(s) :
        K[n] = IF n = 0 THEN <<>>
               ELSE IF s[n] \in T THEN Append(K[n - 1], s[n]) ELSE K[n - 1]
  BY <1>1, Zenon DEF KeptUpTo
<1>3. \A n \in 0 .. Len(s) : K[n] \in Seq(S) /\ Subsequence(K[n], s, T, n)
  <2> DEFINE A == {n \in 0 .. Len(s) : ~ (K[n] \in Seq(S) /\ Subsequence(K[n], s, T, n))}
  <2>1. SUFFICES ASSUME A # {} PROVE FALSE
    OBVIOUS
  <2>2. PICK x \in A : \A y \in A : x <= y
    <3>1. A \subseteq Nat
      OBVIOUS
    <3>. HIDE DEF A
    <3>. QED
      BY <2>1, <3>1, LeastElement
  <2>3. x # 0
    <3>1. <<>> \in Seq(S) /\ Subsequence(<<>>, s, T, 0)
      BY DEF Subsequence
    <3>2. K[0] = <<>>
      BY <1>2
    <3>. QED
      BY <3>1, <3>2
  <2>4. x \in 1 .. Len(s) /\ x - 1 \in 0 .. Len(s) /\ ~ (x <= x - 1)
    BY <2>3
  <2>5. x - 1 \notin A
    <3>. HIDE DEF A
    <3>. QED
      BY <2>2, <2>4
  <2>6. K[x - 1] \in Seq(S) /\ Subsequence(K[x - 1], s, T, x - 1)
    BY <2>4, <2>5
  <2>7. K[x] = IF s[x] \in T THEN Append(K[x - 1], s[x]) ELSE K[x - 1]
    BY <1>2, <2>3, <2>4
  <2>8. K[x] \in Seq(S) /\ Subsequence(K[x], s, T, x)
    BY <2>4, <2>6, <2>7, SubsequenceGrows
  <2>. QED
    BY <2>8
<1>4. Len(s) \in 0 .. Len(s)
  OBVIOUS
<1>. QED
  BY <1>1, <1>3, <1>4

-----------------------------------------------------------------------------
(* The invariant *)

\* A client has calls of functions waiting in the inbox, and behind them the one call it
\* is blocked in; or the disconnect of its last session, and behind it the connect of the
\* next one.  A function is not called again before its last call has been served.
Follows(m, n) ==
    /\ m.client = n.client => m.op = "ECall" \/ (m.op = "Disconnect" /\ n.op = "Connect")
    /\ m.op = "ECall" /\ n.op = "ECall" => m.slot # n.slot

Ordered(box) == \A i, j \in 1 .. Len(box) : i < j => Follows(box[i], box[j])

InboxInv == inbox \in Seq(Messages) /\ Ordered(inbox)

\* A request that is not live awaits the deferred delete; there is one for each slot.
RequestInv ==
    /\ iAsyncRequests \in Seq(Requests)
    /\ \A r \in ToSet(iAsyncRequests) : (r.live \/ iAsyncCleanup) /\ (r.ready => r.live)
    /\ \A i, j \in 1 .. Len(iAsyncRequests) :
          /\ iAsyncRequests[i].live /\ iAsyncRequests[j].live
          /\ iAsyncRequests[i].slot = iAsyncRequests[j].slot
          => i = j

Connecting == {"Trying", "Connecting", "Starting"}
Calling    == {"Open", "Blocked"}

ClientTypes ==
    /\ sessions \subseteq Clients
    /\ iSsHandles \in [Clients -> SUBSET Subsessions]
    /\ client \in [Clients -> [state : ClientStates, retries : 0 .. 2, shutdown : BOOLEAN]]
    /\ \A c \in Clients : client[c].state \in Connecting => client[c].retries # 0
    /\ outstanding \subseteq Slots

LiveSlots == {r.slot : r \in {x \in ToSet(iAsyncRequests) : x.live}}

SubsessionOpen(slot) == slot.sub \in iSsHandles[slot.client] \cup {NoSubsession}

\* The sender of a message m in the inbox waits for it, or has at least not gone on.
Awaited(m) ==
    /\ m.op = "Connect" => client[m.client].state = "Connecting"
    /\ m.op = "Disconnect" => ~Connected(m.client)
    /\ m.op = "ECall" => /\ client[m.client].state \in Calling
                         /\ m.slot.client = m.client /\ m.slot \in outstanding
                         /\ SubsessionOpen(m.slot)
    /\ m.op \notin {"Connect", "Disconnect", "ECall"} => client[m.client].state = "Blocked"

HasDisconnect(c) == \E m \in ToSet(inbox) : m.op = "Disconnect" /\ m.client = c
HasCall(slot)    == \E m \in ToSet(inbox) : m.op = "ECall" /\ m.slot = slot

\* A session lives from the service of its connect to the service of its disconnect, and
\* a client's request from its call to its answer.
ClientInv ==
    /\ \A m \in ToSet(inbox) : Awaited(m)
    /\ \A c \in Clients : c \in sessions <=> Connected(c) \/ HasDisconnect(c)
    /\ \A s \in LiveSlots : /\ s.client \in sessions /\ SubsessionOpen(s)
                            /\ Connected(s.client) => s \in outstanding
    /\ \A s \in outstanding : /\ client[s.client].state \in Calling
                              /\ HasCall(s) \/ s \in LiveSlots

\* The server stops when nothing is left, and its timer runs when there is no session.
ServerInv ==
    /\ phase \in {"Absent", "Running", "Stopping"}
    /\ iShutdownTimer \in {"None", "Running", "Expired"}
    /\ iImmediateTimeoutNextRestart \in BOOLEAN
    /\ iAsyncCleanup \in BOOLEAN
    /\ iSessionCount = Cardinality(sessions)
    /\ phase # "Running" => sessions = {} /\ ~iAsyncCleanup /\ iAsyncRequests = <<>>
    /\ phase = "Absent" => inbox = <<>>
    /\ TimerIffIdle

ScsInv == InboxInv /\ RequestInv /\ ClientTypes /\ ClientInv /\ ServerInv

-----------------------------------------------------------------------------
(* The inbox *)

LEMMA InboxTail ==
    ASSUME NEW M, NEW b \in Seq(M), b # <<>>, Ordered(b)
    PROVE  /\ Tail(b) \in Seq(M) /\ Ordered(Tail(b)) /\ Head(b) \in M
           /\ \A m : m \in ToSet(b) <=> m = Head(b) \/ m \in ToSet(Tail(b))
           /\ \A m \in ToSet(Tail(b)) : Follows(Head(b), m)
<1> DEFINE t == Tail(b)
<1>1. /\ t \in Seq(M) /\ Len(t) = Len(b) - 1 /\ Len(b) \in Nat \ {0}
      /\ \A i \in 1 .. Len(t) : t[i] = b[i + 1] /\ i + 1 \in 1 .. Len(b)
      /\ Head(b) = b[1] /\ Head(b) \in M
  BY HeadTailProperties
<1>2. DOMAIN b = 1 .. Len(b) /\ DOMAIN t = 1 .. Len(t)
  BY <1>1
<1> HIDE DEF t
<1>3. Ordered(t)
  <2>1. \A i, j \in 1 .. Len(t) : i < j => i + 1 < j + 1
    OBVIOUS
  <2>. QED
    BY <1>1, <2>1 DEF Ordered
<1>4. \A m \in ToSet(t) : m \in ToSet(b) /\ Follows(b[1], m)
  <2>1. \A i \in 1 .. Len(t) : 1 \in 1 .. Len(b) /\ 1 < i + 1
    BY <1>1
  <2>. QED
    BY <1>1, <1>2, <2>1 DEF Ordered, ToSet
<1>5. \A m \in ToSet(b) : m = b[1] \/ m \in ToSet(t)
  <2>1. SUFFICES ASSUME NEW i \in 1 .. Len(b), i # 1 PROVE b[i] \in ToSet(t)
    BY <1>2 DEF ToSet
  <2>2. i - 1 \in 1 .. Len(t) /\ t[i - 1] = b[i]
    BY <1>1, <2>1
  <2>. QED
    BY <1>2, <2>2 DEF ToSet
<1>6. b[1] \in ToSet(b)
  BY <1>1, <1>2 DEF ToSet
<1>. QED
  BY <1>1, <1>3, <1>4, <1>5, <1>6 DEF t

LEMMA InboxAppend ==
    ASSUME NEW M, NEW b \in Seq(M), NEW e \in M, Ordered(b), \A m \in ToSet(b) : Follows(m, e)
    PROVE  /\ Append(b, e) \in Seq(M) /\ Ordered(Append(b, e))
           /\ \A m : m \in ToSet(Append(b, e)) <=> m = e \/ m \in ToSet(b)
<1> DEFINE t == Append(b, e)
<1>1. /\ t \in Seq(M) /\ Len(t) = Len(b) + 1 /\ Len(b) \in Nat
      /\ \A i \in 1 .. Len(b) : t[i] = b[i]
      /\ t[Len(b) + 1] = e
  BY AppendProperties
<1>2. DOMAIN b = 1 .. Len(b) /\ DOMAIN t = 1 .. Len(t)
  BY <1>1
<1> HIDE DEF t
<1>3. /\ \A i \in 1 .. Len(t) : i = Len(b) + 1 \/ i \in 1 .. Len(b)
      /\ \A i \in 1 .. Len(b) : i \in 1 .. Len(t) /\ i < Len(b) + 1
      /\ Len(b) + 1 \in 1 .. Len(t)
  BY <1>1
<1>4. \A m : m \in ToSet(t) <=> m = e \/ m \in ToSet(b)
  BY <1>1, <1>2, <1>3 DEF ToSet
<1>5. Ordered(t)
  <2>1. SUFFICES ASSUME NEW i \in 1 .. Len(t), NEW j \in 1 .. Len(t), i < j
                 PROVE  Follows(t[i], t[j])
    BY DEF Ordered
  <2>2. i \in 1 .. Len(b) /\ t[i] = b[i]
    BY <1>1, <1>3, <2>1
  <2>3. CASE j = Len(b) + 1
    BY <1>1, <1>2, <2>2, <2>3 DEF ToSet
  <2>4. CASE j \in 1 .. Len(b)
    BY <1>1, <2>1, <2>2, <2>4 DEF Ordered
  <2>. QED
    BY <1>3, <2>3, <2>4
<1>. QED
  BY <1>1, <1>4, <1>5 DEF t

LEMMA KeptMembers ==
    ASSUME NEW M, NEW b \in Seq(M), NEW T
    PROVE  /\ Kept(b, T) \in Seq(M)
           /\ ToSet(Kept(b, T)) = ToSet(b) \cap T
<1> DEFINE t == Kept(b, T)
<1>1. t \in Seq(M) /\ Subsequence(t, b, T, Len(b))
  BY KeptProperties
<1>2. DOMAIN b = 1 .. Len(b) /\ DOMAIN t = 1 .. Len(t)
  BY <1>1
<1> HIDE DEF t
<1>3. ASSUME NEW x
      PROVE  x \in ToSet(t) <=> x \in ToSet(b) \cap T
  <2>1. x \in ToSet(t) <=> \E i \in 1 .. Len(t) : t[i] = x
    BY <1>2 DEF ToSet
  <2>2. x \in ToSet(b) <=> \E i \in 1 .. Len(b) : b[i] = x
    BY <1>2 DEF ToSet
  <2>3. (\E i \in 1 .. Len(t) : t[i] = x) <=> x \in T /\ \E i \in 1 .. Len(b) : b[i] = x
    BY <1>1 DEF Subsequence
  <2>. QED
    BY <2>1, <2>2, <2>3
<1>. QED
  BY <1>1, <1>3 DEF t

LEMMA InboxKept ==
    ASSUME NEW M, NEW b \in Seq(M), NEW T, Ordered(b)
    PROVE  Ordered(Kept(b, T))
<1> DEFINE t == Kept(b, T)
<1>1. t \in Seq(M) /\ Subsequence(t, b, T, Len(b))
  BY KeptProperties
<1> HIDE DEF t
<1>2. Ordered(t)
  <2>1. SUFFICES ASSUME NEW i \in 1 .. Len(t), NEW j \in 1 .. Len(t), i < j
                 PROVE  Follows(t[i], t[j])
    BY DEF Ordered
  <2>2. PICK p \in 1 .. Len(b), q \in 1 .. Len(b) : p < q /\ b[p] = t[i] /\ b[q] = t[j]
    BY <1>1, <2>1 DEF Subsequence
  <2>3. Follows(b[p], b[q])
    BY <2>2 DEF Ordered
  <2>. QED
    BY <2>2, <2>3
<1>. QED
  BY <1>2 DEF t

\* The kernel withdraws the messages of a client and sends its disconnect.
LEMMA DropInbox ==
    ASSUME NEW b \in Seq(Messages), Ordered(b), NEW c \in Clients, Drop(c, b)
    PROVE  /\ InboxInv'
           /\ \A m : m \in ToSet(inbox') <=>
                       \/ m \in ToSet(b) /\ m.client # c
                       \/ m = [op |-> "Disconnect", client |-> c]
<1> DEFINE T == {m \in ToSet(b) : m.client # c}
           k == Kept(b, T)
           e == [op |-> "Disconnect", client |-> c]
<1>1. inbox' = Append(k, e)
  BY DEF Drop
<1>2. k \in Seq(Messages) /\ ToSet(k) = ToSet(b) \cap T
  BY KeptMembers
<1>3. Ordered(k)
  BY InboxKept
<1>4. e \in Messages /\ e.client = c /\ e.op = "Disconnect"
  BY DEF Messages
<1>5. \A m \in ToSet(k) : Follows(m, e)
  BY <1>2, <1>4 DEF Follows
<1> HIDE DEF k, e
<1>6. /\ Append(k, e) \in Seq(Messages) /\ Ordered(Append(k, e))
      /\ \A m : m \in ToSet(Append(k, e)) <=> m = e \/ m \in ToSet(k)
  BY <1>2, <1>3, <1>4, <1>5, InboxAppend
<1>. QED
  BY <1>1, <1>2, <1>6 DEF InboxInv, e

-----------------------------------------------------------------------------
(* The requests *)

LiveAt(I) == \A i \in I : i \in 1 .. Len(iAsyncRequests) /\ iAsyncRequests[i].live

\* CAsyncRequest::MarkForDeletion of live requests
LEMMA MarkRequests ==
    ASSUME RequestInv, NEW I, LiveAt(I), MarkForDeletion(I), iAsyncCleanup \in BOOLEAN
    PROVE  /\ RequestInv'
           /\ \A s : s \in LiveSlots' <=>
                       s \in LiveSlots /\ \A i \in I : iAsyncRequests[i].slot # s
<1> DEFINE q == iAsyncRequests
           n == Len(iAsyncRequests)
<1>1. /\ q \in Seq(Requests) /\ n \in Nat /\ DOMAIN q = 1 .. n
      /\ \A i \in 1 .. n : q[i] \in Requests
  BY DEF RequestInv
<1>2. iAsyncRequests' = [i \in 1 .. n |-> IF i \in I
                           THEN [q[i] EXCEPT !.live = FALSE, !.ready = FALSE] ELSE q[i]]
  BY <1>1 DEF MarkForDeletion
<1>3. \A i \in 1 .. n :
        /\ iAsyncRequests'[i] \in Requests
        /\ iAsyncRequests'[i].slot = q[i].slot
        /\ iAsyncRequests'[i].live = (q[i].live /\ i \notin I)
        /\ iAsyncRequests'[i].ready = (q[i].ready /\ i \notin I)
  <2>1. TAKE i \in 1 .. n
  <2>2. q[i] \in [slot : Slots, live : BOOLEAN, ready : BOOLEAN]
    BY <1>1 DEF Requests
  <2>3. CASE i \in I
    <3>1. iAsyncRequests'[i] = [q[i] EXCEPT !.live = FALSE, !.ready = FALSE]
      BY <1>2, <2>3
    <3>. QED
      BY <2>2, <2>3, <3>1 DEF Requests
  <2>4. CASE i \notin I
    <3>1. iAsyncRequests'[i] = q[i]
      BY <1>2, <2>4
    <3>. QED
      BY <2>2, <2>4, <3>1 DEF Requests
  <2>. QED
    BY <2>3, <2>4
<1>4. iAsyncRequests' \in Seq(Requests) /\ Len(iAsyncRequests') = n
      /\ DOMAIN iAsyncRequests' = 1 .. n
  <2>1. iAsyncRequests' \in [1 .. n -> Requests]
    BY <1>2, <1>3
  <2>. HIDE DEF q, n
  <2>2. iAsyncRequests' \in Seq(Requests)
    BY <1>1, <2>1
  <2>. QED
    BY <1>1, <2>1, <2>2
<1>5. ToSet(iAsyncRequests') = {iAsyncRequests'[i] : i \in 1 .. n}
      /\ ToSet(q) = {q[i] : i \in 1 .. n}
  BY <1>1, <1>4 DEF ToSet
<1>6. iAsyncCleanup' = (iAsyncCleanup \/ I # {})
  BY DEF MarkForDeletion
<1> HIDE DEF q, n
<1>7. \A r \in ToSet(iAsyncRequests') : (r.live \/ iAsyncCleanup') /\ (r.ready => r.live)
  <2>1. \A i \in 1 .. n : (q[i].live \/ iAsyncCleanup) /\ (q[i].ready => q[i].live)
    BY <1>1, <1>5 DEF RequestInv, q
  <2>. QED
    BY <1>3, <1>5, <1>6, <2>1
<1>8. \A i, j \in 1 .. n :
        iAsyncRequests'[i].live /\ iAsyncRequests'[j].live
          /\ iAsyncRequests'[i].slot = iAsyncRequests'[j].slot => i = j
  BY <1>3 DEF RequestInv, q, n
<1>9. RequestInv'
  BY <1>4, <1>7, <1>8 DEF RequestInv
<1>10. \A s : s \in LiveSlots <=> \E i \in 1 .. n : q[i].live /\ q[i].slot = s
  BY <1>5 DEF LiveSlots, q
<1>11. \A s : s \in LiveSlots' <=> \E i \in 1 .. n : q[i].live /\ i \notin I /\ q[i].slot = s
  <2>1. LiveSlots' = {r.slot : r \in {x \in ToSet(iAsyncRequests') : x.live}}
    BY DEF LiveSlots
  <2>2. \A s : s \in LiveSlots' <=>
          \E i \in 1 .. n : iAsyncRequests'[i].live /\ iAsyncRequests'[i].slot = s
    BY <1>5, <2>1
  <2>. QED
    BY <1>3, <2>2
<1>12. ASSUME NEW s, NEW i \in 1 .. n, q[i].live, i \notin I, q[i].slot = s, NEW j \in I
       PROVE  q[j].slot # s
  BY <1>12 DEF LiveAt, RequestInv, q, n
<1>. QED
  BY <1>9, <1>10, <1>11, <1>12 DEF q

\* A request is added in a slot that holds none.
LEMMA AppendRequest ==
    ASSUME RequestInv, NEW slot \in Slots, slot \notin LiveSlots, UNCHANGED iAsyncCleanup,
           iAsyncRequests' = Append(iAsyncRequests, [slot |-> slot, live |-> TRUE, ready |-> FALSE])
    PROVE  RequestInv' /\ LiveSlots' = LiveSlots \cup {slot}
<1> DEFINE q == iAsyncRequests
           n == Len(q)
           r == [slot |-> slot, live |-> TRUE, ready |-> FALSE]
           t == iAsyncRequests'
<1>1. /\ q \in Seq(Requests) /\ n \in Nat /\ DOMAIN q = 1 .. n
      /\ r \in Requests /\ r.slot = slot /\ r.live = TRUE /\ r.ready = FALSE
  BY DEF RequestInv, Requests
<1>2. t = Append(q, r)
  OBVIOUS
<1> HIDE DEF r, t
<1>3. /\ t \in Seq(Requests) /\ Len(t) = n + 1 /\ DOMAIN t = 1 .. n + 1
      /\ \A i \in 1 .. n : t[i] = q[i]
      /\ t[n + 1] = r
  BY <1>1, <1>2, AppendProperties
<1>4. /\ \A i \in 1 .. n + 1 : i = n + 1 \/ i \in 1 .. n
      /\ \A i \in 1 .. n : i \in 1 .. n + 1
      /\ n + 1 \in 1 .. n + 1
  BY <1>1
<1>5. \A x : x \in ToSet(t) <=> x = r \/ x \in ToSet(q)
  BY <1>1, <1>3, <1>4 DEF ToSet
<1>6. \A s : s \in LiveSlots' <=> s = slot \/ s \in LiveSlots
  <2>1. LiveSlots' = {x.slot : x \in {y \in ToSet(t) : y.live}}
    BY DEF LiveSlots, t
  <2>2. \A s : s \in LiveSlots' <=> \E x \in ToSet(t) : x.live /\ x.slot = s
    BY <2>1
  <2>3. \A s : s \in LiveSlots <=> \E x \in ToSet(q) : x.live /\ x.slot = s
    BY DEF LiveSlots
  <2>. QED
    BY <1>1, <1>5, <2>2, <2>3
<1>7. \A i \in 1 .. n : q[i].live => q[i].slot # slot
  BY <1>1 DEF LiveSlots, ToSet
<1>8. \A i, j \in 1 .. n + 1 : t[i].live /\ t[j].live /\ t[i].slot = t[j].slot => i = j
  <2>1. \A i, j \in 1 .. n : q[i].live /\ q[j].live /\ q[i].slot = q[j].slot => i = j
    BY DEF RequestInv
  <2>. HIDE DEF q, n
  <2>. QED
    BY <1>1, <1>3, <1>4, <1>7, <2>1
<1>9. \A x \in ToSet(t) : (x.live \/ iAsyncCleanup') /\ (x.ready => x.live)
  <2>1. \A x \in ToSet(q) : (x.live \/ iAsyncCleanup) /\ (x.ready => x.live)
    BY DEF RequestInv
  <2>. HIDE DEF q, n
  <2>. QED
    BY <1>1, <1>5, <2>1
<1>10. RequestInv'
  <2>. HIDE DEF q, n
  <2>. QED
    BY <1>3, <1>8, <1>9 DEF RequestInv, t
<1>. QED
  BY <1>6, <1>10

\* A service signals a live request.
LEMMA SignalRequest ==
    ASSUME RequestInv, NEW i \in DOMAIN iAsyncRequests, ServiceComplete(i)
    PROVE  RequestInv' /\ LiveSlots' = LiveSlots
<1> DEFINE q == iAsyncRequests
           n == Len(q)
           t == iAsyncRequests'
<1>1. /\ q \in Seq(Requests) /\ n \in Nat /\ DOMAIN q = 1 .. n
      /\ \A k \in 1 .. n : q[k] \in [slot : Slots, live : BOOLEAN, ready : BOOLEAN]
  <2>1. q \in Seq(Requests)
    BY DEF RequestInv
  <2>2. \A k \in 1 .. n : q[k] \in Requests
    BY <2>1
  <2>. QED
    BY <2>1, <2>2 DEF Requests
<1>2. t = [q EXCEPT ![i].ready = TRUE] /\ i \in 1 .. n /\ q[i].live
      /\ UNCHANGED iAsyncCleanup
  BY <1>1 DEF ServiceComplete
<1> HIDE DEF q, n, t
<1>3. /\ t[i] = [q[i] EXCEPT !.ready = TRUE] /\ DOMAIN t = 1 .. n
      /\ \A k \in 1 .. n : k # i => t[k] = q[k]
  BY <1>1, <1>2
<1>4. \A k \in 1 .. n : /\ t[k] \in [slot : Slots, live : BOOLEAN, ready : BOOLEAN]
                        /\ t[k].slot = q[k].slot /\ t[k].live = q[k].live
                        /\ t[k].ready = (q[k].ready \/ k = i)
  <2>1. TAKE k \in 1 .. n
  <2>2. CASE k = i
    BY <1>1, <1>3, <2>2
  <2>3. CASE k # i
    BY <1>1, <1>3, <2>3
  <2>. QED
    BY <2>2, <2>3
<1>5. t \in Seq(Requests) /\ Len(t) = n
  <2>1. t \in [1 .. n -> Requests]
    BY <1>1, <1>2, <1>3, <1>4 DEF Requests
  <2>2. t \in Seq(Requests)
    BY <1>1, <2>1
  <2>. QED
    BY <1>1, <2>1, <2>2
<1>6. ToSet(t) = {t[k] : k \in 1 .. n} /\ ToSet(q) = {q[k] : k \in 1 .. n}
  BY <1>1, <1>3 DEF ToSet
<1>7. \A x \in ToSet(t) : (x.live \/ iAsyncCleanup') /\ (x.ready => x.live)
  <2>1. \A k \in 1 .. n : (q[k].live \/ iAsyncCleanup) /\ (q[k].ready => q[k].live)
    BY <1>6 DEF RequestInv, q
  <2>2. iAsyncCleanup' = iAsyncCleanup /\ q[i].live
    BY <1>2
  <2>3. \A k \in 1 .. n : (t[k].live \/ iAsyncCleanup') /\ (t[k].ready => t[k].live)
    <3>1. TAKE k \in 1 .. n
    <3>2. t[k].live = q[k].live /\ t[k].ready = (q[k].ready \/ k = i)
      BY <1>4
    <3>3. (q[k].live \/ iAsyncCleanup) /\ (q[k].ready => q[k].live)
      BY <2>1
    <3>. QED
      BY <2>2, <3>2, <3>3
  <2>. QED
    BY <1>6, <2>3
<1>8. \A k, j \in 1 .. n : t[k].live /\ t[j].live /\ t[k].slot = t[j].slot => k = j
  BY <1>4 DEF RequestInv, q, n
<1>9. RequestInv'
  BY <1>5, <1>7, <1>8 DEF RequestInv, t
<1>10. \A s : s \in LiveSlots' <=> s \in LiveSlots
  <2>1. LiveSlots' = {x.slot : x \in {y \in ToSet(t) : y.live}}
    BY DEF LiveSlots, t
  <2>2. \A s : s \in LiveSlots' <=> \E k \in 1 .. n : t[k].live /\ t[k].slot = s
    BY <1>6, <2>1
  <2>3. \A s : s \in LiveSlots <=> \E k \in 1 .. n : q[k].live /\ q[k].slot = s
    BY <1>6 DEF LiveSlots, q
  <2>. QED
    BY <1>4, <2>2, <2>3
<1>. QED
  BY <1>9, <1>10

\* The deferred delete takes away the requests that are not live.
LEMMA KeepLiveRequests ==
    ASSUME RequestInv, iAsyncCleanup' \in BOOLEAN,
           iAsyncRequests' = Kept(iAsyncRequests, {r \in ToSet(iAsyncRequests) : r.live})
    PROVE  RequestInv' /\ LiveSlots' = LiveSlots
<1> DEFINE q == iAsyncRequests
           T == {r \in ToSet(q) : r.live}
           t == iAsyncRequests'
<1>1. q \in Seq(Requests)
  BY DEF RequestInv
<1>2. t \in Seq(Requests) /\ Subsequence(t, q, T, Len(q))
  BY <1>1, KeptProperties
<1>3. ToSet(t) = ToSet(q) \cap T
  BY <1>1, KeptMembers
<1> HIDE DEF t
<1>4. \A r \in ToSet(t) : r.live /\ r \in ToSet(q)
  BY <1>3
<1>5. \A i, j \in 1 .. Len(t) : t[i].slot = t[j].slot => ~(i < j)
  <2>1. SUFFICES ASSUME NEW i \in 1 .. Len(t), NEW j \in 1 .. Len(t),
                        t[i].slot = t[j].slot, i < j
                 PROVE  FALSE
    OBVIOUS
  <2>2. PICK k, m \in 1 .. Len(q) : k < m /\ q[k] = t[i] /\ q[m] = t[j]
    BY <1>2, <2>1 DEF Subsequence
  <2>3. t[i].live /\ t[j].live
    BY <1>2, <1>4, <2>1 DEF ToSet
  <2>4. k = m
    BY <2>1, <2>2, <2>3 DEF RequestInv
  <2>. QED
    BY <2>2, <2>4
<1>6. \A i, j \in 1 .. Len(t) : t[i].slot = t[j].slot => i = j
  <2>1. \A i, j \in 1 .. Len(t) : i < j \/ j < i \/ i = j
    BY <1>2
  <2>. QED
    BY <1>5, <2>1
<1>7. \A r \in ToSet(q) : r.ready => r.live
  BY DEF RequestInv
<1>8. RequestInv'
  <2>. HIDE DEF q
  <2>. QED
    BY <1>2, <1>4, <1>6, <1>7 DEF RequestInv, t
<1>9. LiveSlots' = {r.slot : r \in {x \in ToSet(t) : x.live}}
  BY DEF LiveSlots, t
<1>10. {x \in ToSet(t) : x.live} = {x \in ToSet(q) : x.live}
  BY <1>3
<1>. QED
  BY <1>8, <1>9, <1>10 DEF LiveSlots

SlotsAt(I) == {iAsyncRequests[i].slot : i \in I}

LEMMA FoundSlots ==
    ASSUME RequestInv, NEW c, NEW u, NEW slot
    PROVE  /\ LiveAt(Find(slot)) /\ SlotsAt(Find(slot)) = LiveSlots \cap {slot}
           /\ LiveAt(OfSession(c)) /\ SlotsAt(OfSession(c)) = {s \in LiveSlots : s.client = c}
           /\ LiveAt(OfSubsession(c, u))
           /\ SlotsAt(OfSubsession(c, u)) = {s \in LiveSlots : s.client = c /\ s.sub = u}
<1> DEFINE q == iAsyncRequests
           n == Len(q)
<1>1. q \in Seq(Requests)
  BY DEF RequestInv
<1>2. DOMAIN q = 1 .. n
  BY <1>1
<1>3. \A s : s \in LiveSlots <=> \E i \in 1 .. n : q[i].live /\ q[i].slot = s
  <2>1. ToSet(q) = {q[i] : i \in 1 .. n}
    BY <1>2 DEF ToSet
  <2>. QED
    BY <2>1 DEF LiveSlots
<1>4. /\ Find(slot) = {i \in 1 .. n : q[i].live /\ q[i].slot = slot}
      /\ OfSession(c) = {i \in 1 .. n : q[i].live /\ q[i].slot.client = c}
      /\ OfSubsession(c, u) =
           {i \in 1 .. n : q[i].live /\ q[i].slot.client = c /\ q[i].slot.sub = u}
  BY <1>2 DEF Find, OfSession, OfSubsession, Indices
<1> HIDE DEF q, n
<1>5. \A I : SlotsAt(I) = {q[i].slot : i \in I}
  BY DEF SlotsAt, q
<1>6. SlotsAt(Find(slot)) = LiveSlots \cap {slot}
  BY <1>3, <1>4, <1>5
<1>7. SlotsAt(OfSession(c)) = {s \in LiveSlots : s.client = c}
  BY <1>3, <1>4, <1>5
<1>8. SlotsAt(OfSubsession(c, u)) = {s \in LiveSlots : s.client = c /\ s.sub = u}
  BY <1>3, <1>4, <1>5
<1>9. LiveAt(Find(slot)) /\ LiveAt(OfSession(c)) /\ LiveAt(OfSubsession(c, u))
  BY <1>4 DEF LiveAt, q, n
<1>. QED
  BY <1>6, <1>7, <1>8, <1>9

LEMMA CompleteRequests ==
    ASSUME RequestInv, NEW I, LiveAt(I), CompleteAndMarkForDeletion(I), iAsyncCleanup \in BOOLEAN
    PROVE  /\ RequestInv'
           /\ LiveSlots' = LiveSlots \ SlotsAt(I)
           /\ outstanding' = {s \in outstanding : HasCall(s) \/ s \notin SlotsAt(I)}
           /\ iAsyncCleanup' = (iAsyncCleanup \/ SlotsAt(I) # {})
<1>1. MarkForDeletion(I)
  BY DEF CompleteAndMarkForDeletion
<1>2. RequestInv' /\ LiveSlots' = LiveSlots \ SlotsAt(I)
  BY <1>1, MarkRequests DEF SlotsAt
<1>3. \A s : InboxHas("ECall", s) <=> HasCall(s)
  BY DEF InboxHas, HasCall, ToSet
<1>4. \A s : (\A i \in I : iAsyncRequests[i].slot # s) <=> s \notin SlotsAt(I)
  BY DEF SlotsAt
<1>5. outstanding' = {s \in outstanding : HasCall(s) \/ s \notin SlotsAt(I)}
  BY <1>3, <1>4 DEF CompleteAndMarkForDeletion
<1>6. iAsyncCleanup' = (iAsyncCleanup \/ SlotsAt(I) # {})
  BY <1>1 DEF MarkForDeletion, SlotsAt
<1>. QED
  BY <1>2, <1>5, <1>6

LEMMA SameRequests ==
    ASSUME RequestInv, UNCHANGED requestVars
    PROVE  RequestInv' /\ LiveSlots' = LiveSlots
BY DEF RequestInv, LiveSlots, requestVars

\* Without a live request and without a deferred delete there is no request at all.
LEMMA NoneLive ==
    ASSUME NEW q \in Seq(Requests), \A r \in ToSet(q) : r.live,
           {r.slot : r \in {x \in ToSet(q) : x.live}} = {}
    PROVE  q = <<>>
<1>1. ToSet(q) = {}
  OBVIOUS
<1>2. DOMAIN q = {}
  BY <1>1 DEF ToSet
<1>. QED
  BY <1>2

LEMMA NoRequests ==
    ASSUME RequestInv, LiveSlots = {}, ~iAsyncCleanup
    PROVE  iAsyncRequests = <<>>
BY NoneLive DEF RequestInv, LiveSlots

-----------------------------------------------------------------------------
(* The messages *)

BlockingOps == {"EPreCloseSession", "EShutdownAsap", "ECreateSubsession", "ECloseSubsession",
                "ECancel"}

LEMMA MessageTypes ==
    ASSUME NEW m \in Messages
    PROVE  /\ m.client \in Clients
           /\ m.op \in {"Connect", "Disconnect", "ECall"} \cup BlockingOps
           /\ m.op \in {"ECall", "ECancel"} => m.slot \in Slots
           /\ m.op = "ECloseSubsession" => m.sub \in Subsessions
BY DEF Messages, SyncOps, BlockingOps

LEMMA SlotTypes ==
    ASSUME NEW slot \in Slots
    PROVE  slot.client \in Clients /\ slot.sub \in Subsessions \cup {NoSubsession}
BY DEF Slots

LEMMA InboxHead ==
    ASSUME InboxInv, ClientInv, inbox # <<>>
    PROVE  /\ Head(inbox) \in Messages /\ Head(inbox) \in ToSet(inbox)
           /\ Sender \in Clients /\ Awaited(Head(inbox))
           /\ Tail(inbox) \in Seq(Messages) /\ Ordered(Tail(inbox))
           /\ \A m : m \in ToSet(inbox) <=> m = Head(inbox) \/ m \in ToSet(Tail(inbox))
           /\ \A m \in ToSet(Tail(inbox)) : Follows(Head(inbox), m)
           /\ \A m \in ToSet(inbox) : m \in Messages /\ m.client \in Clients
<1>1. inbox \in Seq(Messages) /\ Ordered(inbox)
  BY DEF InboxInv
<1>2. /\ Tail(inbox) \in Seq(Messages) /\ Ordered(Tail(inbox)) /\ Head(inbox) \in Messages
      /\ \A m : m \in ToSet(inbox) <=> m = Head(inbox) \/ m \in ToSet(Tail(inbox))
      /\ \A m \in ToSet(Tail(inbox)) : Follows(Head(inbox), m)
  BY <1>1, InboxTail
<1>3. Head(inbox) \in ToSet(inbox)
  BY <1>2
<1>4. Awaited(Head(inbox))
  BY <1>3 DEF ClientInv
<1>5. Head(inbox).client \in Clients
  BY <1>2, MessageTypes
<1>6. \A m \in ToSet(inbox) : m \in Messages
  BY <1>1 DEF ToSet
<1>7. \A m \in ToSet(inbox) : m.client \in Clients
  BY <1>6, MessageTypes
<1>. QED
  BY <1>2, <1>3, <1>4, <1>5, <1>6, <1>7 DEF Sender

-----------------------------------------------------------------------------
(* The steps of a client *)

LEMMA ConnectedRuns ==
    ASSUME ClientInv, ServerInv, NEW c \in Clients, Connected(c) \/ HasDisconnect(c)
    PROVE  c \in sessions /\ phase = "Running"
BY DEF ClientInv, ServerInv

\* A step that changes neither the server nor its requests nor its sessions
LEMMA SameServer ==
    ASSUME RequestInv, ServerInv, UNCHANGED <<serverVars, requestVars, sessions>>,
           phase # "Absent" \/ UNCHANGED inbox
    PROVE  RequestInv' /\ LiveSlots' = LiveSlots /\ ServerInv'
<1>1. RequestInv' /\ LiveSlots' = LiveSlots
  BY SameRequests
<1>2. TimerIffIdle'
  BY DEF ServerInv, TimerIffIdle, serverVars, timerVars, requestVars
<1>3. ServerInv'
  BY <1>2 DEF ServerInv, serverVars, timerVars, requestVars
<1>. QED
  BY <1>1, <1>3

\* A client that blocks has only calls of functions in the inbox.
LEMMA Blocks ==
    ASSUME ScsInv, NEW c \in Clients, NEW m \in Messages, m.client = c, m.op \in BlockingOps,
           CallAndBlock(c, m)
    PROVE  ScsInv'
<1>1. /\ InboxInv /\ RequestInv /\ ClientTypes /\ ClientInv /\ ServerInv
      /\ client[c].state = "Open" /\ client' = [client EXCEPT ![c].state = "Blocked"]
      /\ inbox' = Append(inbox, m)
      /\ UNCHANGED <<serverVars, requestVars, sessions, iSsHandles, outstanding>>
  BY DEF ScsInv, CallAndBlock, Goto, Send
<1>2. /\ client \in [Clients -> [state : ClientStates, retries : 0 .. 2, shutdown : BOOLEAN]]
      /\ UNCHANGED <<sessions, iSsHandles, outstanding>>
  BY <1>1 DEF ClientTypes
<1>3. /\ client' \in [Clients -> [state : ClientStates, retries : 0 .. 2, shutdown : BOOLEAN]]
      /\ client'[c].state = "Blocked"
      /\ \A d \in Clients : d # c => client'[d] = client[d]
  BY <1>1, <1>2 DEF ClientStates
<1>4. \A k \in ToSet(inbox) : Follows(k, m)
  BY <1>1 DEF ClientInv, Awaited, Connected, Follows, BlockingOps
<1>5. InboxInv' /\ \A k : k \in ToSet(inbox') <=> k = m \/ k \in ToSet(inbox)
  BY <1>1, <1>4, InboxAppend DEF InboxInv
<1>6. Connected(c) /\ phase = "Running"
  BY <1>1, ConnectedRuns DEF Connected
<1>7. RequestInv' /\ LiveSlots' = LiveSlots /\ ServerInv'
  BY <1>1, <1>6, SameServer
<1>8. ClientTypes'
  BY <1>1, <1>2, <1>3 DEF ClientTypes, Connecting
<1>9. \A d \in Clients : /\ Connected(d)' <=> Connected(d)
                         /\ client'[d].state \in Calling <=> client[d].state \in Calling
                         /\ client[d].state # "Open" => client'[d] = client[d]
  BY <1>1, <1>3 DEF Connected, Calling
<1>10. \A k \in ToSet(inbox) : k.client \in Clients
  BY <1>1, MessageTypes DEF InboxInv, ToSet
<1>11. \A k \in ToSet(inbox') : Awaited(k)'
  <2>1. SUFFICES ASSUME NEW k \in ToSet(inbox') PROVE Awaited(k)'
    OBVIOUS
  <2>2. CASE k = m
    BY <1>3, <2>2 DEF Awaited, BlockingOps
  <2>3. CASE k \in ToSet(inbox)
    <3>1. Awaited(k) /\ k.client \in Clients
      BY <1>1, <1>10, <2>3 DEF ClientInv
    <3>. QED
      BY <1>2, <1>9, <3>1 DEF Awaited, SubsessionOpen
  <2>. QED
    BY <1>5, <2>2, <2>3
<1>12. /\ \A d : HasDisconnect(d)' <=> HasDisconnect(d)
       /\ \A s : HasCall(s)' <=> HasCall(s)
  BY <1>5 DEF HasDisconnect, HasCall, BlockingOps
<1>13. ClientInv'
  <2>1. \A d \in Clients : d \in sessions' <=> Connected(d)' \/ HasDisconnect(d)'
    BY <1>1, <1>2, <1>9, <1>12 DEF ClientInv
  <2>2. \A s \in LiveSlots' : /\ s.client \in sessions' /\ SubsessionOpen(s)'
                              /\ Connected(s.client)' => s \in outstanding'
    BY <1>1, <1>2, <1>7, <1>9 DEF ClientInv, ClientTypes, SubsessionOpen
  <2>3. \A s \in outstanding' : /\ client'[s.client].state \in Calling
                                /\ HasCall(s)' \/ s \in LiveSlots'
    <3>1. \A s \in outstanding : s.client \in Clients
      BY <1>1, SlotTypes DEF ClientTypes
    <3>. QED
      BY <1>1, <1>2, <1>7, <1>9, <1>12, <3>1 DEF ClientInv
  <2>. QED
    BY <1>11, <2>1, <2>2, <2>3 DEF ClientInv
<1>. QED
  BY <1>5, <1>7, <1>8, <1>13 DEF ScsInv

\* The parts of ScsInv about the messages and clients, as the steps below use them
LEMMA ClientFacts ==
    ASSUME ScsInv
    PROVE  /\ InboxInv /\ RequestInv /\ ClientTypes /\ ClientInv /\ ServerInv
           /\ \A k \in ToSet(inbox) : k \in Messages /\ k.client \in Clients /\ Awaited(k)
           /\ \A s \in outstanding : s.client \in Clients
           /\ \A s \in LiveSlots : s.client \in Clients
<1>1. InboxInv /\ RequestInv /\ ClientTypes /\ ClientInv /\ ServerInv
  BY DEF ScsInv
<1>2. \A k \in ToSet(inbox) : k \in Messages
  BY <1>1 DEF InboxInv, ToSet
<1>3. \A k \in ToSet(inbox) : k.client \in Clients /\ Awaited(k)
  BY <1>1, <1>2, MessageTypes DEF ClientInv
<1>4. \A s \in outstanding : s.client \in Clients
  BY <1>1, SlotTypes DEF ClientTypes
<1>5. \A s \in LiveSlots : s.client \in Clients
  BY <1>1 DEF ClientInv, ClientTypes
<1>. QED
  BY <1>1, <1>2, <1>3, <1>4, <1>5

\* A client that is not connected changes its state, to another in which it is not, and
\* keeps waiting for the answer to its connect if it has sent one.
LEMMA Unconnected ==
    ASSUME ScsInv, NEW c \in Clients, ~Connected(c), client[c].state # "Connecting",
           NEW r \in [state : ClientStates, retries : 0 .. 2, shutdown : BOOLEAN],
           r.state \notin {"Open", "Blocked", "PreClosed"},
           r.state \in Connecting => r.retries # 0,
           client' = [client EXCEPT ![c] = r],
           UNCHANGED <<sessions, iSsHandles, outstanding, LiveSlots>>,
           \/ UNCHANGED inbox
           \/ /\ inbox' = Append(inbox, [op |-> "Connect", client |-> c])
              /\ r.state = "Connecting"
    PROVE  InboxInv' /\ ClientTypes' /\ ClientInv'
<1>1. /\ InboxInv /\ ClientTypes /\ ClientInv
      /\ \A k \in ToSet(inbox) : k \in Messages /\ k.client \in Clients /\ Awaited(k)
      /\ \A s \in outstanding : s.client \in Clients
      /\ \A s \in LiveSlots : s.client \in Clients
  BY ClientFacts
<1> DEFINE e == [op |-> "Connect", client |-> c]
<1>2. e \in Messages /\ e.op = "Connect" /\ e.client = c
  BY DEF Messages, SyncOps
<1> HIDE DEF e
<1>3. client \in [Clients -> [state : ClientStates, retries : 0 .. 2, shutdown : BOOLEAN]]
  BY <1>1 DEF ClientTypes
<1>4. /\ client' \in [Clients -> [state : ClientStates, retries : 0 .. 2, shutdown : BOOLEAN]]
      /\ client'[c] = r
      /\ \A d \in Clients : d # c => client'[d] = client[d]
  BY <1>3
<1>5. \A k \in ToSet(inbox) : k.client = c => k.op = "Disconnect"
  BY <1>1, MessageTypes DEF Awaited, Connected, Calling, BlockingOps
<1>6. /\ InboxInv'
      /\ \A k : k \in ToSet(inbox') =>
                  k \in ToSet(inbox) \/ (k = e /\ r.state = "Connecting")
      /\ \A k : k \in ToSet(inbox) => k \in ToSet(inbox')
  <2>1. CASE UNCHANGED inbox
    BY <1>1, <2>1 DEF InboxInv
  <2>2. CASE inbox' = Append(inbox, e) /\ r.state = "Connecting"
    <3>1. \A k \in ToSet(inbox) : Follows(k, e)
      BY <1>2, <1>5 DEF Follows
    <3>. QED
      BY <1>1, <1>2, <2>2, <3>1, InboxAppend DEF InboxInv
  <2>. QED
    BY <2>1, <2>2 DEF e
<1>7. ClientTypes'
  BY <1>1, <1>3, <1>4 DEF ClientTypes, Connecting
<1>8. \A d \in Clients : /\ Connected(d)' <=> Connected(d)
                         /\ client'[d].state \in Calling <=> client[d].state \in Calling
  BY <1>4 DEF Connected, Calling
<1>9. \A k \in ToSet(inbox') : Awaited(k)'
  <2>1. SUFFICES ASSUME NEW k \in ToSet(inbox') PROVE Awaited(k)'
    OBVIOUS
  <2>2. CASE k \in ToSet(inbox)
    <3>1. Awaited(k) /\ k.client \in Clients
      BY <1>1, <2>2
    <3>2. CASE k.client = c
      BY <1>5, <1>8, <2>2, <3>1, <3>2 DEF Awaited
    <3>3. CASE k.client # c
      BY <1>4, <1>8, <3>1, <3>3 DEF Awaited, SubsessionOpen
    <3>. QED
      BY <3>2, <3>3
  <2>3. CASE k = e /\ r.state = "Connecting"
    BY <1>2, <1>4, <2>3 DEF Awaited
  <2>. QED
    BY <1>6, <2>2, <2>3
<1>10. /\ \A d : HasDisconnect(d)' <=> HasDisconnect(d)
       /\ \A s : HasCall(s)' <=> HasCall(s)
  BY <1>2, <1>6 DEF HasDisconnect, HasCall
<1>11. ClientInv'
  <2>1. \A d \in Clients : d \in sessions' <=> Connected(d)' \/ HasDisconnect(d)'
    BY <1>1, <1>8, <1>10 DEF ClientInv
  <2>2. \A s \in LiveSlots' : /\ s.client \in sessions' /\ SubsessionOpen(s)'
                              /\ Connected(s.client)' => s \in outstanding'
    BY <1>1, <1>8 DEF ClientInv, SubsessionOpen
  <2>3. \A s \in outstanding' : /\ client'[s.client].state \in Calling
                                /\ HasCall(s)' \/ s \in LiveSlots'
    BY <1>1, <1>8, <1>10 DEF ClientInv
  <2>. QED
    BY <1>9, <2>1, <2>2, <2>3 DEF ClientInv
<1>. QED
  BY <1>6, <1>7, <1>11

LEMMA NoServerTypes ==
    ASSUME NEW r \in [state : ClientStates, retries : 0 .. 2, shutdown : BOOLEAN],
           r.retries # 0
    PROVE  /\ AfterNoServer(r) \in [state : ClientStates, retries : 0 .. 2, shutdown : BOOLEAN]
           /\ AfterNoServer(r).state \in {"Closed", "Starting"}
           /\ AfterNoServer(r).state \in Connecting => AfterNoServer(r).retries # 0
<1>1. CASE r.retries = 1
  <2>1. AfterNoServer(r) = [state |-> "Closed", retries |-> 0, shutdown |-> FALSE]
    BY <1>1 DEF AfterNoServer, NewClient
  <2>. QED
    BY <2>1 DEF ClientStates, Connecting
<1>2. CASE r.retries # 1
  <2>1. AfterNoServer(r) = [r EXCEPT !.retries = r.retries - 1, !.state = "Starting"]
    BY <1>2 DEF AfterNoServer
  <2>2. r.retries = 2
    BY <1>2
  <2>3. /\ "Starting" \in ClientStates /\ "Starting" \in Connecting
        /\ r.retries - 1 \in 0 .. 2 /\ r.retries - 1 # 0
    BY <2>2 DEF ClientStates, Connecting
  <2>. QED
    BY <2>1, <2>3
<1>. QED
  BY <1>1, <1>2

LEMMA CreateSessionStep ==
    ASSUME ScsInv, NEW c \in Clients, CreateSession(c)
    PROVE  ScsInv'
<1>1. /\ RequestInv /\ ServerInv /\ ClientTypes
      /\ client[c].state \in {"Closed", "Trying"}
      /\ UNCHANGED <<serverVars, requestVars, sessions, iSsHandles, outstanding>>
  BY ClientFacts DEF CreateSession
<1> DEFINE r == IF client[c].state = "Closed" THEN [NewClient EXCEPT !.retries = 2] ELSE client[c]
           Record == [state : ClientStates, retries : 0 .. 2, shutdown : BOOLEAN]
<1>2. r \in Record /\ r.retries # 0
  <2>1. client[c] \in Record /\ (client[c].state \in Connecting => client[c].retries # 0)
    BY <1>1 DEF ClientTypes
  <2>2. CASE client[c].state = "Closed"
    <3>1. r = [state |-> "Closed", retries |-> 2, shutdown |-> FALSE]
      BY <2>2 DEF NewClient
    <3>. HIDE DEF r
    <3>. QED
      BY <3>1 DEF ClientStates
  <2>3. CASE client[c].state # "Closed"
    <3>1. r = client[c] /\ client[c].state \in Connecting
      BY <1>1, <2>3 DEF Connecting
    <3>. HIDE DEF r
    <3>. QED
      BY <2>1, <3>1
  <2>. QED
    BY <2>2, <2>3
<1>3. ~Connected(c) /\ client[c].state # "Connecting"
  BY <1>1 DEF Connected
<1>4. \/ /\ phase = "Absent" /\ UNCHANGED inbox
         /\ client' = [client EXCEPT ![c] = AfterNoServer(r)]
      \/ /\ phase # "Absent"
         /\ inbox' = Append(inbox, [op |-> "Connect", client |-> c])
         /\ client' = [client EXCEPT ![c] = [r EXCEPT !.state = "Connecting"]]
  BY DEF CreateSession, Send
<1> HIDE DEF r
<1>5. RequestInv' /\ LiveSlots' = LiveSlots /\ ServerInv'
  BY <1>1, <1>4, SameServer
<1>6. /\ AfterNoServer(r) \in Record
      /\ AfterNoServer(r).state \in {"Closed", "Starting"}
      /\ AfterNoServer(r).state \in Connecting => AfterNoServer(r).retries # 0
  BY <1>2, NoServerTypes
<1>7. /\ [r EXCEPT !.state = "Connecting"] \in Record
      /\ [r EXCEPT !.state = "Connecting"].state = "Connecting"
      /\ [r EXCEPT !.state = "Connecting"].retries # 0
  BY <1>2 DEF ClientStates
<1>8. UNCHANGED <<sessions, iSsHandles, outstanding, LiveSlots>>
  BY <1>1, <1>5
<1>9. InboxInv' /\ ClientTypes' /\ ClientInv'
  <2>1. CASE UNCHANGED inbox /\ client' = [client EXCEPT ![c] = AfterNoServer(r)]
    BY <1>3, <1>6, <1>8, <2>1, Unconnected
  <2>2. CASE /\ inbox' = Append(inbox, [op |-> "Connect", client |-> c])
             /\ client' = [client EXCEPT ![c] = [r EXCEPT !.state = "Connecting"]]
    BY <1>3, <1>7, <1>8, <2>2, Unconnected
  <2>. QED
    BY <1>4, <2>1, <2>2
<1>. QED
  BY <1>5, <1>9 DEF ScsInv

LEMMA StartServerProcessStep ==
    ASSUME ScsInv, ScsAssumption, NEW c \in Clients, StartServerProcess(c)
    PROVE  ScsInv'
<1>1. /\ RequestInv /\ ServerInv /\ ClientTypes
      /\ client[c].state = "Starting"
      /\ UNCHANGED <<sessions, iSsHandles, inbox, outstanding>>
  BY ClientFacts DEF StartServerProcess
<1> DEFINE Record == [state : ClientStates, retries : 0 .. 2, shutdown : BOOLEAN]
           t == [client[c] EXCEPT !.state = "Trying"]
<1>2. /\ client[c] \in Record /\ client[c].retries # 0
      /\ client \in [Clients -> Record]
  BY <1>1 DEF ClientTypes, Connecting
<1>3. ~Connected(c) /\ client[c].state # "Connecting"
  BY <1>1 DEF Connected
<1>4. t \in Record /\ t.state = "Trying" /\ t.retries # 0
  BY <1>2 DEF ClientStates
<1>5. NewClient \in Record /\ NewClient.state = "Closed"
  BY DEF NewClient, ClientStates
<1>6. client' = [client EXCEPT ![c] = t] \/ client' = [client EXCEPT ![c] = NewClient]
  BY <1>2 DEF StartServerProcess, Goto
<1> HIDE DEF t
<1>7. RequestInv' /\ LiveSlots' = LiveSlots /\ ServerInv'
  <2>1. CASE UNCHANGED <<serverVars, requestVars>>
    BY <1>1, <2>1, SameServer
  <2>2. CASE /\ phase = "Absent" /\ phase' = "Running" /\ iSessionCount' = 0
             /\ iShutdownTimer' = IF Transient THEN "Running" ELSE "None"
             /\ iImmediateTimeoutNextRestart' = FALSE
             /\ iAsyncCleanup' = FALSE /\ iAsyncRequests' = <<>>
    <3>1. sessions = {} /\ ~iAsyncCleanup /\ iAsyncRequests = <<>>
          /\ iAsyncCleanup \in BOOLEAN
      BY <1>1, <2>2 DEF ServerInv
    <3>2. UNCHANGED requestVars
      BY <2>2, <3>1 DEF requestVars
    <3>3. RequestInv' /\ LiveSlots' = LiveSlots
      BY <1>1, <3>2, SameRequests
    <3>4. Cardinality(sessions') = 0
      BY <1>1, <3>1, FS_EmptySet
    <3>5. TimerIffIdle'
      BY <1>1, <2>2, <3>1, <3>2 DEF TimerIffIdle, ScsAssumption
    <3>6. ServerInv'
      BY <2>2, <3>4, <3>5 DEF ServerInv
    <3>. QED
      BY <3>3, <3>6
  <2>. QED
    BY <2>1, <2>2 DEF StartServerProcess
<1>8. UNCHANGED <<sessions, iSsHandles, outstanding, LiveSlots>> /\ UNCHANGED inbox
  BY <1>1, <1>7
<1>9. InboxInv' /\ ClientTypes' /\ ClientInv'
  <2>1. CASE client' = [client EXCEPT ![c] = t]
    BY <1>3, <1>4, <1>8, <2>1, Unconnected
  <2>2. CASE client' = [client EXCEPT ![c] = NewClient]
    <3>1. NewClient.state \notin Connecting
      BY <1>5 DEF Connecting
    <3>. QED
      BY <1>3, <1>5, <1>8, <2>2, <3>1, Unconnected
  <2>. QED
    BY <1>6, <2>1, <2>2
<1>. QED
  BY <1>7, <1>9 DEF ScsInv

LEMMA CallFunctionStep ==
    ASSUME ScsInv, NEW slot \in Slots, CallFunction(slot)
    PROVE  ScsInv'
<1> DEFINE c == slot.client
           e == [op |-> "ECall", client |-> c, slot |-> slot]
<1>1. /\ InboxInv /\ RequestInv /\ ClientTypes /\ ClientInv /\ ServerInv
      /\ \A k \in ToSet(inbox) : k \in Messages /\ k.client \in Clients /\ Awaited(k)
      /\ \A s \in outstanding : s.client \in Clients
      /\ \A s \in LiveSlots : s.client \in Clients
  BY ClientFacts
<1>2. /\ client[c].state = "Open" /\ SubsessionOpen(slot)
      /\ inbox' = Append(inbox, e) /\ outstanding' = outstanding \cup {slot}
      /\ UNCHANGED <<serverVars, requestVars, sessions, iSsHandles, client>>
  BY DEF CallFunction, Send, SubsessionOpen
<1>3. \A k \in ToSet(inbox) : k.op = "ECall" => k.slot # slot
  BY DEF CallFunction, InboxHas, ToSet
<1>4. c \in Clients /\ e \in Messages /\ e.op = "ECall" /\ e.client = c /\ e.slot = slot
  BY SlotTypes DEF Messages
<1> HIDE DEF e
<1>5. Connected(c) /\ phase = "Running"
  BY <1>1, <1>2, <1>4, ConnectedRuns DEF Connected
<1>6. RequestInv' /\ LiveSlots' = LiveSlots /\ ServerInv'
  BY <1>1, <1>2, <1>5, SameServer
<1>7. \A k \in ToSet(inbox) : Follows(k, e)
  <2>1. \A k \in ToSet(inbox) : k.client = c => k.op = "ECall"
    BY <1>1, <1>2, MessageTypes DEF Awaited, Connected, BlockingOps
  <2>. QED
    BY <1>3, <1>4, <2>1 DEF Follows
<1>8. InboxInv' /\ \A k : k \in ToSet(inbox') <=> k = e \/ k \in ToSet(inbox)
  BY <1>1, <1>2, <1>4, <1>7, InboxAppend DEF InboxInv
<1>9. ClientTypes'
  BY <1>1, <1>2 DEF ClientTypes
<1>10. UNCHANGED <<sessions, iSsHandles, client>>
  BY <1>2
<1>11. \A d : Connected(d)' <=> Connected(d)
  BY <1>10 DEF Connected
<1>12. /\ \A d : HasDisconnect(d)' <=> HasDisconnect(d)
       /\ \A s : HasCall(s)' <=> HasCall(s) \/ s = slot
  BY <1>4, <1>8 DEF HasDisconnect, HasCall
<1>13. \A k \in ToSet(inbox') : Awaited(k)'
  BY <1>1, <1>2, <1>4, <1>8, <1>10, <1>11 DEF Awaited, SubsessionOpen, Calling
<1>14. ClientInv'
  <2>1. \A d \in Clients : d \in sessions' <=> Connected(d)' \/ HasDisconnect(d)'
    BY <1>1, <1>10, <1>11, <1>12 DEF ClientInv
  <2>2. \A s \in LiveSlots' : /\ s.client \in sessions' /\ SubsessionOpen(s)'
                              /\ Connected(s.client)' => s \in outstanding'
    BY <1>1, <1>2, <1>6, <1>10, <1>11 DEF ClientInv, SubsessionOpen
  <2>3. \A s \in outstanding' : /\ client'[s.client].state \in Calling
                                /\ HasCall(s)' \/ s \in LiveSlots'
    BY <1>1, <1>2, <1>6, <1>10, <1>12 DEF ClientInv, Calling
  <2>. QED
    BY <1>13, <2>1, <2>2, <2>3 DEF ClientInv
<1>. QED
  BY <1>6, <1>8, <1>9, <1>14 DEF ScsInv

LEMMA CloseHandleStep ==
    ASSUME ScsInv, NEW c \in Clients, CloseHandle(c)
    PROVE  ScsInv'
<1> DEFINE Record == [state : ClientStates, retries : 0 .. 2, shutdown : BOOLEAN]
           e == [op |-> "Disconnect", client |-> c]
           r == [NewClient EXCEPT !.state = IF client[c].shutdown THEN "AwaitExit" ELSE "Closed"]
<1>1. /\ InboxInv /\ RequestInv /\ ClientTypes /\ ClientInv /\ ServerInv
      /\ \A k \in ToSet(inbox) : k \in Messages /\ k.client \in Clients /\ Awaited(k)
      /\ \A s \in outstanding : s.client \in Clients
      /\ \A s \in LiveSlots : s.client \in Clients
  BY ClientFacts
<1>2. /\ client[c].state = "PreClosed" /\ client' = [client EXCEPT ![c] = r]
      /\ inbox' = Append(inbox, e)
      /\ UNCHANGED <<serverVars, requestVars, sessions, iSsHandles, outstanding>>
  BY DEF CloseHandle, Send
<1>3. e \in Messages /\ e.op = "Disconnect" /\ e.client = c
  BY DEF Messages
<1>4. r \in Record /\ r.state \in {"AwaitExit", "Closed"}
  <2> DEFINE x == IF client[c].shutdown THEN "AwaitExit" ELSE "Closed"
  <2>1. x \in {"AwaitExit", "Closed"} /\ x \in ClientStates /\ NewClient \in Record
    BY DEF NewClient, ClientStates
  <2>2. r = [NewClient EXCEPT !.state = x]
    OBVIOUS
  <2>. HIDE DEF x, r
  <2>. QED
    BY <2>1, <2>2
<1> HIDE DEF e, r
<1>5. /\ client \in [Clients -> Record] /\ UNCHANGED <<sessions, iSsHandles, outstanding>>
  BY <1>1, <1>2 DEF ClientTypes
<1>6. /\ client' \in [Clients -> Record]
      /\ client'[c] = r
      /\ \A d \in Clients : d # c => client'[d] = client[d]
  BY <1>2, <1>4, <1>5
<1>7. Connected(c) /\ c \in sessions /\ phase = "Running"
  BY <1>1, <1>2, ConnectedRuns DEF Connected
<1>8. RequestInv' /\ LiveSlots' = LiveSlots /\ ServerInv'
  BY <1>1, <1>2, <1>7, SameServer
<1>9. \A k \in ToSet(inbox) : k.client # c
  BY <1>1, <1>2, MessageTypes DEF Awaited, Connected, Calling, BlockingOps
<1>10. InboxInv' /\ \A k : k \in ToSet(inbox') <=> k = e \/ k \in ToSet(inbox)
  <2>1. \A k \in ToSet(inbox) : Follows(k, e)
    BY <1>3, <1>9 DEF Follows
  <2>. QED
    BY <1>1, <1>2, <1>3, <2>1, InboxAppend DEF InboxInv
<1>11. ClientTypes'
  BY <1>1, <1>4, <1>5, <1>6 DEF ClientTypes, Connecting
<1>12. /\ ~Connected(c)'
       /\ \A d \in Clients : d # c => (Connected(d)' <=> Connected(d))
  BY <1>4, <1>6 DEF Connected
<1>13. \A s \in outstanding : s.client # c
  BY <1>1, <1>2 DEF ClientInv, Calling
<1>14. \A k \in ToSet(inbox') : Awaited(k)'
  BY <1>1, <1>3, <1>5, <1>6, <1>9, <1>10, <1>12 DEF Awaited, SubsessionOpen
<1>15. /\ HasDisconnect(c)'
       /\ \A d \in Clients : d # c => (HasDisconnect(d)' <=> HasDisconnect(d))
       /\ \A s : HasCall(s)' <=> HasCall(s)
  BY <1>3, <1>10 DEF HasDisconnect, HasCall
<1>16. ClientInv'
  <2>1. \A d \in Clients : d \in sessions' <=> Connected(d)' \/ HasDisconnect(d)'
    BY <1>1, <1>5, <1>7, <1>12, <1>15 DEF ClientInv
  <2>2. \A s \in LiveSlots' : /\ s.client \in sessions' /\ SubsessionOpen(s)'
                              /\ Connected(s.client)' => s \in outstanding'
    BY <1>1, <1>5, <1>8, <1>12 DEF ClientInv, SubsessionOpen
  <2>3. \A s \in outstanding' : /\ client'[s.client].state \in Calling
                                /\ HasCall(s)' \/ s \in LiveSlots'
    BY <1>1, <1>5, <1>6, <1>8, <1>13, <1>15 DEF ClientInv
  <2>. QED
    BY <1>14, <2>1, <2>2, <2>3 DEF ClientInv
<1>. QED
  BY <1>8, <1>10, <1>11, <1>16 DEF ScsInv

\* The death of a connected client, whose requests may be deleted in the same step
LEMMA DropClient ==
    ASSUME ScsInv, NEW c \in Clients, Connected(c), Drop(c, inbox),
           UNCHANGED <<sessions, iSsHandles>>, LiveSlots' \subseteq LiveSlots,
           \A s \in LiveSlots : s.client # c => s \in LiveSlots'
    PROVE  InboxInv' /\ ClientTypes' /\ ClientInv'
<1> DEFINE Record == [state : ClientStates, retries : 0 .. 2, shutdown : BOOLEAN]
           e == [op |-> "Disconnect", client |-> c]
<1>1. /\ InboxInv /\ ClientTypes /\ ClientInv /\ ServerInv
      /\ \A k \in ToSet(inbox) : k \in Messages /\ k.client \in Clients /\ Awaited(k)
      /\ \A s \in outstanding : s.client \in Clients
      /\ \A s \in LiveSlots : s.client \in Clients
  BY ClientFacts
<1>2. /\ InboxInv'
      /\ \A k : k \in ToSet(inbox') <=> (k \in ToSet(inbox) /\ k.client # c) \/ k = e
  BY <1>1, DropInbox DEF InboxInv
<1>3. /\ client' = [client EXCEPT ![c] = NewClient]
      /\ outstanding' = {s \in outstanding : s.client # c}
  BY DEF Drop
<1>4. e.op = "Disconnect" /\ e.client = c
  OBVIOUS
<1> HIDE DEF e
<1>5. client \in [Clients -> Record] /\ NewClient \in Record /\ NewClient.state = "Closed"
  BY <1>1 DEF ClientTypes, NewClient, ClientStates
<1>6. /\ client' \in [Clients -> Record] /\ client'[c].state = "Closed"
      /\ \A d \in Clients : d # c => client'[d] = client[d]
  BY <1>3, <1>5
<1>7. ClientTypes'
  BY <1>1, <1>3, <1>6 DEF ClientTypes, Connecting
<1>8. /\ ~Connected(c)'
      /\ \A d \in Clients : d # c => (Connected(d)' <=> Connected(d))
  BY <1>6 DEF Connected
<1>9. c \in sessions
  BY <1>1 DEF ClientInv
<1>10. \A k \in ToSet(inbox') : Awaited(k)'
  <2>1. SUFFICES ASSUME NEW k \in ToSet(inbox') PROVE Awaited(k)'
    OBVIOUS
  <2>2. CASE k = e
    BY <1>4, <1>8, <2>2 DEF Awaited
  <2>3. CASE k \in ToSet(inbox) /\ k.client # c
    BY <1>1, <1>3, <1>6, <1>8, <2>3 DEF Awaited, SubsessionOpen
  <2>. QED
    BY <1>2, <2>2, <2>3
<1>11. /\ HasDisconnect(c)'
       /\ \A d \in Clients : d # c => (HasDisconnect(d)' <=> HasDisconnect(d))
  BY <1>2, <1>4 DEF HasDisconnect
<1>12. \A s : s.client # c /\ HasCall(s) => HasCall(s)'
  <2>1. \A k \in ToSet(inbox) : k.op = "ECall" => k.slot.client = k.client
    BY <1>1 DEF Awaited
  <2>. QED
    BY <1>2, <2>1 DEF HasCall
<1>13. ClientInv'
  <2>1. \A d \in Clients : d \in sessions' <=> Connected(d)' \/ HasDisconnect(d)'
    BY <1>1, <1>8, <1>9, <1>11 DEF ClientInv
  <2>2. \A s \in LiveSlots' : /\ s.client \in sessions' /\ SubsessionOpen(s)'
                              /\ Connected(s.client)' => s \in outstanding'
    BY <1>1, <1>3, <1>8 DEF ClientInv, SubsessionOpen
  <2>3. \A s \in outstanding' : /\ client'[s.client].state \in Calling
                                /\ HasCall(s)' \/ s \in LiveSlots'
    BY <1>1, <1>3, <1>6, <1>12 DEF ClientInv
  <2>. QED
    BY <1>10, <2>1, <2>2, <2>3 DEF ClientInv
<1>. QED
  BY <1>2, <1>7, <1>13

LEMMA DieStep ==
    ASSUME ScsInv, NEW c \in Clients, Die(c)
    PROVE  ScsInv'
<1>1. RequestInv /\ ServerInv /\ ClientInv
  BY DEF ScsInv
<1>2. /\ Connected(c) /\ Drop(c, inbox)
      /\ UNCHANGED <<serverVars, requestVars, sessions, iSsHandles>>
  BY DEF Die
<1>3. phase = "Running"
  BY <1>1, <1>2, ConnectedRuns
<1>4. RequestInv' /\ LiveSlots' = LiveSlots /\ ServerInv'
  BY <1>1, <1>2, <1>3, SameServer
<1>5. UNCHANGED <<sessions, iSsHandles>>
  BY <1>2
<1>6. InboxInv' /\ ClientTypes' /\ ClientInv'
  BY <1>2, <1>4, <1>5, DropClient
<1>. QED
  BY <1>4, <1>6 DEF ScsInv

-----------------------------------------------------------------------------
(* The steps of the server: messages *)

\* A step of a running server that leaves its sessions alone while there are some
LEMMA BusyServer ==
    ASSUME ServerInv, phase = "Running", sessions # {}, UNCHANGED <<serverVars, sessions>>,
           iAsyncCleanup' \in BOOLEAN
    PROVE  ServerInv'
<1>1. TimerIffIdle'
  BY DEF ServerInv, TimerIffIdle, serverVars, timerVars
<1>. QED
  BY <1>1 DEF ServerInv, serverVars, timerVars

\* The call a client is blocked in is served: nothing else of that client is left in the
\* inbox.
LEMMA AnswerClient ==
    ASSUME ScsInv, inbox # <<>>, Head(inbox).op \in BlockingOps,
           NEW st \in {"Open", "PreClosed"}, Answer(st), UNCHANGED sessions,
           iSsHandles' \in [Clients -> SUBSET Subsessions],
           \A d \in Clients : d # Sender => iSsHandles'[d] = iSsHandles[d],
           LiveSlots' \subseteq LiveSlots, outstanding' \subseteq outstanding,
           \A s \in LiveSlots' : /\ s.client = Sender => SubsessionOpen(s)'
                                 /\ s \in outstanding => s \in outstanding',
           \A s \in outstanding : HasCall(s) => s \in outstanding',
           \A s \in outstanding' : s \in LiveSlots => s \in LiveSlots' \/ HasCall(s),
           st = "PreClosed" => \A s \in outstanding' : s.client # Sender
    PROVE  InboxInv' /\ ClientTypes' /\ ClientInv' /\ sessions # {}
<1> DEFINE Record == [state : ClientStates, retries : 0 .. 2, shutdown : BOOLEAN]
           h == Head(inbox)
           c == h.client
<1>1. /\ InboxInv /\ ClientTypes /\ ClientInv /\ ServerInv
      /\ \A k \in ToSet(inbox) : k \in Messages /\ k.client \in Clients /\ Awaited(k)
      /\ \A s \in outstanding : s.client \in Clients
      /\ \A s \in LiveSlots : s.client \in Clients
  BY ClientFacts
<1>2. /\ client' = [client EXCEPT ![c].state = st] /\ inbox' = Tail(inbox) /\ Sender = c
  BY DEF Answer, Goto, Sender
<1>3. /\ c \in Clients /\ Awaited(h)
      /\ Tail(inbox) \in Seq(Messages) /\ Ordered(Tail(inbox))
      /\ \A m : m \in ToSet(inbox) <=> m = h \/ m \in ToSet(Tail(inbox))
      /\ \A m \in ToSet(Tail(inbox)) : Follows(h, m)
  BY <1>1, InboxHead DEF Sender
<1> HIDE DEF h, c
<1>4. \A k \in ToSet(Tail(inbox)) : k.client # c
  BY <1>3 DEF Follows, BlockingOps, h, c
<1>5. client[c].state = "Blocked" /\ h.op \in BlockingOps
  BY <1>3 DEF Awaited, BlockingOps, h, c
<1>6. InboxInv'
  BY <1>2, <1>3 DEF InboxInv
<1>7. client \in [Clients -> Record]
  BY <1>1 DEF ClientTypes
<1>8. /\ client' \in [Clients -> Record] /\ client'[c].state = st
      /\ \A d \in Clients : d # c => client'[d] = client[d]
  BY <1>2, <1>3, <1>7 DEF ClientStates
<1>9. ClientTypes'
  BY <1>1, <1>8 DEF ClientTypes, Connecting
<1>10. /\ Connected(c)
       /\ \A d \in Clients : Connected(d)' <=> Connected(d)
  BY <1>5, <1>8 DEF Connected
<1>11. /\ \A d : HasDisconnect(d)' <=> HasDisconnect(d)
       /\ \A s : HasCall(s)' <=> HasCall(s)
  <2>1. h.op \notin {"Disconnect", "ECall"}
    BY <1>5 DEF BlockingOps
  <2>. QED
    BY <1>2, <1>3, <2>1 DEF HasDisconnect, HasCall
<1>12. \A k \in ToSet(inbox') : Awaited(k)'
  <2>1. SUFFICES ASSUME NEW k \in ToSet(Tail(inbox)) PROVE Awaited(k)'
    BY <1>2
  <2>2. /\ k.client \in Clients /\ k.client # c /\ Awaited(k)
        /\ k \in ToSet(inbox)
    BY <1>1, <1>3, <1>4
  <2>3. client'[k.client] = client[k.client] /\ iSsHandles'[k.client] = iSsHandles[k.client]
    BY <1>2, <1>8, <2>2
  <2>4. k.op = "ECall" => k.slot \in outstanding'
    BY <2>2 DEF Awaited, HasCall
  <2>. QED
    BY <1>10, <2>2, <2>3, <2>4 DEF Awaited, SubsessionOpen
<1>13. ClientInv'
  <2>1. \A d \in Clients : d \in sessions' <=> Connected(d)' \/ HasDisconnect(d)'
    BY <1>1, <1>10, <1>11 DEF ClientInv
  <2>2. \A s \in LiveSlots' : /\ s.client \in sessions' /\ SubsessionOpen(s)'
                              /\ Connected(s.client)' => s \in outstanding'
    <3>1. \A s \in LiveSlots' : s.client # c => iSsHandles'[s.client] = iSsHandles[s.client]
      BY <1>1, <1>2
    <3>. QED
      BY <1>1, <1>2, <1>10, <3>1 DEF ClientInv, SubsessionOpen
  <2>3. \A s \in outstanding' : /\ client'[s.client].state \in Calling
                                /\ HasCall(s)' \/ s \in LiveSlots'
    BY <1>1, <1>2, <1>8, <1>11 DEF ClientInv, Calling
  <2>. QED
    BY <1>12, <2>1, <2>2, <2>3 DEF ClientInv
<1>14. c \in sessions
  BY <1>1, <1>3, <1>10 DEF ClientInv
<1>. QED
  BY <1>6, <1>9, <1>13, <1>14

LEMMA CancelAsyncRequestStep ==
    ASSUME ScsInv, CancelAsyncRequest
    PROVE  ScsInv'
<1> DEFINE slot == Head(inbox).slot
<1>1. /\ RequestInv /\ ServerInv /\ ClientInv /\ ClientTypes /\ iAsyncCleanup \in BOOLEAN
      /\ phase = "Running" /\ inbox # <<>> /\ Head(inbox).op = "ECancel"
      /\ CompleteAndMarkForDeletion(Find(slot)) /\ Answer("Open")
      /\ UNCHANGED <<serverVars, sessions, iSsHandles>>
  BY DEF ScsInv, ServerInv, CancelAsyncRequest, Serve
<1> HIDE DEF slot
<1>2. LiveAt(Find(slot)) /\ SlotsAt(Find(slot)) = LiveSlots \cap {slot}
  BY <1>1, FoundSlots
<1>3. /\ RequestInv'
      /\ LiveSlots' = LiveSlots \ SlotsAt(Find(slot))
      /\ outstanding' = {s \in outstanding : HasCall(s) \/ s \notin SlotsAt(Find(slot))}
      /\ iAsyncCleanup' = (iAsyncCleanup \/ SlotsAt(Find(slot)) # {})
  BY <1>1, <1>2, CompleteRequests
<1>4. /\ iSsHandles' = iSsHandles /\ sessions' = sessions
      /\ iSsHandles \in [Clients -> SUBSET Subsessions]
      /\ \A s \in LiveSlots : SubsessionOpen(s)
  BY <1>1 DEF ClientTypes, ClientInv
<1>5. \A s \in LiveSlots' : SubsessionOpen(s)'
  BY <1>3, <1>4 DEF SubsessionOpen
<1>6. InboxInv' /\ ClientTypes' /\ ClientInv' /\ sessions # {}
  BY <1>1, <1>2, <1>3, <1>4, <1>5, AnswerClient DEF BlockingOps
<1>7. ServerInv'
  BY <1>1, <1>3, <1>6, BusyServer
<1>. QED
  BY <1>3, <1>6, <1>7 DEF ScsInv

LEMMA ServiceCreateSubsessionStep ==
    ASSUME ScsInv, ServiceCreateSubsession
    PROVE  ScsInv'
<1>1. /\ RequestInv /\ ServerInv /\ ClientInv /\ ClientTypes /\ InboxInv
      /\ phase = "Running" /\ inbox # <<>> /\ Head(inbox).op = "ECreateSubsession"
      /\ Answer("Open")
      /\ UNCHANGED <<serverVars, requestVars, sessions, outstanding>>
  BY DEF ScsInv, ServiceCreateSubsession, Serve
<1>2. RequestInv' /\ LiveSlots' = LiveSlots /\ ServerInv'
  BY <1>1, SameServer
<1>3. iSsHandles \in [Clients -> SUBSET Subsessions] /\ \A s \in LiveSlots : SubsessionOpen(s)
  BY <1>1 DEF ClientTypes, ClientInv
<1>4. Sender \in Clients
  BY <1>1, InboxHead
<1>5. /\ iSsHandles' \in [Clients -> SUBSET Subsessions]
      /\ \A d \in Clients : d # Sender => iSsHandles'[d] = iSsHandles[d]
      /\ iSsHandles[Sender] \subseteq iSsHandles'[Sender]
  <2>1. CASE UNCHANGED iSsHandles
    BY <1>3, <2>1
  <2>2. CASE \E u \in Subsessions \ iSsHandles[Sender] :
               iSsHandles' = [iSsHandles EXCEPT ![Sender] = @ \cup {u}]
    BY <1>3, <1>4, <2>2
  <2>. QED
    BY <2>1, <2>2 DEF ServiceCreateSubsession
<1>6. \A s \in LiveSlots' : s.client = Sender => SubsessionOpen(s)'
  BY <1>2, <1>3, <1>5 DEF SubsessionOpen
<1>7. outstanding' = outstanding /\ sessions' = sessions
  BY <1>1
<1>8. InboxInv' /\ ClientTypes' /\ ClientInv'
  BY <1>1, <1>2, <1>5, <1>6, <1>7, AnswerClient DEF BlockingOps
<1>. QED
  BY <1>2, <1>8 DEF ScsInv

LEMMA ServiceCloseSubsessionStep ==
    ASSUME ScsInv, ServiceCloseSubsession
    PROVE  ScsInv'
<1> DEFINE u == Head(inbox).sub
           c == Sender
           I == OfSubsession(c, u)
<1>1. /\ RequestInv /\ ServerInv /\ ClientInv /\ ClientTypes /\ InboxInv
      /\ iAsyncCleanup \in BOOLEAN
      /\ phase = "Running" /\ inbox # <<>> /\ Head(inbox).op = "ECloseSubsession"
      /\ CompleteAndMarkForDeletion(I) /\ Answer("Open")
      /\ iSsHandles' = [iSsHandles EXCEPT ![c] = @ \ {u}]
      /\ UNCHANGED <<serverVars, sessions>>
  BY DEF ScsInv, ServerInv, ServiceCloseSubsession, Serve
<1>2. c \in Clients
  BY <1>1, InboxHead
<1> HIDE DEF u, c
<1>3. LiveAt(I) /\ SlotsAt(I) = {s \in LiveSlots : s.client = c /\ s.sub = u}
  BY <1>1, FoundSlots
<1> HIDE DEF I
<1>4. /\ RequestInv'
      /\ LiveSlots' = LiveSlots \ SlotsAt(I)
      /\ outstanding' = {s \in outstanding : HasCall(s) \/ s \notin SlotsAt(I)}
      /\ iAsyncCleanup' = (iAsyncCleanup \/ SlotsAt(I) # {})
  BY <1>1, <1>3, CompleteRequests
<1>5. iSsHandles \in [Clients -> SUBSET Subsessions] /\ \A s \in LiveSlots : SubsessionOpen(s)
  BY <1>1 DEF ClientTypes, ClientInv
<1>6. /\ iSsHandles' \in [Clients -> SUBSET Subsessions]
      /\ \A d \in Clients : d # c => iSsHandles'[d] = iSsHandles[d]
      /\ iSsHandles'[c] = iSsHandles[c] \ {u}
  BY <1>1, <1>2, <1>5
<1>7. \A s \in LiveSlots' : s.client = c => SubsessionOpen(s)'
  BY <1>3, <1>4, <1>5, <1>6 DEF SubsessionOpen
<1>8. sessions' = sessions
  BY <1>1
<1>9. InboxInv' /\ ClientTypes' /\ ClientInv' /\ sessions # {}
  BY <1>1, <1>3, <1>4, <1>6, <1>7, <1>8, AnswerClient DEF BlockingOps, c
<1>10. ServerInv'
  BY <1>1, <1>4, <1>9, BusyServer
<1>. QED
  BY <1>4, <1>9, <1>10 DEF ScsInv

LEMMA PreCloseSessionStep ==
    ASSUME ScsInv, PreCloseSession
    PROVE  ScsInv'
<1> DEFINE c == Sender
           I == OfSession(c)
<1>1. /\ RequestInv /\ ServerInv /\ ClientInv /\ ClientTypes /\ InboxInv
      /\ iAsyncCleanup \in BOOLEAN
      /\ phase = "Running" /\ inbox # <<>> /\ Head(inbox).op = "EPreCloseSession"
      /\ CompleteAndMarkForDeletion(I) /\ Answer("PreClosed")
      /\ UNCHANGED <<serverVars, sessions, iSsHandles>>
  BY DEF ScsInv, ServerInv, PreCloseSession, Serve
<1>2. /\ Head(inbox).client = c
      /\ \A m : m \in ToSet(inbox) <=> m = Head(inbox) \/ m \in ToSet(Tail(inbox))
      /\ \A m \in ToSet(Tail(inbox)) : Follows(Head(inbox), m)
  BY <1>1, InboxHead DEF Sender
<1>3. \A m \in ToSet(inbox) : m.op = "ECall" => m.client # c /\ m.slot.client = m.client
  BY <1>1, <1>2 DEF Follows, ClientInv, Awaited
<1> HIDE DEF c
<1>4. LiveAt(I) /\ SlotsAt(I) = {s \in LiveSlots : s.client = c}
  BY <1>1, FoundSlots
<1> HIDE DEF I
<1>5. /\ RequestInv'
      /\ LiveSlots' = LiveSlots \ SlotsAt(I)
      /\ outstanding' = {s \in outstanding : HasCall(s) \/ s \notin SlotsAt(I)}
      /\ iAsyncCleanup' = (iAsyncCleanup \/ SlotsAt(I) # {})
  BY <1>1, <1>4, CompleteRequests
<1>6. iSsHandles \in [Clients -> SUBSET Subsessions] /\ iSsHandles' = iSsHandles
      /\ sessions' = sessions /\ \A s \in LiveSlots : SubsessionOpen(s)
  BY <1>1 DEF ClientTypes, ClientInv
<1>7. \A s \in LiveSlots' : SubsessionOpen(s)'
  BY <1>5, <1>6 DEF SubsessionOpen
<1>8. \A s \in outstanding' : s.client # c
  <2>1. \A s : HasCall(s) => s.client # c
    BY <1>3 DEF HasCall
  <2>2. \A s \in outstanding : s.client = c => s \in LiveSlots
    BY <1>1, <2>1 DEF ClientInv
  <2>. QED
    BY <1>4, <1>5, <2>1, <2>2
<1>9. InboxInv' /\ ClientTypes' /\ ClientInv' /\ sessions # {}
  BY <1>1, <1>4, <1>5, <1>6, <1>7, <1>8, AnswerClient DEF BlockingOps, c
<1>10. ServerInv'
  BY <1>1, <1>5, <1>9, BusyServer
<1>. QED
  BY <1>5, <1>9, <1>10 DEF ScsInv

\* The session counts itself, or its client goes on without one.
LEMMA NewSessionStep ==
    ASSUME ScsInv, ScsAssumption, NewSession
    PROVE  ScsInv'
<1>0. SUFFICES ASSUME NEW c, c = Sender
               PROVE  ScsInv'
  OBVIOUS
<1> DEFINE Record == [state : ClientStates, retries : 0 .. 2, shutdown : BOOLEAN]
           h == Head(inbox)
           o == [NewClient EXCEPT !.state = "Open"]
<1>1. /\ InboxInv /\ RequestInv /\ ClientTypes /\ ClientInv /\ ServerInv
      /\ \A k \in ToSet(inbox) : k \in Messages /\ k.client \in Clients /\ Awaited(k)
      /\ \A s \in outstanding : s.client \in Clients
      /\ \A s \in LiveSlots : s.client \in Clients
  BY ClientFacts
<1>2. /\ phase = "Running" /\ ~iAsyncCleanup /\ inbox # <<>> /\ h.op = "Connect"
      /\ inbox' = Tail(inbox)
      /\ UNCHANGED <<phase, iImmediateTimeoutNextRestart, requestVars, iSsHandles, outstanding>>
      /\ \/ /\ client' = [client EXCEPT ![c] = o] /\ sessions' = sessions \cup {c}
            /\ iSessionCount' = iSessionCount + 1
            /\ iShutdownTimer' = IF iSessionCount' = 1 THEN "None" ELSE iShutdownTimer
         \/ /\ client' = [client EXCEPT ![c] = NewClient]
            /\ UNCHANGED <<iSessionCount, iShutdownTimer, sessions>>
  BY <1>0 DEF NewSession, Serve, IncrementSessionCount
<1>3. /\ c \in Clients /\ Awaited(h) /\ h.client = c
      /\ Tail(inbox) \in Seq(Messages) /\ Ordered(Tail(inbox))
      /\ \A m : m \in ToSet(inbox) <=> m = h \/ m \in ToSet(Tail(inbox))
      /\ \A m \in ToSet(Tail(inbox)) : Follows(h, m)
  BY <1>0, <1>1, <1>2, InboxHead DEF Sender
<1> HIDE DEF h
<1>4. \A k \in ToSet(Tail(inbox)) : k.client # c
  BY <1>2, <1>3 DEF Follows
<1>5. client[c].state = "Connecting"
  BY <1>2, <1>3 DEF Awaited
<1>6. ~Connected(c) /\ ~HasDisconnect(c) /\ c \notin sessions
  <2>1. ~Connected(c)
    BY <1>5 DEF Connected
  <2>2. ~HasDisconnect(c)
    BY <1>2, <1>3, <1>4 DEF HasDisconnect
  <2>. QED
    BY <1>1, <1>3, <2>1, <2>2 DEF ClientInv
<1>7. /\ o \in Record /\ o.state = "Open"
      /\ NewClient \in Record /\ NewClient.state = "Closed"
  <2>1. NewClient \in Record /\ NewClient.state = "Closed"
    BY DEF NewClient, ClientStates
  <2>2. "Open" \in ClientStates
    BY DEF ClientStates
  <2>. QED
    BY <2>1, <2>2
<1> HIDE DEF o
<1>8. client \in [Clients -> Record] /\ sessions \subseteq Clients
  BY <1>1 DEF ClientTypes
<1>9. /\ client' \in [Clients -> Record]
      /\ \A d \in Clients : d # c => client'[d] = client[d]
      /\ \/ client'[c].state = "Open" /\ sessions' = sessions \cup {c}
         \/ client'[c].state = "Closed" /\ sessions' = sessions
      /\ sessions' \subseteq Clients
  <2>1. CASE client' = [client EXCEPT ![c] = o] /\ sessions' = sessions \cup {c}
    <3>1. client' \in [Clients -> Record] /\ client'[c] = o
      BY <1>3, <1>7, <1>8, <2>1
    <3>2. \A d \in Clients : d # c => client'[d] = client[d]
      BY <1>8, <2>1
    <3>3. sessions' \subseteq Clients
      BY <1>3, <1>8, <2>1
    <3>. QED
      BY <1>7, <2>1, <3>1, <3>2, <3>3
  <2>2. CASE client' = [client EXCEPT ![c] = NewClient] /\ sessions' = sessions
    <3>1. client' \in [Clients -> Record] /\ client'[c] = NewClient
      BY <1>3, <1>7, <1>8, <2>2
    <3>2. \A d \in Clients : d # c => client'[d] = client[d]
      BY <1>8, <2>2
    <3>. QED
      BY <1>7, <1>8, <2>2, <3>1, <3>2
  <2>. QED
    BY <1>2, <2>1, <2>2
<1>10. InboxInv'
  BY <1>2, <1>3 DEF InboxInv
<1>11. RequestInv' /\ LiveSlots' = LiveSlots
  BY <1>1, <1>2, SameRequests
<1>12. iSsHandles' = iSsHandles /\ outstanding' = outstanding
  BY <1>2
<1>13. ClientTypes'
  BY <1>1, <1>9, <1>12 DEF ClientTypes, Connecting
<1>14. /\ \A d \in Clients : d # c => (Connected(d)' <=> Connected(d))
       /\ Connected(c)' <=> c \in sessions'
       /\ \A d \in Clients : d # c => (d \in sessions' <=> d \in sessions)
  <2>1. \A d \in Clients : d # c => (Connected(d)' <=> Connected(d))
    BY <1>9 DEF Connected
  <2>2. \A d \in Clients : d # c => (d \in sessions' <=> d \in sessions)
    BY <1>9
  <2>3. CASE client'[c].state = "Open" /\ sessions' = sessions \cup {c}
    <3>1. Connected(c)' /\ c \in sessions'
      BY <2>3 DEF Connected
    <3>. QED
      BY <2>1, <2>2, <3>1
  <2>4. CASE client'[c].state = "Closed" /\ sessions' = sessions
    <3>1. ~Connected(c)' /\ c \notin sessions'
      BY <1>6, <2>4 DEF Connected
    <3>. QED
      BY <2>1, <2>2, <3>1
  <2>. QED
    BY <1>9, <2>3, <2>4
<1>15. /\ \A d : HasDisconnect(d)' <=> HasDisconnect(d)
       /\ \A s : HasCall(s)' <=> HasCall(s)
  BY <1>2, <1>3 DEF HasDisconnect, HasCall
<1>16. \A s \in outstanding \cup LiveSlots : s.client # c
  BY <1>1, <1>5, <1>6 DEF ClientInv, Calling
<1>17. \A k \in ToSet(inbox') : Awaited(k)'
  BY <1>1, <1>2, <1>3, <1>4, <1>9, <1>12, <1>14 DEF Awaited, SubsessionOpen
<1>18. ClientInv'
  <2>1. \A d \in Clients : d \in sessions' <=> Connected(d)' \/ HasDisconnect(d)'
    BY <1>1, <1>6, <1>9, <1>14, <1>15 DEF ClientInv
  <2>2. \A s \in LiveSlots' : /\ s.client \in sessions' /\ SubsessionOpen(s)'
                              /\ Connected(s.client)' => s \in outstanding'
    BY <1>1, <1>9, <1>11, <1>12, <1>14, <1>16 DEF ClientInv, SubsessionOpen
  <2>3. \A s \in outstanding' : /\ client'[s.client].state \in Calling
                                /\ HasCall(s)' \/ s \in LiveSlots'
    BY <1>1, <1>9, <1>11, <1>12, <1>15, <1>16 DEF ClientInv
  <2>. QED
    BY <1>17, <2>1, <2>2, <2>3 DEF ClientInv
<1>19. ServerInv'
  <2>1. IsFiniteSet(sessions)
    BY <1>8, FS_Subset DEF ScsAssumption
  <2>2. /\ Cardinality(sessions \cup {c}) = Cardinality(sessions) + 1
        /\ Cardinality(sessions) \in Nat
        /\ Cardinality(sessions) = 0 <=> sessions = {}
    BY <1>6, <2>1, FS_AddElement, FS_CardinalityType, FS_EmptySet
  <2>3. /\ iSessionCount = Cardinality(sessions) /\ TimerIffIdle
        /\ iShutdownTimer \in {"None", "Running", "Expired"}
    BY <1>1 DEF ServerInv
  <2>4. CASE UNCHANGED <<iSessionCount, iShutdownTimer, sessions>>
    BY <1>1, <1>2, <2>4 DEF ServerInv, TimerIffIdle, requestVars
  <2>5. CASE /\ sessions' = sessions \cup {c} /\ iSessionCount' = iSessionCount + 1
             /\ iShutdownTimer' = IF iSessionCount' = 1 THEN "None" ELSE iShutdownTimer
    <3>1. iSessionCount' = Cardinality(sessions')
      BY <2>2, <2>3, <2>5
    <3>2. iSessionCount' = 1 <=> sessions = {}
      BY <2>2, <2>3, <2>5
    <3>3. sessions # {} => iShutdownTimer = "None"
      BY <1>2, <2>3 DEF TimerIffIdle
    <3>4. iShutdownTimer' = "None" /\ sessions' # {}
      BY <2>5, <3>2, <3>3
    <3>5. TimerIffIdle'
      BY <3>4 DEF TimerIffIdle
    <3>. QED
      BY <1>1, <1>2, <3>1, <3>4, <3>5 DEF ServerInv, requestVars
  <2>. QED
    BY <1>2, <2>4, <2>5
<1>. QED
  BY <1>10, <1>11, <1>13, <1>18, <1>19 DEF ScsInv

\* A call of a function, which the server adds, answers, or panics its client for.
LEMMA ServiceCallStep ==
    ASSUME ScsInv, ServiceCall
    PROVE  ScsInv'
<1> DEFINE h == Head(inbox)
           c == Sender
           slot == h.slot
<1>1. /\ InboxInv /\ RequestInv /\ ClientTypes /\ ClientInv /\ ServerInv
      /\ \A k \in ToSet(inbox) : k \in Messages /\ k.client \in Clients /\ Awaited(k)
      /\ \A s \in outstanding : s.client \in Clients
      /\ \A s \in LiveSlots : s.client \in Clients
  BY ClientFacts
<1>2. /\ phase = "Running" /\ inbox # <<>> /\ h.op = "ECall"
      /\ UNCHANGED <<serverVars, iAsyncCleanup, sessions, iSsHandles>>
      /\ \/ Find(slot) # {} /\ Drop(c, inbox) /\ UNCHANGED iAsyncRequests
         \/ /\ Find(slot) = {} /\ inbox' = Tail(inbox) /\ UNCHANGED <<client, outstanding>>
            /\ iAsyncRequests' = Append(iAsyncRequests,
                                        [slot |-> slot, live |-> TRUE, ready |-> FALSE])
         \/ /\ Find(slot) = {} /\ inbox' = Tail(inbox) /\ UNCHANGED <<client, iAsyncRequests>>
            /\ outstanding' = outstanding \ {slot}
  BY DEF ServiceCall, Serve
<1>3. /\ c \in Clients /\ Awaited(h) /\ h.client = c /\ h \in Messages
      /\ Tail(inbox) \in Seq(Messages) /\ Ordered(Tail(inbox))
      /\ \A m : m \in ToSet(inbox) <=> m = h \/ m \in ToSet(Tail(inbox))
      /\ \A m \in ToSet(Tail(inbox)) : Follows(h, m)
  BY <1>1, <1>2, InboxHead DEF Sender
<1>4. slot \in Slots
  BY <1>2, <1>3, MessageTypes
<1> HIDE DEF h, c
<1>5. /\ Connected(c) /\ slot.client = c /\ slot \in outstanding /\ SubsessionOpen(slot)
      /\ c \in sessions
  <2>1. /\ client[c].state \in Calling
        /\ slot.client = c /\ slot \in outstanding /\ SubsessionOpen(slot)
    BY <1>2, <1>3 DEF Awaited
  <2>2. Connected(c)
    BY <2>1 DEF Calling, Connected
  <2>. QED
    BY <1>1, <1>3, <2>1, <2>2 DEF ClientInv
<1>6. \A k \in ToSet(Tail(inbox)) : k.op = "ECall" => k.slot # slot
  BY <1>2, <1>3 DEF Follows
<1> HIDE DEF slot
<1>7. iAsyncCleanup' \in BOOLEAN
  BY <1>1, <1>2 DEF ServerInv
<1>8. ServerInv'
  BY <1>1, <1>2, <1>5, <1>7, BusyServer
<1>9. /\ iSsHandles' = iSsHandles /\ sessions' = sessions
      /\ iSsHandles \in [Clients -> SUBSET Subsessions]
  BY <1>1, <1>2 DEF ClientTypes
<1>10. CASE Find(slot) # {} /\ Drop(c, inbox) /\ UNCHANGED iAsyncRequests
  <2>1. RequestInv' /\ LiveSlots' = LiveSlots
    BY <1>1, <1>2, <1>10, SameRequests DEF requestVars
  <2>2. InboxInv' /\ ClientTypes' /\ ClientInv'
    BY <1>3, <1>5, <1>9, <1>10, <2>1, DropClient
  <2>. QED
    BY <1>8, <2>1, <2>2 DEF ScsInv
<1>14. Find(slot) = {} => slot \notin LiveSlots
  <2>1. SlotsAt({}) = {}
    BY DEF SlotsAt
  <2>. QED
    BY <1>1, <2>1, FoundSlots
<1>11. ASSUME Find(slot) = {}, inbox' = Tail(inbox), UNCHANGED client,
              RequestInv',
              \/ LiveSlots' = LiveSlots \cup {slot} /\ outstanding' = outstanding
              \/ LiveSlots' = LiveSlots /\ outstanding' = outstanding \ {slot}
       PROVE  ScsInv'
  <2>1. InboxInv'
    BY <1>3, <1>11 DEF InboxInv
  <2>2. ClientTypes'
    BY <1>1, <1>9, <1>11 DEF ClientTypes
  <2>3. slot \notin LiveSlots
    BY <1>11, <1>14
  <2>4. \A d : Connected(d)' <=> Connected(d)
    BY <1>11 DEF Connected
  <2>5. /\ \A d : HasDisconnect(d)' <=> HasDisconnect(d)
        /\ \A s : s # slot => (HasCall(s)' <=> HasCall(s))
    BY <1>2, <1>3, <1>11 DEF HasDisconnect, HasCall, slot
  <2>6. \A k \in ToSet(inbox') : Awaited(k)'
    BY <1>1, <1>3, <1>6, <1>9, <1>11, <2>4 DEF Awaited, SubsessionOpen
  <2>7. \A d \in Clients : d \in sessions' <=> Connected(d)' \/ HasDisconnect(d)'
    BY <1>1, <1>9, <2>4, <2>5 DEF ClientInv
  <2>8. \A s \in LiveSlots' : /\ s.client \in sessions' /\ SubsessionOpen(s)'
                              /\ Connected(s.client)' => s \in outstanding'
    BY <1>1, <1>5, <1>9, <1>11, <2>3, <2>4 DEF ClientInv, SubsessionOpen
  <2>9. \A s \in outstanding' : /\ client'[s.client].state \in Calling
                                /\ HasCall(s)' \/ s \in LiveSlots'
    BY <1>1, <1>11, <2>5 DEF ClientInv
  <2>10. ClientInv'
    BY <2>6, <2>7, <2>8, <2>9 DEF ClientInv
  <2>. QED
    BY <1>8, <1>11, <2>1, <2>2, <2>10 DEF ScsInv
<1>12. CASE /\ Find(slot) = {} /\ inbox' = Tail(inbox) /\ UNCHANGED <<client, outstanding>>
            /\ iAsyncRequests' = Append(iAsyncRequests,
                                        [slot |-> slot, live |-> TRUE, ready |-> FALSE])
  <2>1. slot \notin LiveSlots
    BY <1>12, <1>14
  <2>2. RequestInv' /\ LiveSlots' = LiveSlots \cup {slot}
    BY <1>1, <1>2, <1>4, <1>12, <2>1, AppendRequest
  <2>. QED
    BY <1>11, <1>12, <2>2
<1>13. CASE /\ Find(slot) = {} /\ inbox' = Tail(inbox) /\ UNCHANGED <<client, iAsyncRequests>>
            /\ outstanding' = outstanding \ {slot}
  <2>1. RequestInv' /\ LiveSlots' = LiveSlots
    BY <1>1, <1>2, <1>13, SameRequests DEF requestVars
  <2>. QED
    BY <1>11, <1>13, <2>1
<1>. QED
  BY <1>2, <1>10, <1>12, <1>13 DEF slot

LEMMA ShutdownWhenIdleStep ==
    ASSUME ScsInv, ScsAssumption, ShutdownWhenIdle
    PROVE  ScsInv'
<1> DEFINE Record == [state : ClientStates, retries : 0 .. 2, shutdown : BOOLEAN]
           h == Head(inbox)
           c == Sender
           e == [op |-> "EPreCloseSession", client |-> c]
           st == IF Transient THEN "Blocked" ELSE "Open"
<1>1. /\ InboxInv /\ RequestInv /\ ClientTypes /\ ClientInv /\ ServerInv
      /\ \A k \in ToSet(inbox) : k \in Messages /\ k.client \in Clients /\ Awaited(k)
      /\ \A s \in outstanding : s.client \in Clients
      /\ \A s \in LiveSlots : s.client \in Clients
  BY ClientFacts
<1>2. /\ phase = "Running" /\ inbox # <<>> /\ h.op = "EShutdownAsap"
      /\ inbox' = IF Transient THEN Append(Tail(inbox), e) ELSE Tail(inbox)
      /\ client' = [client EXCEPT ![c].shutdown = Transient, ![c].state = st]
      /\ iImmediateTimeoutNextRestart' = (iImmediateTimeoutNextRestart \/ Transient)
      /\ UNCHANGED <<phase, iSessionCount, iShutdownTimer, requestVars, sessions, iSsHandles,
                     outstanding>>
  BY DEF ShutdownWhenIdle, Serve
<1>3. /\ c \in Clients /\ Awaited(h) /\ h.client = c
      /\ Tail(inbox) \in Seq(Messages) /\ Ordered(Tail(inbox))
      /\ \A m : m \in ToSet(inbox) <=> m = h \/ m \in ToSet(Tail(inbox))
      /\ \A m \in ToSet(Tail(inbox)) : Follows(h, m)
  BY <1>1, <1>2, InboxHead DEF Sender
<1> HIDE DEF h, c
<1>4. e \in Messages /\ e.op = "EPreCloseSession" /\ e.client = c
  BY <1>3 DEF Messages, SyncOps
<1>5. st \in {"Open", "Blocked"} /\ (Transient => st = "Blocked") /\ st \in ClientStates
      /\ Transient \in BOOLEAN
  BY DEF ScsAssumption, ClientStates
<1> HIDE DEF e, st
<1>6. \A k \in ToSet(Tail(inbox)) : k.client # c
  BY <1>2, <1>3 DEF Follows
<1>7. client[c].state = "Blocked"
  BY <1>2, <1>3 DEF Awaited
<1>8. /\ InboxInv'
      /\ \A m \in ToSet(inbox') : m \in ToSet(Tail(inbox)) \/ (m = e /\ Transient)
      /\ \A m \in ToSet(Tail(inbox)) : m \in ToSet(inbox')
  <2>1. CASE Transient
    <3>1. \A k \in ToSet(Tail(inbox)) : Follows(k, e)
      BY <1>4, <1>6 DEF Follows
    <3>2. inbox' = Append(Tail(inbox), e)
      BY <1>2, <2>1
    <3>3. /\ Append(Tail(inbox), e) \in Seq(Messages) /\ Ordered(Append(Tail(inbox), e))
          /\ \A m : m \in ToSet(Append(Tail(inbox), e)) <=> m = e \/ m \in ToSet(Tail(inbox))
      BY <1>3, <1>4, <3>1, InboxAppend
    <3>. QED
      BY <2>1, <3>2, <3>3 DEF InboxInv
  <2>2. CASE ~Transient
    BY <1>2, <1>3, <2>2 DEF InboxInv
  <2>. QED
    BY <2>1, <2>2
<1>9. client \in [Clients -> Record] /\ UNCHANGED <<sessions, iSsHandles, outstanding>>
  BY <1>1, <1>2 DEF ClientTypes
<1>10. /\ client' \in [Clients -> Record] /\ client'[c].state = st
       /\ \A d \in Clients : d # c => client'[d] = client[d]
  <2>1. client' = [client EXCEPT ![c] = [client[c] EXCEPT !.shutdown = Transient, !.state = st]]
    BY <1>2, <1>3, <1>9
  <2>2. /\ [client[c] EXCEPT !.shutdown = Transient, !.state = st] \in Record
        /\ [client[c] EXCEPT !.shutdown = Transient, !.state = st].state = st
    BY <1>3, <1>5, <1>9
  <2>. QED
    BY <1>3, <1>9, <2>1, <2>2
<1>11. RequestInv' /\ LiveSlots' = LiveSlots
  BY <1>1, <1>2, SameRequests
<1>12. ClientTypes'
  BY <1>1, <1>5, <1>9, <1>10 DEF ClientTypes, Connecting
<1>13. \A d \in Clients : /\ Connected(d)' <=> Connected(d)
                          /\ client'[d].state \in Calling <=> client[d].state \in Calling
  BY <1>5, <1>7, <1>10 DEF Connected, Calling
<1>14. /\ \A d : HasDisconnect(d)' <=> HasDisconnect(d)
       /\ \A s : HasCall(s)' <=> HasCall(s)
  BY <1>2, <1>3, <1>4, <1>8 DEF HasDisconnect, HasCall
<1>15. \A k \in ToSet(inbox') : Awaited(k)'
  <2>1. SUFFICES ASSUME NEW k \in ToSet(inbox') PROVE Awaited(k)'
    OBVIOUS
  <2>2. CASE k \in ToSet(Tail(inbox))
    BY <1>1, <1>3, <1>6, <1>9, <1>10, <1>13, <2>2 DEF Awaited, SubsessionOpen
  <2>3. CASE k = e /\ Transient
    BY <1>4, <1>5, <1>10, <2>3 DEF Awaited
  <2>. QED
    BY <1>8, <2>2, <2>3
<1>16. ClientInv'
  <2>1. \A d \in Clients : d \in sessions' <=> Connected(d)' \/ HasDisconnect(d)'
    BY <1>1, <1>9, <1>13, <1>14 DEF ClientInv
  <2>2. \A s \in LiveSlots' : /\ s.client \in sessions' /\ SubsessionOpen(s)'
                              /\ Connected(s.client)' => s \in outstanding'
    BY <1>1, <1>9, <1>11, <1>13 DEF ClientInv, SubsessionOpen
  <2>3. \A s \in outstanding' : /\ client'[s.client].state \in Calling
                                /\ HasCall(s)' \/ s \in LiveSlots'
    BY <1>1, <1>9, <1>11, <1>13, <1>14 DEF ClientInv
  <2>. QED
    BY <1>15, <2>1, <2>2, <2>3 DEF ClientInv
<1>17. ServerInv'
  <2>1. iImmediateTimeoutNextRestart' \in BOOLEAN
    BY <1>1, <1>2, <1>5 DEF ServerInv
  <2>2. TimerIffIdle'
    BY <1>1, <1>2 DEF ServerInv, TimerIffIdle, requestVars
  <2>. QED
    BY <1>1, <1>2, <2>1, <2>2 DEF ServerInv, requestVars
<1>. QED
  BY <1>8, <1>11, <1>12, <1>16, <1>17 DEF ScsInv

\* The last session takes its requests along, and starts the timer or leaves that to the
\* deferred delete.
LEMMA DeleteSessionStep ==
    ASSUME ScsInv, ScsAssumption, DeleteSession
    PROVE  ScsInv'
<1>0. SUFFICES ASSUME NEW c, c = Sender
               PROVE  ScsInv'
  OBVIOUS
<1> DEFINE h == Head(inbox)
           I == OfSession(c)
<1>1. /\ InboxInv /\ RequestInv /\ ClientTypes /\ ClientInv /\ ServerInv
      /\ \A k \in ToSet(inbox) : k \in Messages /\ k.client \in Clients /\ Awaited(k)
      /\ \A s \in outstanding : s.client \in Clients
      /\ \A s \in LiveSlots : s.client \in Clients
  BY ClientFacts
<1>2. /\ phase = "Running" /\ ~iAsyncCleanup /\ inbox # <<>> /\ h.op = "Disconnect"
      /\ MarkForDeletion(I)
      /\ sessions' = sessions \ {c} /\ iSsHandles' = [iSsHandles EXCEPT ![c] = {}]
      /\ DecrementSessionCount /\ inbox' = Tail(inbox)
      /\ UNCHANGED <<iImmediateTimeoutNextRestart, client, outstanding>>
  BY <1>0 DEF DeleteSession, Serve
<1>3. /\ c \in Clients /\ Awaited(h) /\ h.client = c
      /\ Tail(inbox) \in Seq(Messages) /\ Ordered(Tail(inbox))
      /\ \A m : m \in ToSet(inbox) <=> m = h \/ m \in ToSet(Tail(inbox))
      /\ \A m \in ToSet(Tail(inbox)) : Follows(h, m)
  BY <1>0, <1>1, <1>2, InboxHead DEF Sender
<1> HIDE DEF h
<1>4. ~Connected(c) /\ c \in sessions /\ client[c].state \notin Calling
  <2>1. ~Connected(c) /\ HasDisconnect(c)
    BY <1>2, <1>3 DEF Awaited, HasDisconnect
  <2>2. client[c].state \notin Calling
    BY <2>1 DEF Connected, Calling
  <2>. QED
    BY <1>1, <1>3, <2>1, <2>2 DEF ClientInv
<1>5. \A k \in ToSet(Tail(inbox)) : k.client = c => k.op = "Connect"
  BY <1>2, <1>3 DEF Follows
<1>6. LiveAt(I) /\ SlotsAt(I) = {s \in LiveSlots : s.client = c}
  BY <1>1, FoundSlots
<1> HIDE DEF I
<1>7. /\ RequestInv' /\ LiveSlots' = {s \in LiveSlots : s.client # c}
      /\ iAsyncCleanup' = (I # {}) /\ iAsyncCleanup' \in BOOLEAN
  <2>1. iAsyncCleanup \in BOOLEAN
    BY <1>1 DEF ServerInv
  <2>2. RequestInv' /\ LiveSlots' = LiveSlots \ SlotsAt(I)
    BY <1>1, <1>2, <1>6, <2>1, MarkRequests DEF SlotsAt
  <2>3. LiveSlots \ SlotsAt(I) = {s \in LiveSlots : s.client # c}
    BY <1>6
  <2>. QED
    BY <1>2, <2>2, <2>3 DEF MarkForDeletion
<1>8. InboxInv'
  BY <1>2, <1>3 DEF InboxInv
<1>9. /\ iSsHandles \in [Clients -> SUBSET Subsessions] /\ sessions \subseteq Clients
      /\ iSsHandles' \in [Clients -> SUBSET Subsessions] /\ sessions' \subseteq Clients
      /\ \A d \in Clients : d # c => iSsHandles'[d] = iSsHandles[d]
  BY <1>1, <1>2, <1>3 DEF ClientTypes
<1>10. ClientTypes'
  BY <1>1, <1>2, <1>9 DEF ClientTypes
<1>11. client' = client /\ outstanding' = outstanding
  BY <1>2
<1>12. \A d : Connected(d)' <=> Connected(d)
  BY <1>11 DEF Connected
<1>13. /\ ~HasDisconnect(c)'
       /\ \A d : d # c => (HasDisconnect(d)' <=> HasDisconnect(d))
       /\ \A s : HasCall(s)' <=> HasCall(s)
  BY <1>2, <1>3, <1>5 DEF HasDisconnect, HasCall
<1>14. \A s \in outstanding : s.client # c
  BY <1>1, <1>4 DEF ClientInv
<1>15. \A k \in ToSet(inbox') : Awaited(k)'
  <2>1. SUFFICES ASSUME NEW k \in ToSet(Tail(inbox)) PROVE Awaited(k)'
    BY <1>2
  <2>2. Awaited(k) /\ k.client \in Clients
    BY <1>1, <1>3
  <2>3. k.op = "ECall" => iSsHandles'[k.client] = iSsHandles[k.client]
    BY <1>5, <1>9, <2>2
  <2>. QED
    BY <1>11, <1>12, <2>2, <2>3 DEF Awaited, SubsessionOpen
<1>16. ClientInv'
  <2>1. \A d \in Clients : d \in sessions' <=> Connected(d)' \/ HasDisconnect(d)'
    BY <1>1, <1>2, <1>4, <1>12, <1>13 DEF ClientInv
  <2>2. \A s \in LiveSlots' : /\ s.client \in sessions' /\ SubsessionOpen(s)'
                              /\ Connected(s.client)' => s \in outstanding'
    BY <1>1, <1>2, <1>7, <1>9, <1>11, <1>12 DEF ClientInv, SubsessionOpen
  <2>3. \A s \in outstanding' : /\ client'[s.client].state \in Calling
                                /\ HasCall(s)' \/ s \in LiveSlots'
    BY <1>1, <1>7, <1>11, <1>13, <1>14 DEF ClientInv
  <2>. QED
    BY <1>15, <2>1, <2>2, <2>3 DEF ClientInv
<1>17. ServerInv'
  <2>1. IsFiniteSet(sessions)
    BY <1>9, FS_Subset DEF ScsAssumption
  <2>2. /\ Cardinality(sessions \ {c}) = Cardinality(sessions) - 1
        /\ Cardinality(sessions \ {c}) = 0 <=> sessions \ {c} = {}
    <3>1. IsFiniteSet(sessions \ {c})
      BY <2>1, FS_Subset
    <3>. QED
      BY <1>4, <2>1, <3>1, FS_RemoveElement, FS_EmptySet
  <2>3. iSessionCount' = Cardinality(sessions') /\ (iSessionCount' = 0 <=> sessions' = {})
    <3>1. iSessionCount = Cardinality(sessions) /\ iSessionCount' = iSessionCount - 1
      BY <1>1, <1>2 DEF ServerInv, DecrementSessionCount
    <3>. QED
      BY <1>2, <2>2, <3>1
  <2>4. iShutdownTimer = "None"
    BY <1>1, <1>2, <1>4 DEF ServerInv, TimerIffIdle
  <2>5. CASE /\ Transient /\ iSessionCount' = 0 /\ ~iAsyncCleanup' /\ Restart
             /\ iImmediateTimeoutNextRestart
    <3>1. phase' = "Stopping" /\ iShutdownTimer' = "None" /\ sessions' = {}
      BY <2>3, <2>4, <2>5 DEF Restart
    <3>2. \A s \in LiveSlots' : FALSE
      BY <1>16, <3>1 DEF ClientInv
    <3>3. iAsyncRequests' = <<>>
      <4>1. RequestInv' /\ LiveSlots' = {} /\ ~iAsyncCleanup'
        BY <1>7, <2>5, <3>2
      <4>. QED
        BY <4>1, NoneLive DEF RequestInv, LiveSlots
    <3>4. TimerIffIdle'
      BY <3>1 DEF TimerIffIdle
    <3>. QED
      BY <1>1, <1>2, <1>7, <2>3, <2>5, <3>1, <3>3, <3>4 DEF ServerInv
  <2>6. CASE /\ Transient /\ iSessionCount' = 0 /\ ~iAsyncCleanup' /\ Restart
             /\ ~iImmediateTimeoutNextRestart
    <3>1. phase' = phase /\ iShutdownTimer' = "Running" /\ sessions' = {}
      BY <2>3, <2>6 DEF Restart
    <3>2. TimerIffIdle'
      BY <2>6, <3>1 DEF TimerIffIdle
    <3>. QED
      BY <1>1, <1>2, <1>7, <2>3, <3>1, <3>2 DEF ServerInv
  <2>7. CASE /\ ~(Transient /\ iSessionCount' = 0 /\ ~iAsyncCleanup')
             /\ UNCHANGED <<phase, iShutdownTimer>>
    <3>1. TimerIffIdle'
      BY <2>3, <2>4, <2>7 DEF TimerIffIdle
    <3>. QED
      BY <1>1, <1>2, <1>7, <2>3, <2>7, <3>1 DEF ServerInv
  <2>. QED
    BY <1>2, <2>5, <2>6, <2>7 DEF DecrementSessionCount
<1>. QED
  BY <1>7, <1>8, <1>10, <1>16, <1>17 DEF ScsInv

-----------------------------------------------------------------------------
(* The steps of the server: active objects *)

\* A step that changes nothing of the clients and their messages
LEMMA SameClients ==
    ASSUME InboxInv, ClientTypes, ClientInv,
           UNCHANGED <<sessions, iSsHandles, client, inbox, outstanding, LiveSlots>>
    PROVE  InboxInv' /\ ClientTypes' /\ ClientInv'
<1>1. InboxInv' /\ ClientTypes'
  BY DEF InboxInv, ClientTypes
<1>2. /\ sessions' = sessions /\ iSsHandles' = iSsHandles /\ client' = client
      /\ inbox' = inbox /\ outstanding' = outstanding /\ LiveSlots' = LiveSlots
  OBVIOUS
<1>3. \A k \in ToSet(inbox) : Awaited(k)'
  BY <1>2 DEF ClientInv, Awaited, Connected, SubsessionOpen
<1>4. \A d \in Clients : d \in sessions' <=> Connected(d)' \/ HasDisconnect(d)'
  BY <1>2 DEF ClientInv, Connected, HasDisconnect
<1>5. \A s \in LiveSlots' : /\ s.client \in sessions' /\ SubsessionOpen(s)'
                            /\ Connected(s.client)' => s \in outstanding'
  BY <1>2 DEF ClientInv, Connected, SubsessionOpen
<1>6. \A s \in outstanding' : /\ client'[s.client].state \in Calling
                              /\ HasCall(s)' \/ s \in LiveSlots'
  BY <1>2 DEF ClientInv, HasCall
<1>7. ClientInv'
  BY <1>2, <1>3, <1>4, <1>5, <1>6 DEF ClientInv
<1>. QED
  BY <1>1, <1>7

LEMMA ServiceCompleteStep ==
    ASSUME ScsInv, NEW i \in DOMAIN iAsyncRequests, ServiceComplete(i)
    PROVE  ScsInv'
<1>1. InboxInv /\ RequestInv /\ ClientTypes /\ ClientInv /\ ServerInv
  BY DEF ScsInv
<1>2. RequestInv' /\ LiveSlots' = LiveSlots
  BY <1>1, SignalRequest
<1>3. UNCHANGED <<serverVars, iAsyncCleanup, sessions, iSsHandles, client, inbox, outstanding>>
  BY DEF ServiceComplete
<1>4. InboxInv' /\ ClientTypes' /\ ClientInv'
  BY <1>1, <1>2, <1>3, SameClients
<1>5. phase # "Running" => iAsyncRequests' = <<>>
  <2>1. iAsyncRequests # <<>>
    OBVIOUS
  <2>. QED
    BY <1>1, <2>1 DEF ServerInv
<1>6. TimerIffIdle'
  BY <1>1, <1>3 DEF ServerInv, TimerIffIdle, serverVars, timerVars
<1>7. ServerInv'
  BY <1>1, <1>3, <1>5, <1>6 DEF ServerInv, serverVars, timerVars
<1>. QED
  BY <1>2, <1>4, <1>7 DEF ScsInv

\* A request that is ready is live, and its session with it.
LEMMA RequestRunLStep ==
    ASSUME ScsInv, NEW i \in DOMAIN iAsyncRequests, RequestRunL(i)
    PROVE  ScsInv'
<1>0. SUFFICES ASSUME NEW slot, slot = iAsyncRequests[i].slot
               PROVE  ScsInv'
  OBVIOUS
<1>1. /\ InboxInv /\ RequestInv /\ ClientTypes /\ ClientInv /\ ServerInv
      /\ \A s \in outstanding : s.client \in Clients
      /\ \A s \in LiveSlots : s.client \in Clients
  BY ClientFacts
<1>2. /\ phase = "Running" /\ iAsyncRequests[i].ready
      /\ UNCHANGED <<serverVars, sessions, iSsHandles>>
      /\ \/ CompleteAndMarkForDeletion({i}) /\ UNCHANGED <<client, inbox>>
         \/ Connected(slot.client) /\ MarkForDeletion({i}) /\ Drop(slot.client, inbox)
  BY <1>0 DEF RequestRunL
<1>3. iAsyncRequests[i].live /\ i \in 1 .. Len(iAsyncRequests)
  BY <1>1, <1>2 DEF RequestInv, ToSet
<1>4. /\ LiveAt({i}) /\ SlotsAt({i}) = {slot} /\ slot \in LiveSlots
      /\ iAsyncCleanup \in BOOLEAN
  <2>1. LiveAt({i})
    BY <1>3 DEF LiveAt
  <2>2. SlotsAt({i}) = {slot}
    BY <1>0 DEF SlotsAt
  <2>3. slot \in LiveSlots
    BY <1>0, <1>3 DEF LiveSlots, ToSet
  <2>. QED
    BY <1>1, <2>1, <2>2, <2>3 DEF ServerInv
<1>5. slot.client \in sessions /\ slot.client \in Clients
  BY <1>1, <1>4 DEF ClientInv
<1>6. MarkForDeletion({i})
  BY <1>2 DEF CompleteAndMarkForDeletion
<1>7. RequestInv' /\ LiveSlots' = LiveSlots \ {slot} /\ iAsyncCleanup' \in BOOLEAN
  <2>1. /\ RequestInv'
        /\ \A s : s \in LiveSlots' <=>
              s \in LiveSlots /\ \A j \in {i} : iAsyncRequests[j].slot # s
    BY <1>1, <1>4, <1>6, MarkRequests
  <2>2. LiveSlots' = LiveSlots \ {slot}
    BY <1>0, <2>1
  <2>3. iAsyncCleanup' \in BOOLEAN
    BY <1>4, <1>6 DEF MarkForDeletion
  <2>. QED
    BY <2>1, <2>2, <2>3
<1>8. ServerInv'
  BY <1>1, <1>2, <1>5, <1>7, BusyServer
<1>9. CASE CompleteAndMarkForDeletion({i}) /\ UNCHANGED <<client, inbox>>
  <2>1. outstanding' = {s \in outstanding : HasCall(s) \/ s # slot}
    BY <1>1, <1>4, <1>9, CompleteRequests
  <2>2. InboxInv'
    BY <1>1, <1>9 DEF InboxInv
  <2>3. ClientTypes'
    BY <1>1, <1>2, <1>9, <2>1 DEF ClientTypes
  <2>4. /\ sessions' = sessions /\ iSsHandles' = iSsHandles /\ client' = client
        /\ inbox' = inbox
    BY <1>2, <1>9
  <2>5. /\ \A d : (Connected(d)' <=> Connected(d)) /\ (HasDisconnect(d)' <=> HasDisconnect(d))
        /\ \A s : HasCall(s)' <=> HasCall(s)
    BY <2>4 DEF Connected, HasDisconnect, HasCall
  <2>6. \A k \in ToSet(inbox) : Awaited(k)'
    <3>1. SUFFICES ASSUME NEW k \in ToSet(inbox) PROVE Awaited(k)'
      OBVIOUS
    <3>2. Awaited(k) /\ (k.op = "ECall" => k.slot \in outstanding')
      BY <1>1, <2>1 DEF ClientInv, Awaited, HasCall
    <3>. QED
      BY <2>4, <2>5, <3>2 DEF Awaited, SubsessionOpen
  <2>7. \A d \in Clients : d \in sessions' <=> Connected(d)' \/ HasDisconnect(d)'
    BY <1>1, <2>4, <2>5 DEF ClientInv
  <2>8. \A s \in LiveSlots' : /\ s.client \in sessions' /\ SubsessionOpen(s)'
                              /\ Connected(s.client)' => s \in outstanding'
    BY <1>1, <1>7, <2>1, <2>4, <2>5 DEF ClientInv, SubsessionOpen
  <2>9. \A s \in outstanding' : /\ client'[s.client].state \in Calling
                                /\ HasCall(s)' \/ s \in LiveSlots'
    BY <1>1, <1>7, <2>1, <2>4, <2>5 DEF ClientInv
  <2>10. ClientInv'
    BY <2>4, <2>6, <2>7, <2>8, <2>9 DEF ClientInv
  <2>. QED
    BY <1>7, <1>8, <2>2, <2>3, <2>10 DEF ScsInv
<1>10. CASE Connected(slot.client) /\ Drop(slot.client, inbox)
  <2>1. UNCHANGED <<sessions, iSsHandles>>
    BY <1>2
  <2>2. InboxInv' /\ ClientTypes' /\ ClientInv'
    BY <1>5, <1>7, <1>10, <2>1, DropClient
  <2>. QED
    BY <1>7, <1>8, <2>2 DEF ScsInv
<1>. QED
  BY <1>2, <1>9, <1>10

\* The deferred delete
LEMMA RemoveCompletedRequestsStep ==
    ASSUME ScsInv, ScsAssumption, RemoveCompletedRequests
    PROVE  ScsInv'
<1>1. InboxInv /\ RequestInv /\ ClientTypes /\ ClientInv /\ ServerInv
  BY DEF ScsInv
<1>2. /\ phase = "Running" /\ iAsyncCleanup /\ iAsyncCleanup' = FALSE
      /\ iAsyncRequests' = Kept(iAsyncRequests, {r \in ToSet(iAsyncRequests) : r.live})
      /\ UNCHANGED <<iSessionCount, iImmediateTimeoutNextRestart, sessions, iSsHandles, client,
                     inbox, outstanding>>
  BY DEF RemoveCompletedRequests
<1>3. RequestInv' /\ LiveSlots' = LiveSlots
  BY <1>1, <1>2, KeepLiveRequests
<1>4. InboxInv' /\ ClientTypes' /\ ClientInv'
  BY <1>1, <1>2, <1>3, SameClients
<1>5. iShutdownTimer = "None"
  BY <1>1, <1>2 DEF ServerInv, TimerIffIdle
<1>6. iSessionCount = 0 <=> sessions = {}
  <2>1. IsFiniteSet(sessions)
    BY <1>1, FS_Subset DEF ClientTypes, ScsAssumption
  <2>. QED
    BY <1>1, <2>1, FS_EmptySet DEF ServerInv
<1>7. ServerInv'
  <2>1. CASE Transient /\ iSessionCount = 0 /\ Restart /\ iImmediateTimeoutNextRestart
    <3>1. phase' = "Stopping" /\ iShutdownTimer' = "None" /\ sessions' = {}
      BY <1>2, <1>5, <1>6, <2>1 DEF Restart
    <3>2. LiveSlots' = {}
      BY <1>4, <3>1 DEF ClientInv
    <3>3. RequestInv' /\ LiveSlots' = {} /\ ~iAsyncCleanup'
      BY <1>2, <1>3, <3>2
    <3>4. iAsyncRequests' = <<>>
      BY <3>3, NoneLive DEF RequestInv, LiveSlots
    <3>5. TimerIffIdle'
      BY <3>1 DEF TimerIffIdle
    <3>. QED
      BY <1>1, <1>2, <3>1, <3>4, <3>5 DEF ServerInv
  <2>2. CASE Transient /\ iSessionCount = 0 /\ Restart /\ ~iImmediateTimeoutNextRestart
    <3>1. phase' = phase /\ iShutdownTimer' = "Running" /\ sessions' = {}
      BY <1>2, <1>6, <2>2 DEF Restart
    <3>2. TimerIffIdle'
      BY <1>2, <2>2, <3>1 DEF TimerIffIdle
    <3>. QED
      BY <1>1, <1>2, <3>1, <3>2 DEF ServerInv
  <2>3. CASE ~(Transient /\ iSessionCount = 0) /\ UNCHANGED <<phase, iShutdownTimer>>
    <3>1. TimerIffIdle'
      BY <1>2, <1>5, <1>6, <2>3 DEF TimerIffIdle
    <3>. QED
      BY <1>1, <1>2, <2>3, <3>1 DEF ServerInv
  <2>. QED
    BY <2>1, <2>2, <2>3 DEF RemoveCompletedRequests
<1>. QED
  BY <1>3, <1>4, <1>7 DEF ScsInv

LEMMA TimerSteps ==
    ASSUME ScsInv, TimerExpires \/ TimerRunL
    PROVE  ScsInv'
<1>1. InboxInv /\ RequestInv /\ ClientTypes /\ ClientInv /\ ServerInv
  BY DEF ScsInv
<1>2. /\ phase = "Running" /\ iShutdownTimer # "None"
      /\ UNCHANGED <<iSessionCount, iImmediateTimeoutNextRestart, requestVars, sessions,
                     iSsHandles, client, inbox, outstanding>>
      /\ \/ iShutdownTimer' = "Expired" /\ UNCHANGED phase
         \/ iShutdownTimer' = "None" /\ phase' = "Stopping"
  BY DEF TimerExpires, TimerRunL
<1>3. RequestInv' /\ LiveSlots' = LiveSlots
  BY <1>1, <1>2, SameRequests
<1>4. InboxInv' /\ ClientTypes' /\ ClientInv'
  BY <1>1, <1>2, <1>3, SameClients
<1>5. Transient /\ sessions = {} /\ ~iAsyncCleanup
  BY <1>1, <1>2 DEF ServerInv, TimerIffIdle
<1>6. LiveSlots = {}
  BY <1>1, <1>5 DEF ClientInv
<1>7. iAsyncRequests = <<>>
  BY <1>1, <1>5, <1>6, NoRequests
<1>8. TimerIffIdle'
  BY <1>2, <1>5 DEF TimerIffIdle, requestVars
<1>9. ServerInv'
  BY <1>1, <1>2, <1>5, <1>7, <1>8 DEF ServerInv, requestVars
<1>. QED
  BY <1>3, <1>4, <1>9 DEF ScsInv

LEMMA ProcessExitStep ==
    ASSUME ScsInv, ProcessExit
    PROVE  ScsInv'
<1> DEFINE Record == [state : ClientStates, retries : 0 .. 2, shutdown : BOOLEAN]
<1>1. /\ InboxInv /\ RequestInv /\ ClientTypes /\ ClientInv /\ ServerInv
      /\ \A s \in outstanding : s.client \in Clients
  BY ClientFacts
<1>2. /\ phase = "Stopping" /\ phase' = "Absent" /\ inbox' = <<>>
      /\ client' = [c \in Clients |->
             CASE client[c].state = "Connecting" -> AfterNoServer(client[c])
               [] client[c].state = "AwaitExit"  -> NewClient
               [] OTHER -> client[c]]
      /\ UNCHANGED <<iSessionCount, timerVars, requestVars, sessions, iSsHandles, outstanding>>
  BY DEF ProcessExit
<1>3. RequestInv' /\ LiveSlots' = LiveSlots
  BY <1>1, <1>2, SameRequests
<1>4. sessions = {} /\ ~iAsyncCleanup /\ iAsyncRequests = <<>>
  BY <1>1, <1>2 DEF ServerInv
<1>5. LiveSlots = {} /\ \A c \in Clients : ~Connected(c)
  BY <1>1, <1>4 DEF ClientInv
<1>6. outstanding = {}
  BY <1>1, <1>5 DEF ClientInv, Connected, Calling
<1>7. client \in [Clients -> Record]
      /\ \A c \in Clients : client[c].state \in Connecting => client[c].retries # 0
  BY <1>1 DEF ClientTypes
<1>8. ASSUME NEW c \in Clients
      PROVE  /\ client'[c] \in Record
             /\ client'[c].state \in Connecting => client'[c].retries # 0
             /\ client'[c].state \notin {"Open", "Blocked", "PreClosed"}
  <2>1. client[c] \in Record /\ client[c].state \notin {"Open", "Blocked", "PreClosed"}
    BY <1>5, <1>7 DEF Connected
  <2>2. CASE client[c].state = "Connecting"
    <3>1. client'[c] = AfterNoServer(client[c])
      BY <1>2, <2>2
    <3>2. client[c].retries # 0
      BY <1>7, <2>2 DEF Connecting
    <3>. QED
      BY <2>1, <3>1, <3>2, NoServerTypes
  <2>3. CASE client[c].state = "AwaitExit"
    <3>1. client'[c] = NewClient
      BY <1>2, <2>3
    <3>. QED
      BY <3>1 DEF NewClient, ClientStates, Connecting
  <2>4. CASE client[c].state \notin {"Connecting", "AwaitExit"}
    <3>1. client'[c] = client[c]
      BY <1>2, <2>4
    <3>. QED
      BY <1>7, <2>1, <3>1
  <2>. QED
    BY <2>2, <2>3, <2>4
<1>9. client' \in [Clients -> Record]
  <2>1. client' = [c \in Clients |-> client'[c]]
    BY <1>2
  <2>. QED
    BY <1>8, <2>1
<1>10. ClientTypes'
  BY <1>1, <1>2, <1>8, <1>9 DEF ClientTypes
<1>11. ToSet(inbox') = {}
  BY <1>2 DEF ToSet
<1>12. InboxInv'
  BY <1>2 DEF InboxInv, Ordered
<1>13. ClientInv'
  <2>1. \A c \in Clients : ~Connected(c)' /\ ~HasDisconnect(c)'
    BY <1>8, <1>11 DEF Connected, HasDisconnect
  <2>2. sessions' = {} /\ outstanding' = {} /\ LiveSlots' = {}
    BY <1>2, <1>3, <1>4, <1>5, <1>6
  <2>. QED
    BY <1>11, <2>1, <2>2 DEF ClientInv
<1>14. ServerInv'
  <2>1. TimerIffIdle'
    BY <1>2 DEF TimerIffIdle
  <2>. QED
    BY <1>1, <1>2, <2>1 DEF ServerInv, timerVars, requestVars
<1>. QED
  BY <1>3, <1>10, <1>12, <1>13, <1>14 DEF ScsInv

-----------------------------------------------------------------------------
(* The invariant holds *)

LEMMA InitScsInv == Init => ScsInv
<1> SUFFICES ASSUME Init PROVE ScsInv
  OBVIOUS
<1>1. /\ phase = "Absent" /\ iSessionCount = 0 /\ iShutdownTimer = "None"
      /\ iImmediateTimeoutNextRestart = FALSE /\ iAsyncCleanup = FALSE
      /\ iAsyncRequests = <<>> /\ sessions = {} /\ iSsHandles = [c \in Clients |-> {}]
      /\ client = [c \in Clients |-> NewClient] /\ inbox = <<>> /\ outstanding = {}
  BY DEF Init
<1>2. ToSet(inbox) = {} /\ ToSet(iAsyncRequests) = {}
  BY <1>1 DEF ToSet
<1>3. InboxInv
  BY <1>1 DEF InboxInv, Ordered
<1>4. RequestInv
  BY <1>1, <1>2 DEF RequestInv
<1>5. \A c \in Clients : client[c].state = "Closed"
  BY <1>1 DEF NewClient
<1>6. ClientTypes
  <2>1. NewClient \in [state : ClientStates, retries : 0 .. 2, shutdown : BOOLEAN]
    BY DEF NewClient, ClientStates
  <2>. QED
    BY <1>1, <1>5, <2>1 DEF ClientTypes, Connecting
<1>7. ClientInv
  BY <1>1, <1>2, <1>5 DEF ClientInv, Connected, HasDisconnect, LiveSlots
<1>8. ServerInv
  <2>1. Cardinality(sessions) = 0
    BY <1>1, FS_EmptySet
  <2>2. TimerIffIdle
    BY <1>1 DEF TimerIffIdle
  <2>. QED
    BY <1>1, <2>1, <2>2 DEF ServerInv
<1>. QED
  BY <1>3, <1>4, <1>6, <1>7, <1>8 DEF ScsInv

\* The calls in which a client blocks
LEMMA BlockingSteps ==
    ASSUME ScsInv, NEW c \in Clients,
           \/ CreateSubsession(c) \/ Close(c) \/ ShutdownServer(c)
           \/ \E u \in Subsessions : CloseSubsession(c, u)
    PROVE  ScsInv'
<1>1. CASE CreateSubsession(c)
  <2> DEFINE m == [op |-> "ECreateSubsession", client |-> c]
  <2>1. m \in Messages /\ m.client = c /\ m.op \in BlockingOps /\ CallAndBlock(c, m)
    BY <1>1 DEF CreateSubsession, Messages, SyncOps, BlockingOps
  <2>. QED
    BY <2>1, Blocks
<1>2. CASE Close(c)
  <2> DEFINE m == [op |-> "EPreCloseSession", client |-> c]
  <2>1. m \in Messages /\ m.client = c /\ m.op \in BlockingOps /\ CallAndBlock(c, m)
    BY <1>2 DEF Close, Messages, SyncOps, BlockingOps
  <2>. QED
    BY <2>1, Blocks
<1>3. CASE ShutdownServer(c)
  <2> DEFINE m == [op |-> "EShutdownAsap", client |-> c]
  <2>1. m \in Messages /\ m.client = c /\ m.op \in BlockingOps /\ CallAndBlock(c, m)
    BY <1>3 DEF ShutdownServer, Messages, SyncOps, BlockingOps
  <2>. QED
    BY <2>1, Blocks
<1>4. ASSUME NEW u \in Subsessions, CloseSubsession(c, u)
      PROVE  ScsInv'
  <2> DEFINE m == [op |-> "ECloseSubsession", client |-> c, sub |-> u]
  <2>1. m \in Messages /\ m.client = c /\ m.op \in BlockingOps /\ CallAndBlock(c, m)
    BY <1>4 DEF CloseSubsession, Messages, BlockingOps
  <2>. QED
    BY <2>1, Blocks
<1>. QED
  BY <1>1, <1>2, <1>3, <1>4

LEMMA CancelFunctionStep ==
    ASSUME ScsInv, NEW slot \in Slots, CancelFunction(slot)
    PROVE  ScsInv'
<1> DEFINE m == [op |-> "ECancel", client |-> slot.client, slot |-> slot]
<1>1. slot.client \in Clients
  BY SlotTypes
<1>2. m \in Messages /\ m.client = slot.client /\ m.op \in BlockingOps
      /\ CallAndBlock(slot.client, m)
  BY <1>1 DEF CancelFunction, Messages, BlockingOps
<1>. QED
  BY <1>1, <1>2, Blocks

LEMMA StutterScsInv == ScsInv /\ UNCHANGED vars => ScsInv'
<1> SUFFICES ASSUME ScsInv, UNCHANGED vars PROVE ScsInv'
  OBVIOUS
<1>1. InboxInv /\ RequestInv /\ ClientTypes /\ ClientInv /\ ServerInv
  BY DEF ScsInv
<1>2. UNCHANGED <<serverVars, requestVars, sessions, iSsHandles, client, inbox, outstanding>>
  BY DEF vars
<1>3. RequestInv' /\ LiveSlots' = LiveSlots /\ ServerInv'
  BY <1>1, <1>2, SameServer
<1>4. InboxInv' /\ ClientTypes' /\ ClientInv'
  BY <1>1, <1>2, <1>3, SameClients
<1>. QED
  BY <1>3, <1>4 DEF ScsInv

\* ScsInv is an invariant: each step of a client, a message or an active object keeps it.
THEOREM ScsInvariant == Spec => []ScsInv
<1>1. Init => ScsInv
  BY InitScsInv
<1>2. ScsInv /\ [Next]_vars => ScsInv'
  <2> SUFFICES ASSUME ScsInv, [Next]_vars PROVE ScsInv'
    OBVIOUS
  <2>1. ASSUME NEW c \in Clients, CreateSession(c) PROVE ScsInv'
    BY <2>1, CreateSessionStep
  <2>2. ASSUME NEW c \in Clients, StartServerProcess(c) PROVE ScsInv'
    BY <2>2, StartServerProcessStep, ScsAssumption
  <2>3. ASSUME NEW c \in Clients,
               \/ CreateSubsession(c) \/ Close(c) \/ ShutdownServer(c)
               \/ \E u \in Subsessions : CloseSubsession(c, u)
        PROVE  ScsInv'
    BY <2>3, BlockingSteps
  <2>4. ASSUME NEW c \in Clients, CloseHandle(c) PROVE ScsInv'
    BY <2>4, CloseHandleStep
  <2>5. ASSUME NEW c \in Clients, Die(c) PROVE ScsInv'
    BY <2>5, DieStep
  <2>6. ASSUME NEW slot \in Slots, CallFunction(slot) \/ CancelFunction(slot) PROVE ScsInv'
    BY <2>6, CallFunctionStep, CancelFunctionStep
  <2>7. ASSUME ServeMessage PROVE ScsInv'
    BY <2>7, ScsAssumption, NewSessionStep, ServiceCallStep, CancelAsyncRequestStep,
       ServiceCreateSubsessionStep, ServiceCloseSubsessionStep, PreCloseSessionStep,
       ShutdownWhenIdleStep, DeleteSessionStep
       DEF ServeMessage
  <2>8. ASSUME NEW i \in DOMAIN iAsyncRequests, ServiceComplete(i) \/ RequestRunL(i)
        PROVE  ScsInv'
    BY <2>8, ServiceCompleteStep, RequestRunLStep
  <2>9. CASE RemoveCompletedRequests
    BY <2>9, RemoveCompletedRequestsStep, ScsAssumption
  <2>10. CASE TimerExpires \/ TimerRunL
    BY <2>10, TimerSteps
  <2>11. CASE ProcessExit
    BY <2>11, ProcessExitStep
  <2>12. CASE UNCHANGED vars
    BY <2>12, StutterScsInv
  <2>. QED
    BY <2>1, <2>2, <2>3, <2>4, <2>5, <2>6, <2>7, <2>8, <2>9, <2>10, <2>11, <2>12 DEF Next
<1>. QED
  BY <1>1, <1>2, PTL DEF Spec

-----------------------------------------------------------------------------
(* The properties *)

\* Every variable has its type; the session count never leaves 0 .. Cardinality(Clients).
THEOREM TypeOKHolds == Spec => []TypeOK
<1>1. ScsInv => TypeOK
  <2> SUFFICES ASSUME ScsInv PROVE TypeOK
    OBVIOUS
  <2>1. InboxInv /\ RequestInv /\ ClientTypes /\ ServerInv
    BY DEF ScsInv
  <2>2. /\ Cardinality(sessions) \in Nat /\ Cardinality(Clients) \in Nat
        /\ Cardinality(sessions) <= Cardinality(Clients)
    <3>1. IsFiniteSet(Clients) /\ sessions \subseteq Clients
      BY <2>1, ScsAssumption DEF ScsAssumption, ClientTypes
    <3>2. IsFiniteSet(sessions) /\ Cardinality(sessions) <= Cardinality(Clients)
      BY <3>1, FS_Subset
    <3>. QED
      BY <3>1, <3>2, FS_CardinalityType
  <2>3. iSessionCount \in 0 .. Cardinality(Clients)
    BY <2>1, <2>2 DEF ServerInv
  <2>. QED
    BY <2>1, <2>3 DEF TypeOK, InboxInv, RequestInv, ClientTypes, ServerInv
<1>. QED
  BY <1>1, ScsInvariant, PTL

\* A client that has been told it is connected has its session, in a running server: no
\* timer and no ShutdownServer of another client takes it away.
THEOREM ConnectedServedHolds == Spec => []ConnectedServed
<1>1. ScsInv => ConnectedServed
  BY ConnectedRuns DEF ScsInv, ConnectedServed
<1>. QED
  BY <1>1, ScsInvariant, PTL

\* The shutdown timer is active exactly while the server is idle, so CShutdownTimer::Restart
\* never finds it active.
THEOREM TimerIffIdleHolds == Spec => []TimerIffIdle
<1>1. ScsInv => TimerIffIdle
  BY DEF ScsInv, ServerInv
<1>. QED
  BY <1>1, ScsInvariant, PTL

\* ~CScsServer finds no session, no deferred delete and no request, however the scheduler
\* was stopped.
THEOREM NothingLeftAtExitHolds == Spec => []NothingLeftAtExit
<1>1. ScsInv => NothingLeftAtExit
  <2>1. ServerInv /\ phase = "Stopping" => iSessionCount = 0
    BY FS_EmptySet DEF ServerInv
  <2>. QED
    BY <2>1 DEF ScsInv, ServerInv, NothingLeftAtExit
<1>. QED
  BY <1>1, ScsInvariant, PTL

\* A request a client waits for is in the inbox or held by one live request object: a
\* cancel, a close, a panic or the deferred delete loses none and completes none twice.
THEOREM HeldOnceHolds == Spec => []HeldOnce
<1>1. ScsInv => HeldOnce
  <2> SUFFICES ASSUME ScsInv, NEW slot \in Slots
               PROVE  /\ Cardinality(Find(slot)) <= 1
                      /\ slot \in outstanding => InboxHas("ECall", slot) \/ Find(slot) # {}
                      /\ Connected(slot.client) /\ Find(slot) # {} => slot \in outstanding
    BY DEF HeldOnce
  <2>1. RequestInv /\ ClientInv
    BY DEF ScsInv
  <2>2. LiveAt(Find(slot)) /\ SlotsAt(Find(slot)) = LiveSlots \cap {slot}
    BY <2>1, FoundSlots
  <2>3. \A i \in Find(slot) : iAsyncRequests[i].slot = slot
    BY DEF Find, Indices
  <2>4. \A i, j \in Find(slot) : i = j
    BY <2>1, <2>2, <2>3 DEF LiveAt, RequestInv
  <2>5. Cardinality(Find(slot)) <= 1
    <3>1. CASE Find(slot) = {}
      BY <3>1, FS_EmptySet
    <3>2. CASE Find(slot) # {}
      <4>1. PICK i : i \in Find(slot)
        BY <3>2
      <4>2. Find(slot) = {i}
        BY <2>4, <4>1
      <4>3. Cardinality({i}) = 1
        BY FS_Singleton
      <4>. QED
        BY <4>2, <4>3
    <3>. QED
      BY <3>1, <3>2
  <2>6. slot \in LiveSlots <=> Find(slot) # {}
    <3>1. Find(slot) # {} <=> SlotsAt(Find(slot)) # {}
      BY DEF SlotsAt
    <3>. QED
      BY <2>2, <3>1
  <2>7. HasCall(slot) => InboxHas("ECall", slot)
    BY DEF HasCall, InboxHas, ToSet
  <2>. QED
    BY <2>1, <2>5, <2>6, <2>7 DEF ClientInv
<1>. QED
  BY <1>1, ScsInvariant, PTL

\* MarkForDeletion reaches a session that lives, for a subsession that is open.
THEOREM SessionOutlivesRequestsHolds == Spec => []SessionOutlivesRequests
<1>1. ScsInv => SessionOutlivesRequests
  <2> SUFFICES ASSUME ScsInv, NEW i \in DOMAIN iAsyncRequests, iAsyncRequests[i].live
               PROVE  /\ iAsyncRequests[i].slot.client \in sessions
                      /\ SubsessionOpen(iAsyncRequests[i].slot)
    BY DEF SessionOutlivesRequests, SubsessionOpen
  <2>1. iAsyncRequests[i].slot \in LiveSlots
    BY DEF LiveSlots, ToSet
  <2>. QED
    BY <2>1 DEF ScsInv, ClientInv
<1>. QED
  BY <1>1, ScsInvariant, PTL

\* The answer to EPreCloseSession leaves its client no request to wait for.
THEOREM ClosedAnsweredHolds == Spec => []ClosedAnswered
<1>1. ScsInv => ClosedAnswered
  BY DEF ScsInv, ClientInv, ClosedAnswered, Calling
<1>. QED
  BY <1>1, ScsInvariant, PTL

=============================================================================
