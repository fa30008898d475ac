-------------------------- MODULE PolicyCacheProofs --------------------------
(***************************************************************************)
(* Proofs about PolicyCache, for any prompts, change requests, containers  *)
(* and policy versions.                                                    *)
(***************************************************************************)
EXTENDS PolicyCache, FiniteSetTheorems, TLAPS

-----------------------------------------------------------------------------
(* The books of the containers: cs is what the containers say, h where the *)
(* handles are open.  Composite steps open, count and release several      *)
(* handles, so what must hold is said of any such pair.                    *)

Cells == [iReferenceCount : Nat, version : {Unread} \cup Versions,
          iClientRequest : Changes \cup {NoChange}]

Users(h, c) == {o \in Owners : h[o] = c}

\* A container nobody uses is as good as new, one that knows a waiter is used by the
\* waiter and somebody else, and neither by the server nor by a second change.
Books(cs, h) ==
    /\ cs \in [Containers -> Cells]
    /\ h \in [Owners -> Containers \cup {NoContainer}]
    /\ \A c \in Containers : cs[c].iReferenceCount = Cardinality(Users(h, c))
    /\ \A c \in Containers : cs[c].iReferenceCount = 0 => cs[c] = Unused
    /\ \A c \in Containers : cs[c].iClientRequest # NoChange =>
          /\ h[cs[c].iClientRequest] = c
          /\ cs[c].iReferenceCount >= 2
    /\ \A e \in Changes : h[e] # NoContainer => h[e] # h[Server]
    /\ \A e, f \in Changes : h[e] = h[f] /\ h[e] # NoContainer => e = f

-----------------------------------------------------------------------------
(* The invariant *)

\* TypeOK without the containers and handles, which Books speaks of.
Types ==
    /\ prompt \in [Prompts -> {"None", "ECheckPolicy", "Prompting"}]
    /\ change \in [Changes -> {"None", "EWaitForPolicyCacheIdle", "EScanDatabase"}]
    /\ files \in Versions /\ announced \in BOOLEAN
    /\ decisions \subseteq Versions
    /\ disturbed \in {"no", "prompt", "change"}

\* A prompt holds a handle while it exists, and a change request only then.
HandlesOwned ==
    /\ \A p \in Prompts : prompt[p] = "None" <=> handle[p] = NoContainer
    /\ \A e \in Changes : change[e] = "None" => handle[e] = NoContainer

\* A container knows a change request only in the state that waits for it.
WaiterWaits ==
    \A c \in Containers, e \in Changes :
        container[c].iClientRequest = e => change[e] = "EWaitForPolicyCacheIdle"

\* The server's cache is never older than the last announced policy files.
ServerCurrent ==
    announced /\ handle[Server] # NoContainer =>
        container[handle[Server]].version \in {Unread, files}

\* A prompt that does not use the server's cache uses one that a change waits for.
OldCacheWatched ==
    disturbed = "no" =>
        \A p \in Prompts : handle[p] # NoContainer /\ handle[p] # handle[Server] =>
            container[handle[p]].iClientRequest # NoChange

\* While decisions of replaced policies are stored a change request is under way.
StaleAwaitsChange ==
    disturbed = "no" /\ announced /\ ~(decisions \subseteq {files}) =>
        \E e \in Changes : change[e] # "None"

CacheInv ==
    /\ Books(container, handle)
    /\ Types
    /\ HandlesOwned
    /\ WaiterWaits
    /\ PolicyKept
    /\ ServerCurrent
    /\ OldCacheWatched
    /\ StaleAwaitsChange

-----------------------------------------------------------------------------
(* What opening, counting and releasing do to the books *)

LEMMA UsersFinite ==
    ASSUME NEW h, NEW c
    PROVE  IsFiniteSet(Users(h, c)) /\ Cardinality(Users(h, c)) \in Nat
BY HandleAssumption, FS_Subset, FS_CardinalityType DEF Users

LEMMA OwnerKinds ==
    /\ Server \in Owners /\ Prompts \subseteq Owners /\ Changes \subseteq Owners
    /\ \A e \in Changes : e # Server /\ e # NoChange /\ e \notin Prompts
    /\ \A p \in Prompts : p # Server
    /\ NoContainer \notin Containers
BY HandleAssumption DEF Owners

\* What a cell is made of.
LEMMA CellFields ==
    ASSUME NEW x \in Cells
    PROVE  /\ x.iReferenceCount \in Nat
           /\ x.version \in {Unread} \cup Versions
           /\ x.iClientRequest \in Changes \cup {NoChange}
BY DEF Cells

\* The users of a container when one owner opens its handle on it, or leaves it.
LEMMA UserJoins ==
    ASSUME NEW h \in [Owners -> Containers \cup {NoContainer}], NEW o \in Owners,
           h[o] = NoContainer, NEW c \in Containers, NEW d \in Containers
    PROVE  Cardinality(Users([h EXCEPT ![o] = c], d)) =
              IF d = c THEN Cardinality(Users(h, d)) + 1 ELSE Cardinality(Users(h, d))
<1> DEFINE k == [h EXCEPT ![o] = c]
<1>1. CASE d = c
  <2>1. Users(k, d) = Users(h, d) \cup {o} /\ o \notin Users(h, d)
    BY <1>1, OwnerKinds DEF Users
  <2>. QED
    BY <1>1, <2>1, UsersFinite, FS_AddElement
<1>2. CASE d # c
  <2>1. Users(k, d) = Users(h, d)
    BY <1>2, OwnerKinds DEF Users
  <2>. QED
    BY <1>2, <2>1
<1>. QED
  BY <1>1, <1>2

LEMMA UserLeaves ==
    ASSUME NEW h \in [Owners -> Containers \cup {NoContainer}], NEW o \in Owners,
           NEW d \in Containers
    PROVE  Cardinality(Users([h EXCEPT ![o] = NoContainer], d)) =
              IF d = h[o] THEN Cardinality(Users(h, d)) - 1 ELSE Cardinality(Users(h, d))
<1> DEFINE k == [h EXCEPT ![o] = NoContainer]
<1>1. CASE d = h[o]
  <2>1. Users(k, d) = Users(h, d) \ {o} /\ o \in Users(h, d)
    BY <1>1, OwnerKinds DEF Users
  <2>. QED
    BY <1>1, <2>1, UsersFinite, FS_RemoveElement
<1>2. CASE d # h[o]
  <2>1. Users(k, d) = Users(h, d)
    BY <1>2, OwnerKinds DEF Users
  <2>. QED
    BY <1>2, <2>1
<1>. QED
  BY <1>1, <1>2

\* IncrementReferenceCount for an owner that is no change request
LEMMA AcquireKeepsBooks ==
    ASSUME NEW cs, NEW h, Books(cs, h), NEW c \in Containers, NEW p \in Prompts,
           h[p] = NoContainer, cs[c].iReferenceCount # 0
    PROVE  Books(Acquired(cs, c), [h EXCEPT ![p] = c])
<1> DEFINE a == Acquired(cs, c)
           k == [h EXCEPT ![p] = c]
<1>1. c # NoContainer /\ p \in Owners /\ \A e \in Changes : e # p
  BY OwnerKinds
<1>2. a \in [Containers -> Cells]
  BY <1>1 DEF Acquired, Books, Cells
<1>3. \A d \in Containers :
         /\ a[d].iReferenceCount =
              IF d = c THEN cs[d].iReferenceCount + 1 ELSE cs[d].iReferenceCount
         /\ a[d].iClientRequest = cs[d].iClientRequest
         /\ d # c => a[d] = cs[d]
  BY <1>1 DEF Acquired, Books, Cells
<1>4. /\ k \in [Owners -> Containers \cup {NoContainer}]
      /\ \A o \in Owners : k[o] = IF o = p THEN c ELSE h[o]
  BY <1>1 DEF Books
<1>5. \A d \in Containers :
         Cardinality(Users(k, d)) = IF d = c THEN Cardinality(Users(h, d)) + 1
                                    ELSE Cardinality(Users(h, d))
  BY <1>1, UserJoins DEF Books
<1>6. \A d \in Containers : cs[d].iReferenceCount \in Nat
  BY CellFields DEF Books
<1> HIDE DEF a, k
<1>12. \A d \in Containers : a[d].iReferenceCount = Cardinality(Users(k, d))
  BY <1>3, <1>5 DEF Books
<1>7. \A d \in Containers : a[d].iReferenceCount = 0 => a[d] = Unused
  BY <1>3, <1>6 DEF Books
<1>8. \A d \in Containers : a[d].iClientRequest # NoChange =>
          k[a[d].iClientRequest] = d /\ a[d].iReferenceCount >= 2
  <2>1. TAKE d \in Containers
  <2>2. HAVE a[d].iClientRequest # NoChange
  <2>3. cs[d].iClientRequest # NoChange /\ cs[d].iClientRequest \in Changes
    BY <1>3, <2>2, CellFields DEF Books
  <2>4. h[cs[d].iClientRequest] = d /\ cs[d].iReferenceCount >= 2
    BY <2>3 DEF Books
  <2>5. k[cs[d].iClientRequest] = h[cs[d].iClientRequest]
    BY <1>1, <1>4, <2>3, OwnerKinds
  <2>. QED
    BY <1>3, <1>6, <2>4, <2>5
<1>9. \A e \in Changes : e \in Owners /\ k[e] = h[e]
  BY <1>1, <1>4, OwnerKinds
<1>10. k[Server] = h[Server]
  BY <1>4, OwnerKinds
<1>11. Books(a, k)
  BY <1>2, <1>4, <1>7, <1>8, <1>9, <1>10, <1>12 DEF Books
<1>. QED
  BY <1>11 DEF a, k

\* DecrementReferenceCount for an owner that does not wait any more
LEMMA ReleaseKeepsBooks ==
    ASSUME NEW cs, NEW h, Books(cs, h), NEW o \in Owners,
           \A c \in Containers : cs[c].iClientRequest # NoChange => cs[c].iClientRequest # o
    PROVE  Books(Released(cs, h[o]), [h EXCEPT ![o] = NoContainer])
<1> DEFINE c == h[o]
           a == Released(cs, c)
           k == [h EXCEPT ![o] = NoContainer]
<1>1. c \in Containers \cup {NoContainer} /\ h \in [Owners -> Containers \cup {NoContainer}]
  BY DEF Books
<1>2. \A d \in Containers : cs[d].iReferenceCount \in Nat /\ cs[d] \in Cells
  BY CellFields DEF Books
<1>3. /\ k \in [Owners -> Containers \cup {NoContainer}]
      /\ \A x \in Owners : k[x] = IF x = o THEN NoContainer ELSE h[x]
  BY <1>1
<1>4. a \in [Containers -> Cells]
  <2>1. CASE c \in Containers /\ cs[c].iReferenceCount > 0
    <3>1. c # NoContainer /\ cs \in [Containers -> Cells]
      BY <2>1, OwnerKinds DEF Books
    <3>2. CASE cs[c].iReferenceCount = 1
      <4>1. Unused \in Cells
        BY DEF Unused, Cells
      <4>. QED
        BY <3>1, <3>2, <4>1 DEF Released
    <3>3. CASE cs[c].iReferenceCount # 1
      <4>1. cs[c].iReferenceCount - 1 \in Nat
        BY <1>2, <2>1
      <4>. QED
        BY <2>1, <3>1, <3>3, <4>1 DEF Released, Cells
    <3>. QED
      BY <3>2, <3>3
  <2>2. CASE c = NoContainer
    BY <2>2 DEF Released, Books
  <2>3. c \in Containers => cs[c].iReferenceCount > 0
    <3>1. SUFFICES ASSUME c \in Containers PROVE cs[c].iReferenceCount > 0
      OBVIOUS
    <3>2. o \in Users(h, c)
      BY DEF Users
    <3>3. Cardinality(Users(h, c)) # 0
      BY <3>2, UsersFinite, FS_EmptySet
    <3>. QED
      BY <1>2, <3>1, <3>3 DEF Books
  <2>. QED
    BY <1>1, <2>1, <2>2, <2>3
<1>5. \A d \in Containers :
         /\ d # c => a[d] = cs[d]
         /\ d = c => \/ cs[d].iReferenceCount = 1 /\ a[d] = Unused
                     \/ /\ cs[d].iReferenceCount # 1
                        /\ a[d].iReferenceCount = cs[d].iReferenceCount - 1
                        /\ a[d].iClientRequest = IF cs[d].iReferenceCount = 2 THEN NoChange
                                                 ELSE cs[d].iClientRequest
  BY <1>1, <1>2, OwnerKinds DEF Released, Books, Cells
<1>6. \A d \in Containers :
          Cardinality(Users(k, d)) = IF d = c THEN Cardinality(Users(h, d)) - 1
                                     ELSE Cardinality(Users(h, d))
  BY <1>1, UserLeaves
<1>7. Unused.iReferenceCount = 0 /\ Unused.iClientRequest = NoChange
  BY DEF Unused
<1> HIDE DEF a, k
<1>8. \A d \in Containers : a[d].iReferenceCount = Cardinality(Users(k, d))
  BY <1>2, <1>5, <1>6, <1>7 DEF Books
<1>9. \A d \in Containers : a[d].iReferenceCount = 0 => a[d] = Unused
  BY <1>2, <1>5, <1>7 DEF Books
<1>10. \A d \in Containers : a[d].iClientRequest # NoChange =>
          k[a[d].iClientRequest] = d /\ a[d].iReferenceCount >= 2
  <2>1. TAKE d \in Containers
  <2>2. HAVE a[d].iClientRequest # NoChange
  <2>3. /\ cs[d].iClientRequest # NoChange /\ a[d].iClientRequest = cs[d].iClientRequest
        /\ cs[d].iClientRequest \in Changes
    BY <1>2, <1>5, <1>7, <2>2, CellFields
  <2>4. h[cs[d].iClientRequest] = d /\ cs[d].iReferenceCount >= 2
    BY <2>3 DEF Books
  <2>5. k[cs[d].iClientRequest] = h[cs[d].iClientRequest]
    BY <1>3, <2>3, OwnerKinds
  <2>. QED
    BY <1>2, <1>5, <1>7, <2>2, <2>3, <2>4, <2>5
<1>11. \A e \in Changes : k[e] # NoContainer => k[e] # k[Server]
  BY <1>3, OwnerKinds DEF Books
<1>12. \A e, f \in Changes : k[e] = k[f] /\ k[e] # NoContainer => e = f
  BY <1>3, OwnerKinds DEF Books
<1>13. Books(a, k)
  BY <1>3, <1>4, <1>8, <1>9, <1>10, <1>11, <1>12 DEF Books
<1>. QED
  BY <1>13 DEF a, k, c

\* What is left of the container that is released
LEMMA ReleaseCells ==
    ASSUME NEW cs \in [Containers -> Cells], NEW c \in Containers \cup {NoContainer},
           NEW d \in Containers
    PROVE  /\ d # c => Released(cs, c)[d] = cs[d]
           /\ d = c => \/ cs[d].iReferenceCount = 1 /\ Released(cs, c)[d] = Unused
                       \/ /\ cs[d].iReferenceCount # 1
                          /\ Released(cs, c)[d].version = cs[d].version
                          /\ Released(cs, c)[d].iReferenceCount = cs[d].iReferenceCount - 1
                          /\ Released(cs, c)[d].iClientRequest =
                                IF cs[d].iReferenceCount = 2 THEN NoChange
                                ELSE cs[d].iClientRequest
BY OwnerKinds DEF Released, Cells

\* A container with two users has at least two references.
LEMMA TwoUsers ==
    ASSUME NEW cs, NEW h, Books(cs, h), NEW o \in Owners, NEW x \in Owners, o # x,
           h[o] = h[x], h[o] # NoContainer
    PROVE  h[o] \in Containers /\ cs[h[o]].iReferenceCount >= 2
<1>1. h[o] \in Containers
  BY DEF Books
<1>2. {o, x} \subseteq Users(h, h[o])
  BY DEF Users
<1>3. Cardinality({o, x}) = 2
  <2>1. IsFiniteSet({o}) /\ Cardinality({o}) = 1
    BY FS_Singleton
  <2>2. {o, x} = {o} \cup {x}
    OBVIOUS
  <2>. QED
    BY <2>1, <2>2, FS_AddElement
<1>4. Cardinality({o, x}) <= Cardinality(Users(h, h[o]))
  BY <1>2, UsersFinite, FS_Subset
<1>. QED
  BY <1>1, <1>3, <1>4, UsersFinite DEF Books

\* A container that is in use has a reference.
LEMMA UsedIsCounted ==
    ASSUME NEW cs, NEW h, Books(cs, h), NEW o \in Owners, h[o] # NoContainer
    PROVE  h[o] \in Containers /\ cs[h[o]].iReferenceCount # 0
<1>1. h[o] \in Containers
  BY DEF Books
<1>2. o \in Users(h, h[o])
  BY DEF Users
<1>3. Cardinality(Users(h, h[o])) # 0
  BY <1>2, UsersFinite, FS_EmptySet
<1>. QED
  BY <1>1, <1>3 DEF Books

\* ... and one that has no reference is not in use.
LEMMA UncountedIsFree ==
    ASSUME NEW cs, NEW h, Books(cs, h), NEW c \in Containers, cs[c].iReferenceCount = 0
    PROVE  \A o \in Owners : h[o] # c
BY UsedIsCounted, OwnerKinds

\* There are enough containers: without the server one of them is free.
LEMMA FreeContainer ==
    ASSUME NEW cs, NEW h, Books(cs, h), h[Server] = NoContainer
    PROVE  \E c \in Containers : cs[c].iReferenceCount = 0
<1>1. SUFFICES ASSUME \A c \in Containers : cs[c].iReferenceCount # 0
               PROVE  FALSE
  OBVIOUS
<1> DEFINE others == Owners \ {Server}
           f == [c \in Containers |-> CHOOSE o \in Owners : h[o] = c]
<1>2. \A c \in Containers : \E o \in Owners : h[o] = c
  <2>1. SUFFICES ASSUME NEW c \in Containers PROVE Users(h, c) # {}
    BY DEF Users
  <2>. QED
    BY <1>1, UsersFinite, FS_EmptySet DEF Books
<1>3. \A c \in Containers : f[c] \in Owners /\ h[f[c]] = c
  BY <1>2
<1> HIDE DEF f
<1>4. \A c \in Containers : f[c] \in others
  BY <1>3, OwnerKinds
<1>5. f \in [Containers -> others]
  BY <1>4 DEF f
<1>6. IsFiniteSet(others) /\ Cardinality(others) < Cardinality(Containers)
  <2>1. Cardinality(others) = Cardinality(Owners) - 1
    BY HandleAssumption, OwnerKinds, FS_RemoveElement
  <2>2. Cardinality(Owners) \in Nat /\ Cardinality(Containers) \in Nat
    BY HandleAssumption, FS_CardinalityType
  <2>3. IsFiniteSet(others)
    BY HandleAssumption, FS_RemoveElement
  <2> HIDE DEF others
  <2>. QED
    BY <2>1, <2>2, <2>3, HandleAssumption
<1>7. PICK c, d \in Containers : c # d /\ f[c] = f[d]
  <2> HIDE DEF others
  <2>. QED
    BY <1>5, <1>6, HandleAssumption, FS_PigeonHole
<1>. QED
  BY <1>3, <1>7

\* RPolicyCacheCountedHandle::OpenL: the server's cache is open afterwards; nobody waits
\* for it, and if it is a new one it has not read a policy yet.
LEMMA OpenKeepsBooks ==
    ASSUME Books(container, handle)
    PROVE  /\ ServerCache \in Containers
           /\ Books(Opened, [handle EXCEPT ![Server] = ServerCache])
           /\ Opened[ServerCache].iClientRequest = NoChange
           /\ \A d \in Containers : /\ Opened[d].version = container[d].version
                                    /\ Opened[d].iClientRequest = container[d].iClientRequest
                                    /\ d # ServerCache => Opened[d] = container[d]
           /\ \/ handle[Server] = ServerCache
              \/ /\ handle[Server] = NoContainer
                 /\ container[ServerCache].version = Unread
                 /\ \A o \in Owners : handle[o] # ServerCache
<1> DEFINE s == ServerCache
           k == [handle EXCEPT ![Server] = s]
<1>1. CASE handle[Server] = NoContainer
  <2>1. s \in Containers /\ container[s].iReferenceCount = 0
    BY <1>1, FreeContainer DEF ServerCache
  <2> HIDE DEF s
  <2>2. container[s] = Unused /\ \A o \in Owners : handle[o] # s
    BY <2>1, UncountedIsFree DEF Books
  <2>3. container[s].version = Unread /\ container[s].iClientRequest = NoChange
    BY <2>2 DEF Unused
  <2>4. /\ Opened = [container EXCEPT ![s].iReferenceCount = 1]
        /\ container \in [Containers -> Cells]
    BY <1>1 DEF Opened, Books, s
  <2>5. Opened \in [Containers -> Cells]
    BY <2>1, <2>4 DEF Cells
  <2>6. \A d \in Containers :
           /\ Opened[d].version = container[d].version
           /\ Opened[d].iClientRequest = container[d].iClientRequest
           /\ Opened[d].iReferenceCount =
                IF d = s THEN container[d].iReferenceCount + 1 ELSE container[d].iReferenceCount
           /\ d # s => Opened[d] = container[d]
    BY <2>1, <2>4 DEF Cells
  <2>7. /\ k \in [Owners -> Containers \cup {NoContainer}]
        /\ \A o \in Owners : k[o] = IF o = Server THEN s ELSE handle[o]
    BY <2>1 DEF Books
  <2>8. \A d \in Containers :
           Cardinality(Users(k, d)) = IF d = s THEN Cardinality(Users(handle, d)) + 1
                                      ELSE Cardinality(Users(handle, d))
    BY <1>1, <2>1, UserJoins, OwnerKinds DEF Books
  <2> HIDE DEF k
  <2>9. \A d \in Containers : Opened[d].iReferenceCount = Cardinality(Users(k, d))
    BY <2>6, <2>8 DEF Books
  <2>10. \A d \in Containers : Opened[d].iReferenceCount = 0 => Opened[d] = Unused
    BY <2>1, <2>6 DEF Books
  <2>11. \A d \in Containers : Opened[d].iClientRequest # NoChange =>
            k[Opened[d].iClientRequest] = d /\ Opened[d].iReferenceCount >= 2
    <3>1. TAKE d \in Containers
    <3>2. HAVE Opened[d].iClientRequest # NoChange
    <3>3. /\ Opened[d] = container[d]
          /\ container[d].iClientRequest \in Changes
      BY <2>3, <2>6, <3>2, CellFields DEF Books
    <3>4. k[container[d].iClientRequest] = handle[container[d].iClientRequest]
      BY <2>7, <3>3, OwnerKinds
    <3>. QED
      BY <3>2, <3>3, <3>4 DEF Books
  <2>12. \A e \in Changes : k[e] = handle[e] /\ handle[e] # s /\ k[Server] = s
    BY <2>2, <2>7, OwnerKinds
  <2>13. Books(Opened, k)
    BY <2>5, <2>7, <2>9, <2>10, <2>11, <2>12 DEF Books
  <2>. QED
    BY <1>1, <2>1, <2>2, <2>3, <2>6, <2>13 DEF k, s
<1>2. CASE handle[Server] # NoContainer
  <2>1. s = handle[Server] /\ Opened = container /\ s \in Containers
    BY <1>2, OwnerKinds DEF ServerCache, Opened, Books
  <2>2. k = handle
    BY <2>1 DEF Books
  <2>3. container[s].iClientRequest = NoChange
    <3>1. container[s].iClientRequest \in Changes \cup {NoChange}
      BY <2>1, CellFields DEF Books
    <3>. QED
      BY <1>2, <2>1, <3>1 DEF Books
  <2>. QED
    BY <2>1, <2>2, <2>3
<1>. QED
  BY <1>1, <1>2

\* Reading the policy list
LEMMA LoadKeepsBooks ==
    ASSUME NEW cs, NEW h, Books(cs, h), NEW c \in Containers, cs[c].iReferenceCount # 0,
           files \in Versions
    PROVE  /\ Books(Loaded(cs, c), h)
           /\ \A d \in Containers : /\ Loaded(cs, c)[d].iClientRequest = cs[d].iClientRequest
                                    /\ d # c => Loaded(cs, c)[d] = cs[d]
           /\ Loaded(cs, c)[c].version =
                IF cs[c].version = Unread THEN files ELSE cs[c].version
<1> DEFINE a == Loaded(cs, c)
<1>1. cs \in [Containers -> Cells] /\ a \in [Containers -> Cells]
  BY DEF Loaded, Books, Cells
<1>2. /\ \A d \in Containers : /\ a[d].iClientRequest = cs[d].iClientRequest
                               /\ a[d].iReferenceCount = cs[d].iReferenceCount
                               /\ d # c => a[d] = cs[d]
      /\ a[c].version = IF cs[c].version = Unread THEN files ELSE cs[c].version
  BY <1>1 DEF Loaded, Cells
<1> HIDE DEF a
<1>3. Books(a, h)
  BY <1>1, <1>2 DEF Books
<1>. QED
  BY <1>2, <1>3 DEF a

\* CancelNotifyOnRef1
LEMMA WithdrawKeepsBooks ==
    ASSUME Books(container, handle), NEW e \in Changes
    PROVE  /\ Books(Withdrawn(e), handle)
           /\ \A d \in Containers :
                 /\ Withdrawn(e)[d].version = container[d].version
                 /\ Withdrawn(e)[d].iReferenceCount = container[d].iReferenceCount
                 /\ Withdrawn(e)[d].iClientRequest =
                      IF container[d].iClientRequest = e THEN NoChange
                      ELSE container[d].iClientRequest
<1> DEFINE a == Withdrawn(e)
<1>1. container \in [Containers -> Cells]
  BY DEF Books
<1>2. /\ a \in [Containers -> Cells]
      /\ \A d \in Containers :
            /\ a[d].version = container[d].version
            /\ a[d].iReferenceCount = container[d].iReferenceCount
            /\ a[d].iClientRequest =
                 IF container[d].iClientRequest = e THEN NoChange
                 ELSE container[d].iClientRequest
            /\ container[d].iClientRequest = NoChange => a[d] = container[d]
  BY <1>1, OwnerKinds DEF Withdrawn, Cells
<1> HIDE DEF a
<1>3. \A d \in Containers : a[d].iReferenceCount = 0 => a[d] = Unused
  BY <1>2 DEF Books, Unused
<1>4. Books(a, handle)
  BY <1>2, <1>3 DEF Books
<1>. QED
  BY <1>2, <1>4 DEF a

\* ENotifyPolicyFilesChanged moves the server's handle to the change request, which the
\* container tells when nobody else uses it.
LEMMA NotifyKeepsBooks ==
    ASSUME Books(container, handle), NEW e \in Changes, handle[e] = NoContainer,
           NotifyPolicyFilesChanged(e)
    PROVE  /\ Books(container', handle')
           /\ handle' = [handle EXCEPT ![e] = handle[Server], ![Server] = NoContainer]
           /\ \A d \in Containers :
                 /\ d # handle[Server] => container'[d] = container[d]
                 /\ d = handle[Server] =>
                      /\ container'[d].version = container[d].version
                      /\ container'[d].iClientRequest =
                           IF container[d].iReferenceCount = 1 THEN NoChange ELSE e
<1> DEFINE c == handle[Server]
<1>1. handle' = [handle EXCEPT ![e] = c, ![Server] = NoContainer]
  BY DEF NotifyPolicyFilesChanged, GivenUp
<1>2. CASE c = NoContainer
  <2>1. container' = container
    BY <1>2 DEF NotifyPolicyFilesChanged, GivenUp, Acquired, Waiting
  <2>2. handle' = handle
    BY <1>1, <1>2, OwnerKinds DEF Books
  <2>. QED
    BY <1>1, <1>2, <2>1, <2>2, OwnerKinds
<1>3. CASE c # NoContainer
  <2>1. c \in Containers /\ container[c].iReferenceCount # 0 /\ GivenUp # c
    BY <1>3, UsedIsCounted, OwnerKinds DEF GivenUp
  <2>2. container[c].iReferenceCount \in Nat /\ container \in [Containers -> Cells]
    BY <2>1, CellFields DEF Books
  <2>3. container[c].iClientRequest = NoChange
    <3>1. container[c].iClientRequest \in Changes \cup {NoChange}
      BY <2>1, CellFields DEF Books
    <3>. QED
      BY <1>3, <2>1, <3>1 DEF Books
  <2> DEFINE n == container[c].iReferenceCount
             one == [container EXCEPT ![c].iReferenceCount = @ + 1]
             two == [one EXCEPT ![c].iClientRequest = e]
  <2>4. Acquired(container, c) = one
    BY <1>3 DEF Acquired
  <2>5. /\ one \in [Containers -> Cells]
        /\ one[c].iReferenceCount = n + 1 /\ one[c].iClientRequest = NoChange
        /\ one[c].version = container[c].version
        /\ \A d \in Containers : d # c => one[d] = container[d]
    BY <2>1, <2>2, <2>3 DEF Cells
  <2> HIDE DEF one
  <2>6. Waiting(one, c, e) = two
    BY <1>3, <2>1, <2>2, <2>5 DEF Waiting
  <2>7. /\ two \in [Containers -> Cells]
        /\ two[c].iReferenceCount = n + 1 /\ two[c].iClientRequest = e
        /\ two[c].version = container[c].version
        /\ \A d \in Containers : d # c => two[d] = container[d]
    BY <2>1, <2>5 DEF Cells
  <2> HIDE DEF two
  <2>8. container' = Released(two, c)
    BY <2>1, <2>4, <2>6 DEF NotifyPolicyFilesChanged
  <2>9. n \in Nat /\ n + 1 # 1 /\ n + 1 - 1 = n /\ (n + 1 = 2 <=> n = 1)
    BY <2>1, <2>2
  <2> HIDE DEF n
  <2>10. \A d \in Containers :
            /\ d # c => container'[d] = container[d]
            /\ d = c => /\ container'[d].version = container[d].version
                        /\ container'[d].iReferenceCount = n
                        /\ container'[d].iClientRequest = IF n = 1 THEN NoChange ELSE e
    BY <2>1, <2>7, <2>8, <2>9, ReleaseCells
  <2>11. container' \in [Containers -> Cells]
    <3>1. /\ two[c].iReferenceCount = n + 1 /\ n + 1 - 1 \in Nat
          /\ container' = [two EXCEPT ![c].iReferenceCount = @ - 1,
                             ![c].iClientRequest =
                               IF two[c].iReferenceCount = 2 THEN NoChange ELSE @]
      BY <1>3, <2>7, <2>8, <2>9 DEF Released
    <3> HIDE DEF c
    <3>2. /\ two[c] \in Cells
          /\ (IF two[c].iReferenceCount = 2 THEN NoChange ELSE two[c].iClientRequest)
                \in Changes \cup {NoChange}
          /\ two[c].iReferenceCount - 1 \in Nat
      <4>1. two[c] \in Cells
        BY <2>1, <2>7
      <4>2. two[c].iClientRequest \in Changes
        BY <2>7
      <4>3. two[c].iReferenceCount - 1 \in Nat
        BY <2>7, <2>9
      <4>. QED
        BY <4>1, <4>2, <4>3
    <3>3. [two[c] EXCEPT !.iReferenceCount = @ - 1,
                         !.iClientRequest =
                            IF two[c].iReferenceCount = 2 THEN NoChange ELSE @] \in Cells
      BY <3>2 DEF Cells
    <3>. QED
      BY <2>1, <2>7, <3>1, <3>3
  <2>12. /\ handle' \in [Owners -> Containers \cup {NoContainer}]
         /\ \A o \in Owners : handle'[o] = IF o = e THEN c
                                           ELSE IF o = Server THEN NoContainer ELSE handle[o]
    BY <1>1, <2>1, OwnerKinds DEF Books
  <2>13. \A d \in Containers : Cardinality(Users(handle', d)) = Cardinality(Users(handle, d))
    <3>1. TAKE d \in Containers
    <3> DEFINE j == [handle EXCEPT ![e] = c]
    <3>2. /\ j \in [Owners -> Containers \cup {NoContainer}] /\ j[Server] = c
          /\ handle' = [j EXCEPT ![Server] = NoContainer]
      BY <1>1, <2>1, OwnerKinds DEF Books
    <3>3. Cardinality(Users(j, d)) = IF d = c THEN Cardinality(Users(handle, d)) + 1
                                     ELSE Cardinality(Users(handle, d))
      <4>1. handle \in [Owners -> Containers \cup {NoContainer}] /\ c \in Containers /\ e \in Owners
        BY <2>1, OwnerKinds DEF Books
      <4> HIDE DEF c
      <4>. QED
        BY <4>1, UserJoins
    <3> HIDE DEF j, c
    <3>4. Cardinality(Users(handle', d)) = IF d = c THEN Cardinality(Users(j, d)) - 1
                                           ELSE Cardinality(Users(j, d))
      <4>1. Cardinality(Users([j EXCEPT ![Server] = NoContainer], d)) =
               IF d = j[Server] THEN Cardinality(Users(j, d)) - 1
               ELSE Cardinality(Users(j, d))
        <5>1. Server \in Owners
          BY OwnerKinds
        <5>. QED
          BY <3>2, <5>1, UserLeaves
      <4>. QED
        BY <3>2, <4>1
    <3>5. Cardinality(Users(handle, d)) \in Nat
      BY UsersFinite
    <3>. QED
      BY <3>3, <3>4, <3>5
  <2>14. \A d \in Containers : container'[d].iReferenceCount = Cardinality(Users(handle', d))
    BY <2>1, <2>10, <2>13 DEF Books, n
  <2>15. \A d \in Containers : container'[d].iReferenceCount = 0 => container'[d] = Unused
    BY <2>1, <2>10 DEF Books, n
  <2>16. \A d \in Containers : container'[d].iClientRequest # NoChange =>
            /\ handle'[container'[d].iClientRequest] = d
            /\ container'[d].iReferenceCount >= 2
    <3>1. TAKE d \in Containers
    <3>2. HAVE container'[d].iClientRequest # NoChange
    <3>3. CASE d = c
      <4>1. container'[d].iClientRequest = e /\ n # 1 /\ container'[d].iReferenceCount = n
        BY <2>10, <3>2, <3>3
      <4>2. n >= 2
        BY <2>1, <2>9, <4>1 DEF n
      <4>. QED
        BY <2>12, <3>3, <4>1, <4>2, OwnerKinds
    <3>4. CASE d # c
      <4>1. container'[d] = container[d] /\ container[d].iClientRequest \in Changes
        BY <2>10, <3>2, <3>4, CellFields DEF Books
      <4>2. handle[container[d].iClientRequest] = d /\ container[d].iReferenceCount >= 2
        BY <3>2, <4>1 DEF Books
      <4>3. container[d].iClientRequest # e
        BY <4>2, OwnerKinds
      <4>. QED
        BY <2>12, <4>1, <4>2, <4>3, OwnerKinds
    <3>. QED
      BY <3>3, <3>4
  <2>17. \A f \in Changes : handle'[f] # NoContainer => handle'[f] # handle'[Server]
    BY <2>12, OwnerKinds
  <2>18. \A f, g \in Changes : handle'[f] = handle'[g] /\ handle'[f] # NoContainer => f = g
    BY <2>12, OwnerKinds DEF Books
  <2>19. Books(container', handle')
    BY <2>11, <2>12, <2>14, <2>15, <2>16, <2>17, <2>18 DEF Books
  <2>. QED
    BY <1>1, <2>10, <2>19 DEF n
<1>. QED
  BY <1>2, <1>3

\* Whoever still uses a container finds its policy unchanged, and a prompt finds the
\* change request that waits for it still registered.
Spares(cs, a, k) ==
    /\ \A d \in Containers : a[d].iClientRequest \in {cs[d].iClientRequest, NoChange}
    /\ \A x \in Owners : k[x] # NoContainer =>
          /\ a[k[x]].version = cs[k[x]].version
          /\ x \in Prompts => a[k[x]].iClientRequest = cs[k[x]].iClientRequest

LEMMA ReleaseSparesUsers ==
    ASSUME NEW cs, NEW h, Books(cs, h), NEW o \in Owners,
           \A c \in Containers : cs[c].iClientRequest # NoChange => cs[c].iClientRequest # o
    PROVE  Spares(cs, Released(cs, h[o]), [h EXCEPT ![o] = NoContainer])
<1> DEFINE a == Released(cs, h[o])
           k == [h EXCEPT ![o] = NoContainer]
<1>1. Books(a, k)
  BY ReleaseKeepsBooks
<1>2. cs \in [Containers -> Cells] /\ h[o] \in Containers \cup {NoContainer}
  BY DEF Books
<1>3. \A d \in Containers :
         \/ a[d] = cs[d]
         \/ cs[d].iReferenceCount = 1 /\ a[d] = Unused
         \/ /\ a[d].version = cs[d].version
            /\ a[d].iReferenceCount = cs[d].iReferenceCount - 1
            /\ a[d].iClientRequest = IF cs[d].iReferenceCount = 2 THEN NoChange
                                     ELSE cs[d].iClientRequest
  BY <1>2, ReleaseCells
<1>4. Unused.iReferenceCount = 0 /\ Unused.iClientRequest = NoChange
  BY DEF Unused
<1>7. \A x \in Owners : k[x] = IF x = o THEN NoContainer ELSE h[x]
  BY DEF Books
<1> HIDE DEF a, k
<1>5. \A d \in Containers : a[d].iClientRequest \in {cs[d].iClientRequest, NoChange}
  BY <1>3, <1>4
<1>6. ASSUME NEW x \in Owners, k[x] # NoContainer
      PROVE  /\ a[k[x]].version = cs[k[x]].version
             /\ x \in Prompts => a[k[x]].iClientRequest = cs[k[x]].iClientRequest
  <2> DEFINE d == k[x]
  <2>1. d \in Containers /\ a[d].iReferenceCount # 0
    BY <1>1, <1>6, UsedIsCounted
  <2>2. a[d].version = cs[d].version
    BY <1>3, <1>4, <2>1
  <2>3. ASSUME x \in Prompts, cs[d].iClientRequest # NoChange
        PROVE  a[d].iClientRequest = cs[d].iClientRequest
    <3> DEFINE e == cs[d].iClientRequest
    <3>1. e \in Changes /\ h[e] = d
      BY <1>2, <2>1, <2>3, CellFields DEF Books
    <3>2. e \in Owners /\ e # x /\ e # o
      BY <2>1, <2>3, <3>1, OwnerKinds
    <3>3. k[e] = k[x]
      BY <1>7, <3>1, <3>2
    <3>4. a[d].iReferenceCount >= 2
      BY <1>1, <1>6, <3>2, <3>3, TwoUsers
    <3>5. cs[d].iReferenceCount \in Nat
      BY <1>2, <2>1, CellFields
    <3>. QED
      BY <1>3, <1>4, <2>1, <3>4, <3>5
  <2>. QED
    BY <1>5, <2>1, <2>2, <2>3
<1>. QED
  BY <1>5, <1>6 DEF Spares, a, k

-----------------------------------------------------------------------------
(* Every step keeps the invariant, and nobody starts to use a container    *)
(* that knows a waiter.                                                    *)

JoinsUnwatched ==
    \A o \in Owners : handle'[o] \notin {handle[o], NoContainer} =>
        container[handle'[o]].iClientRequest = NoChange

\* No container knows an owner that is not a change request in the waiting state.
LEMMA NoOtherWaiter ==
    ASSUME CacheInv, NEW o, o \notin Changes \/ change[o] # "EWaitForPolicyCacheIdle"
    PROVE  \A c \in Containers :
              container[c].iClientRequest # NoChange => container[c].iClientRequest # o
BY CellFields DEF CacheInv, Books, WaiterWaits

\* What a prompt that ends leaves, with whatever decision it has stored
LEMMA DeletedKeeps ==
    ASSUME CacheInv, NEW p \in Prompts, prompt[p] # "None", Deleted(p),
           UNCHANGED <<change, files, announced, disturbed>>,
           \/ UNCHANGED decisions
           \/ /\ prompt[p] = "Prompting"
              /\ decisions' = decisions \cup {container[handle[p]].version}
    PROVE  CacheInv' /\ JoinsUnwatched
<1>1. p \in Owners /\ p \notin Changes /\ p # Server
  BY OwnerKinds
<1>2. /\ prompt' = [prompt EXCEPT ![p] = "None"]
      /\ handle' = [handle EXCEPT ![p] = NoContainer]
      /\ container' = Released(container, handle[p])
  BY DEF Deleted
<1>3. Books(container', handle') /\ Spares(container, container', handle')
  <2>1. \A c \in Containers :
           container[c].iClientRequest # NoChange => container[c].iClientRequest # p
    BY <1>1, NoOtherWaiter
  <2>2. Books(container, handle)
    BY DEF CacheInv
  <2>. QED
    BY <1>1, <1>2, <2>1, <2>2, ReleaseSparesUsers, ReleaseKeepsBooks
<1>4. \A x \in Owners : handle'[x] = IF x = p THEN NoContainer ELSE handle[x]
  BY <1>1, <1>2 DEF CacheInv, Books
<1>5. /\ handle[p] \in Containers
      /\ prompt[p] = "Prompting" => container[handle[p]].version # Unread
      /\ container[handle[p]].version \in {Unread} \cup Versions
  <2>1. handle[p] # NoContainer /\ handle[p] \in Containers
    BY <1>1 DEF CacheInv, HandlesOwned, Books
  <2>. QED
    BY <2>1, CellFields DEF CacheInv, PolicyKept, Books
<1>6. Types'
  BY <1>2, <1>5 DEF CacheInv, Types
<1>7. HandlesOwned'
  BY <1>1, <1>2, <1>4, OwnerKinds DEF CacheInv, HandlesOwned, Types
<1>8. WaiterWaits'
  BY <1>3, OwnerKinds DEF CacheInv, WaiterWaits, Spares
<1>9. PolicyKept'
  <2>1. ASSUME NEW q \in Prompts, prompt'[q] = "Prompting"
        PROVE  handle'[q] # NoContainer /\ container'[handle'[q]].version # Unread
    <3>1. q # p /\ prompt[q] = "Prompting"
      BY <1>2, <2>1 DEF CacheInv, Types
    <3>2. q \in Owners /\ handle'[q] = handle[q] /\ handle[q] # NoContainer
      BY <1>4, <3>1, OwnerKinds DEF CacheInv, PolicyKept
    <3>. QED
      BY <1>3, <3>1, <3>2 DEF CacheInv, PolicyKept, Spares
  <2>. QED
    BY <2>1 DEF PolicyKept
<1>10. ServerCurrent'
  BY <1>1, <1>3, <1>4, OwnerKinds DEF CacheInv, ServerCurrent, Spares
<1>11. OldCacheWatched'
  BY <1>1, <1>3, <1>4, OwnerKinds DEF CacheInv, OldCacheWatched, Spares
<1>12. StaleAwaitsChange'
  <2>1. ASSUME disturbed = "no", announced, ~(decisions' \subseteq {files})
        PROVE  \E e \in Changes : change[e] # "None"
    <3>1. CASE ~(decisions \subseteq {files})
      BY <2>1, <3>1 DEF CacheInv, StaleAwaitsChange
    <3>2. CASE decisions \subseteq {files}
      <4>1. prompt[p] = "Prompting" /\ container[handle[p]].version # files
        BY <2>1, <3>2
      <4>2. handle[p] # handle[Server] /\ handle[p] # NoContainer
        BY <1>5, <2>1, <4>1, OwnerKinds DEF CacheInv, ServerCurrent
      <4>3. container[handle[p]].iClientRequest # NoChange
        BY <2>1, <4>2 DEF CacheInv, OldCacheWatched
      <4>4. container[handle[p]].iClientRequest \in Changes
        BY <1>5, <4>3, CellFields DEF CacheInv, Books
      <4>. QED
        BY <1>5, <4>4 DEF CacheInv, WaiterWaits
    <3>. QED
      BY <3>1, <3>2
  <2>. QED
    BY <2>1 DEF StaleAwaitsChange
<1>13. JoinsUnwatched
  BY <1>4 DEF JoinsUnwatched
<1>. QED
  BY <1>3, <1>6, <1>7, <1>8, <1>9, <1>10, <1>11, <1>12, <1>13 DEF CacheInv

LEMMA ExecutePromptKeeps ==
    ASSUME CacheInv, NEW p \in Prompts, ExecutePrompt(p)
    PROVE  CacheInv' /\ JoinsUnwatched
<1> DEFINE s == ServerCache
           h == [handle EXCEPT ![Server] = s]
<1>1. p \in Owners /\ p \notin Changes /\ p # Server /\ Server \in Owners
  BY OwnerKinds
<1>2. /\ handle' = [handle EXCEPT ![Server] = s, ![p] = s]
      /\ container' = Acquired(Opened, s)
      /\ prompt' = [prompt EXCEPT ![p] = "ECheckPolicy"]
      /\ prompt[p] = "None"
  BY DEF ExecutePrompt
<1>3. /\ s \in Containers
      /\ Books(Opened, h)
      /\ Opened[s].iClientRequest = NoChange
      /\ \A d \in Containers : /\ Opened[d].version = container[d].version
                               /\ Opened[d].iClientRequest = container[d].iClientRequest
                               /\ d # s => Opened[d] = container[d]
      /\ \/ handle[Server] = s
         \/ /\ handle[Server] = NoContainer
            /\ container[s].version = Unread
            /\ \A o \in Owners : handle[o] # s
  BY OpenKeepsBooks DEF CacheInv
<1>4. \A x \in Owners : handle'[x] = IF x \in {p, Server} THEN s ELSE handle[x]
  BY <1>1, <1>2 DEF CacheInv, Books
<1> HIDE DEF s
<1>5. h[p] = NoContainer /\ h[Server] = s /\ h \in [Owners -> Containers \cup {NoContainer}]
  BY <1>1, <1>2, <1>3 DEF CacheInv, HandlesOwned, Books
<1>6. Opened[s].iReferenceCount # 0
  BY <1>1, <1>3, <1>5, UsedIsCounted, OwnerKinds
<1>7. handle' = [h EXCEPT ![p] = s]
  BY <1>1, <1>2
<1> HIDE DEF h
<1>8. Books(container', handle')
  <2>1. Books(Acquired(Opened, s), [h EXCEPT ![p] = s])
    BY <1>3, <1>5, <1>6, AcquireKeepsBooks
  <2>. QED
    BY <1>2, <1>7, <2>1
<1>9. \A d \in Containers : /\ container'[d].version = container[d].version
                            /\ container'[d].iClientRequest = container[d].iClientRequest
  BY <1>2, <1>3, OwnerKinds DEF Acquired, Books, Cells
<1>10. Types'
  BY <1>2 DEF ExecutePrompt, CacheInv, Types
<1>11. HandlesOwned'
  <2>1. \A q \in Prompts : prompt'[q] = IF q = p THEN "ECheckPolicy" ELSE prompt[q]
    BY <1>2 DEF CacheInv, Types
  <2>2. \A q \in Prompts : handle'[q] = IF q = p THEN s ELSE handle[q]
    BY <1>4, OwnerKinds
  <2>3. \A e \in Changes : handle'[e] = handle[e] /\ change' = change
    BY <1>1, <1>4, OwnerKinds DEF ExecutePrompt
  <2>4. s # NoContainer
    BY <1>3, OwnerKinds
  <2>. QED
    BY <2>1, <2>2, <2>3, <2>4 DEF CacheInv, HandlesOwned
<1>12. WaiterWaits'
  BY <1>9 DEF ExecutePrompt, CacheInv, WaiterWaits
<1>13. PolicyKept'
  <2>1. ASSUME NEW q \in Prompts, prompt'[q] = "Prompting"
        PROVE  handle'[q] # NoContainer /\ container'[handle'[q]].version # Unread
    <3>1. q # p /\ prompt[q] = "Prompting"
      BY <1>2, <2>1 DEF CacheInv, Types
    <3>2. q \in Owners /\ handle'[q] = handle[q] /\ handle[q] # NoContainer
      BY <1>4, <3>1, OwnerKinds DEF CacheInv, PolicyKept
    <3>3. handle[q] \in Containers
      BY <3>2 DEF CacheInv, Books
    <3>. QED
      BY <1>9, <3>1, <3>2, <3>3 DEF CacheInv, PolicyKept
  <2>. QED
    BY <2>1 DEF PolicyKept
<1>14. ServerCurrent'
  BY <1>1, <1>3, <1>4, <1>9, OwnerKinds DEF ExecutePrompt, CacheInv, ServerCurrent
<1>15. OldCacheWatched'
  <2>1. ASSUME NEW q \in Prompts, disturbed = "no",
               handle'[q] # NoContainer, handle'[q] # handle'[Server]
        PROVE  container'[handle'[q]].iClientRequest # NoChange
    <3>1. q \in Owners /\ q # p /\ handle'[q] = handle[q] /\ handle'[Server] = s
      BY <1>1, <1>4, <2>1, OwnerKinds
    <3>2. handle[q] # handle[Server] /\ handle[q] \in Containers
      BY <1>3, <2>1, <3>1 DEF CacheInv, Books
    <3>. QED
      BY <1>9, <2>1, <3>1, <3>2 DEF CacheInv, OldCacheWatched
  <2>. QED
    BY <2>1 DEF ExecutePrompt, OldCacheWatched
<1>16. StaleAwaitsChange'
  BY DEF ExecutePrompt, CacheInv, StaleAwaitsChange
<1>17. JoinsUnwatched
  BY <1>3, <1>4 DEF JoinsUnwatched
<1>. QED
  BY <1>8, <1>10, <1>11, <1>12, <1>13, <1>14, <1>15, <1>16, <1>17 DEF CacheInv

\* Without a handle for the prompt that has failed, the server closes the one it has
\* opened, for the prompts before it too.
LEMMA ExecutePromptFailsKeeps ==
    ASSUME CacheInv, NEW p \in Prompts, ExecutePromptFails(p)
    PROVE  CacheInv' /\ JoinsUnwatched
<1> DEFINE s == ServerCache
           h == [handle EXCEPT ![Server] = s]
<1>1. Server \in Owners /\ Server \notin Changes
  BY OwnerKinds
<1>2. /\ handle' = [handle EXCEPT ![Server] = NoContainer]
      /\ container' = Released(Opened, s)
      /\ disturbed' # "no" /\ disturbed' \in {"prompt", "change"}
  BY DEF ExecutePromptFails, CacheInv, Types
<1>3. /\ s \in Containers
      /\ Books(Opened, h)
      /\ \A d \in Containers : /\ Opened[d].version = container[d].version
                               /\ Opened[d].iClientRequest = container[d].iClientRequest
  BY OpenKeepsBooks DEF CacheInv
<1>4. \A x \in Owners : handle'[x] = IF x = Server THEN NoContainer ELSE handle[x]
  BY <1>1, <1>2 DEF CacheInv, Books
<1> HIDE DEF s
<1>5. /\ h[Server] = s /\ handle' = [h EXCEPT ![Server] = NoContainer]
      /\ \A c \in Containers :
            Opened[c].iClientRequest # NoChange => Opened[c].iClientRequest # Server
  <2>1. h[Server] = s /\ handle' = [h EXCEPT ![Server] = NoContainer]
    BY <1>1, <1>2 DEF CacheInv, Books
  <2>2. \A c \in Containers :
           container[c].iClientRequest # NoChange => container[c].iClientRequest # Server
    BY <1>1, NoOtherWaiter
  <2>. QED
    BY <1>3, <2>1, <2>2
<1> HIDE DEF h
<1>6. Books(container', handle') /\ Spares(Opened, container', handle')
  <2>1. /\ Books(Released(Opened, h[Server]), [h EXCEPT ![Server] = NoContainer])
        /\ Spares(Opened, Released(Opened, h[Server]), [h EXCEPT ![Server] = NoContainer])
    BY <1>1, <1>3, <1>5, ReleaseKeepsBooks, ReleaseSparesUsers
  <2>. QED
    BY <1>2, <1>5, <2>1
<1>7. /\ \A d \in Containers : container'[d].iClientRequest \in {container[d].iClientRequest, NoChange}
      /\ \A x \in Owners : handle'[x] # NoContainer =>
            container'[handle'[x]].version = container[handle'[x]].version
  BY <1>3, <1>6 DEF Spares, Books
<1>8. Types'
  BY <1>2 DEF ExecutePromptFails, CacheInv, Types
<1>9. HandlesOwned'
  BY <1>4, OwnerKinds DEF ExecutePromptFails, CacheInv, HandlesOwned
<1>10. WaiterWaits'
  BY <1>7, OwnerKinds DEF ExecutePromptFails, CacheInv, WaiterWaits
<1>11. PolicyKept'
  BY <1>4, <1>7, OwnerKinds DEF ExecutePromptFails, CacheInv, PolicyKept
<1>12. ServerCurrent'
  BY <1>1, <1>4 DEF ServerCurrent
<1>13. OldCacheWatched' /\ StaleAwaitsChange'
  BY <1>2 DEF OldCacheWatched, StaleAwaitsChange
<1>14. JoinsUnwatched
  BY <1>4 DEF JoinsUnwatched
<1>. QED
  BY <1>6, <1>8, <1>9, <1>10, <1>11, <1>12, <1>13, <1>14 DEF CacheInv

LEMMA LookupPolicyKeeps ==
    ASSUME CacheInv, NEW p \in Prompts, LookupPolicy(p)
    PROVE  CacheInv' /\ JoinsUnwatched
<1> DEFINE c == handle[p]
<1>1. p \in Owners /\ Unread \notin Versions /\ files \in Versions
  BY OwnerKinds DEF CacheInv, Types, Unread, Versions
<1>2. /\ prompt[p] = "ECheckPolicy" /\ prompt' = [prompt EXCEPT ![p] = "Prompting"]
      /\ container' = Loaded(container, c)
      /\ UNCHANGED <<handle, change, files, announced, decisions, disturbed>>
  BY DEF LookupPolicy
<1>3. c # NoContainer /\ c \in Containers /\ container[c].iReferenceCount # 0
  BY <1>1, <1>2, UsedIsCounted DEF CacheInv, HandlesOwned
<1>4. /\ Books(container', handle)
      /\ \A d \in Containers : /\ container'[d].iClientRequest = container[d].iClientRequest
                               /\ d # c => container'[d] = container[d]
      /\ container'[c].version =
            IF container[c].version = Unread THEN files ELSE container[c].version
  BY <1>1, <1>2, <1>3, LoadKeepsBooks DEF CacheInv
<1>5. Books(container', handle')
  BY <1>2, <1>4
<1>6. Types' /\ HandlesOwned'
  BY <1>2 DEF CacheInv, Types, HandlesOwned
<1>7. WaiterWaits'
  BY <1>2, <1>4 DEF CacheInv, WaiterWaits
<1>8. PolicyKept'
  <2>1. ASSUME NEW q \in Prompts, prompt'[q] = "Prompting"
        PROVE  handle[q] # NoContainer /\ container'[handle[q]].version # Unread
    <3>1. CASE handle[q] = c
      BY <1>1, <1>3, <1>4, <3>1
    <3>2. CASE handle[q] # c
      <4>1. prompt[q] = "Prompting"
        BY <1>2, <2>1, <3>2 DEF CacheInv, Types
      <4>2. handle[q] # NoContainer /\ handle[q] \in Containers
        BY <4>1, OwnerKinds DEF CacheInv, PolicyKept, Books
      <4>. QED
        BY <1>4, <3>2, <4>1, <4>2 DEF CacheInv, PolicyKept
    <3>. QED
      BY <3>1, <3>2
  <2>. QED
    BY <1>2, <2>1 DEF PolicyKept
<1>9. ServerCurrent'
  <2>1. handle[Server] \in Containers \cup {NoContainer}
    BY OwnerKinds DEF CacheInv, Books
  <2>. QED
    BY <1>2, <1>4, <2>1 DEF CacheInv, ServerCurrent
<1>10. OldCacheWatched'
  <2>1. \A q \in Prompts : handle[q] \in Containers \cup {NoContainer}
    BY OwnerKinds DEF CacheInv, Books
  <2>. QED
    BY <1>2, <1>4, <2>1 DEF CacheInv, OldCacheWatched
<1>11. StaleAwaitsChange' /\ JoinsUnwatched
  BY <1>2 DEF CacheInv, StaleAwaitsChange, JoinsUnwatched
<1>. QED
  BY <1>5, <1>6, <1>7, <1>8, <1>9, <1>10, <1>11 DEF CacheInv

LEMMA GetClientConfigKeeps ==
    ASSUME CacheInv, GetClientConfig
    PROVE  CacheInv' /\ JoinsUnwatched
<1> DEFINE s == ServerCache
           h == [handle EXCEPT ![Server] = s]
<1>1. Server \in Owners /\ files \in Versions /\ Unread \notin Versions
  BY OwnerKinds DEF CacheInv, Types, Unread, Versions
<1>2. /\ handle' = h /\ container' = Loaded(Opened, s)
      /\ UNCHANGED <<prompt, change, files, announced, decisions, disturbed>>
  BY DEF GetClientConfig
<1>3. /\ s \in Containers
      /\ Books(Opened, h)
      /\ Opened[s].iClientRequest = NoChange
      /\ \A d \in Containers : /\ Opened[d].version = container[d].version
                               /\ Opened[d].iClientRequest = container[d].iClientRequest
      /\ \/ handle[Server] = s
         \/ handle[Server] = NoContainer /\ container[s].version = Unread
  BY OpenKeepsBooks DEF CacheInv
<1>4. \A x \in Owners : h[x] = IF x = Server THEN s ELSE handle[x]
  BY <1>1 DEF CacheInv, Books
<1> HIDE DEF s, h
<1>5. Opened[s].iReferenceCount # 0
  BY <1>1, <1>3, <1>4, UsedIsCounted, OwnerKinds
<1>6. /\ Books(container', handle')
      /\ \A d \in Containers :
            /\ container'[d].iClientRequest = container[d].iClientRequest
            /\ d # s => container'[d].version = container[d].version
      /\ container'[s].version =
            IF container[s].version = Unread THEN files ELSE container[s].version
  <2>1. /\ Books(Loaded(Opened, s), h)
        /\ \A d \in Containers : /\ Loaded(Opened, s)[d].iClientRequest = Opened[d].iClientRequest
                                 /\ d # s => Loaded(Opened, s)[d] = Opened[d]
        /\ Loaded(Opened, s)[s].version =
              IF Opened[s].version = Unread THEN files ELSE Opened[s].version
    BY <1>1, <1>3, <1>5, LoadKeepsBooks
  <2>. QED
    BY <1>2, <1>3, <2>1
<1>7. Types' /\ StaleAwaitsChange'
  BY <1>2 DEF CacheInv, Types, StaleAwaitsChange
<1>8. HandlesOwned'
  BY <1>2, <1>4, OwnerKinds DEF CacheInv, HandlesOwned
<1>9. WaiterWaits'
  BY <1>2, <1>6 DEF CacheInv, WaiterWaits
<1>10. PolicyKept'
  <2>1. ASSUME NEW q \in Prompts, prompt[q] = "Prompting"
        PROVE  handle'[q] # NoContainer /\ container'[handle'[q]].version # Unread
    <3>1. handle'[q] = handle[q] /\ handle[q] \in Containers
      BY <1>2, <1>4, <2>1, OwnerKinds DEF CacheInv, PolicyKept, Books
    <3>. QED
      BY <1>1, <1>6, <2>1, <3>1 DEF CacheInv, PolicyKept
  <2>. QED
    BY <1>2, <2>1 DEF PolicyKept
<1>11. ServerCurrent'
  BY <1>1, <1>2, <1>3, <1>4, <1>6, OwnerKinds DEF CacheInv, ServerCurrent
<1>12. OldCacheWatched'
  <2>1. ASSUME NEW q \in Prompts, disturbed = "no",
               handle'[q] # NoContainer, handle'[q] # handle'[Server]
        PROVE  container'[handle'[q]].iClientRequest # NoChange
    <3>1. q \in Owners /\ handle'[q] = handle[q] /\ handle'[Server] = s
      BY <1>1, <1>2, <1>4, OwnerKinds
    <3>2. handle[q] # handle[Server] /\ handle[q] \in Containers
      BY <1>3, <2>1, <3>1 DEF CacheInv, Books
    <3>. QED
      BY <1>6, <2>1, <3>1, <3>2 DEF CacheInv, OldCacheWatched
  <2>. QED
    BY <1>2, <2>1 DEF OldCacheWatched
<1>13. JoinsUnwatched
  BY <1>2, <1>3, <1>4 DEF JoinsUnwatched
<1>. QED
  BY <1>6, <1>7, <1>8, <1>9, <1>10, <1>11, <1>12, <1>13 DEF CacheInv

LEMMA ChangeFilesKeeps ==
    ASSUME CacheInv, ChangeFiles
    PROVE  CacheInv' /\ JoinsUnwatched
<1>1. Books(container', handle') /\ HandlesOwned' /\ WaiterWaits' /\ PolicyKept'
  BY DEF ChangeFiles, CacheInv, HandlesOwned, WaiterWaits, PolicyKept
<1>2. Types'
  <2>1. files' \in Versions
    BY HandleAssumption DEF ChangeFiles, CacheInv, Types, Versions
  <2>. QED
    BY <2>1 DEF ChangeFiles, CacheInv, Types
<1>3. ServerCurrent' /\ OldCacheWatched' /\ StaleAwaitsChange'
  BY DEF ChangeFiles, CacheInv, ServerCurrent, OldCacheWatched, StaleAwaitsChange
<1>4. JoinsUnwatched
  BY DEF ChangeFiles, JoinsUnwatched
<1>. QED
  BY <1>1, <1>2, <1>3, <1>4 DEF CacheInv

LEMMA NotifyKeeps ==
    ASSUME CacheInv, NEW e \in Changes, NotifyPolicyFilesChanged(e)
    PROVE  CacheInv' /\ JoinsUnwatched
<1> DEFINE c == handle[Server]
<1>1. e \in Owners /\ e # Server /\ Server \in Owners /\ handle[e] = NoContainer
  BY OwnerKinds DEF NotifyPolicyFilesChanged, CacheInv, HandlesOwned
<1>2. /\ change[e] = "None" /\ change' = [change EXCEPT ![e] = "EWaitForPolicyCacheIdle"]
      /\ announced' = TRUE
      /\ UNCHANGED <<prompt, files, decisions, disturbed>>
  BY DEF NotifyPolicyFilesChanged
<1>3. /\ Books(container', handle')
      /\ handle' = [handle EXCEPT ![e] = handle[Server], ![Server] = NoContainer]
      /\ \A d \in Containers :
            /\ d # c => container'[d] = container[d]
            /\ d = c => /\ container'[d].version = container[d].version
                        /\ container'[d].iClientRequest =
                              IF container[d].iReferenceCount = 1 THEN NoChange ELSE e
  BY <1>1, NotifyKeepsBooks DEF CacheInv
<1>4. /\ \A x \in Owners : handle'[x] = IF x = e THEN c
                                        ELSE IF x = Server THEN NoContainer ELSE handle[x]
      /\ c \in Containers \cup {NoContainer}
  BY <1>1, <1>3 DEF CacheInv, Books
<1>5. change'[e] = "EWaitForPolicyCacheIdle" /\ \A f \in Changes : f # e => change'[f] = change[f]
  BY <1>2 DEF CacheInv, Types
<1>6. Types'
  BY <1>2 DEF CacheInv, Types
<1>7. HandlesOwned'
  BY <1>2, <1>4, <1>5, OwnerKinds DEF CacheInv, HandlesOwned
<1>8. WaiterWaits'
  BY <1>3, <1>5, OwnerKinds DEF CacheInv, WaiterWaits
<1>9. PolicyKept'
  <2>1. ASSUME NEW q \in Prompts, prompt[q] = "Prompting"
        PROVE  handle'[q] # NoContainer /\ container'[handle'[q]].version # Unread
    <3>1. handle'[q] = handle[q] /\ handle[q] \in Containers
      BY <1>4, <2>1, OwnerKinds DEF CacheInv, PolicyKept, Books
    <3>. QED
      BY <1>3, <2>1, <3>1 DEF CacheInv, PolicyKept
  <2>. QED
    BY <1>2, <2>1 DEF PolicyKept
<1>10. ServerCurrent'
  BY <1>1, <1>4 DEF ServerCurrent
<1>11. OldCacheWatched'
  <2>1. ASSUME NEW q \in Prompts, disturbed = "no", handle'[q] # NoContainer
        PROVE  container'[handle'[q]].iClientRequest # NoChange
    <3>1. q \in Owners /\ q # Server /\ handle'[q] = handle[q] /\ handle[q] \in Containers
      BY <1>1, <1>4, <2>1, OwnerKinds DEF CacheInv, Books
    <3>2. CASE handle[q] = c
      <4>1. container[c].iReferenceCount >= 2
        BY <1>1, <2>1, <3>1, <3>2, TwoUsers DEF CacheInv
      <4>2. container'[c].iClientRequest = e
        BY <1>3, <3>1, <3>2, <4>1
      <4>. QED
        BY <3>1, <3>2, <4>2, OwnerKinds
    <3>3. CASE handle[q] # c
      BY <1>3, <2>1, <3>1, <3>3 DEF CacheInv, OldCacheWatched
    <3>. QED
      BY <3>2, <3>3
  <2>. QED
    BY <1>2, <2>1 DEF OldCacheWatched
<1>12. StaleAwaitsChange'
  BY <1>5 DEF StaleAwaitsChange
<1>13. JoinsUnwatched
  <2>1. c \in Containers => container[c].iClientRequest = NoChange
    BY <1>1, CellFields, OwnerKinds DEF CacheInv, Books
  <2>. QED
    BY <1>4, <2>1 DEF JoinsUnwatched
<1>. QED
  BY <1>3, <1>6, <1>7, <1>8, <1>9, <1>10, <1>11, <1>12, <1>13 DEF CacheInv

LEMMA StartScanKeeps ==
    ASSUME CacheInv, NEW e \in Changes, StartScan(e)
    PROVE  CacheInv' /\ JoinsUnwatched
<1>1. /\ change[e] = "EWaitForPolicyCacheIdle" /\ ~Pending(e)
      /\ change' = [change EXCEPT ![e] = "EScanDatabase"]
      /\ UNCHANGED <<container, handle, prompt, files, announced, decisions, disturbed>>
  BY DEF StartScan
<1>2. change'[e] = "EScanDatabase" /\ \A f \in Changes : f # e => change'[f] = change[f]
  BY <1>1 DEF CacheInv, Types
<1>3. Books(container', handle') /\ PolicyKept' /\ ServerCurrent' /\ OldCacheWatched'
  BY <1>1 DEF CacheInv, PolicyKept, ServerCurrent, OldCacheWatched
<1>4. Types'
  BY <1>1 DEF CacheInv, Types
<1>5. HandlesOwned'
  BY <1>1, <1>2 DEF CacheInv, HandlesOwned
<1>6. WaiterWaits'
  BY <1>1, <1>2 DEF CacheInv, WaiterWaits, Pending
<1>7. StaleAwaitsChange'
  BY <1>1, <1>2 DEF CacheInv, StaleAwaitsChange
<1>8. JoinsUnwatched
  BY <1>1 DEF JoinsUnwatched
<1>. QED
  BY <1>3, <1>4, <1>5, <1>6, <1>7, <1>8 DEF CacheInv

LEMMA ScanDatabaseKeeps ==
    ASSUME CacheInv, NEW e \in Changes, ScanDatabase(e)
    PROVE  CacheInv' /\ JoinsUnwatched
<1> DEFINE s == ServerCache
           h == [handle EXCEPT ![Server] = s]
           old == Released(Opened, handle[e])
           stale == Unneeded(container'[s].version)
<1>1. /\ Server \in Owners /\ e \in Owners /\ e # Server
      /\ files \in Versions /\ Unread \notin Versions
  BY OwnerKinds DEF CacheInv, Types, Unread, Versions
<1>2. /\ change[e] = "EScanDatabase" /\ change' = [change EXCEPT ![e] = "None"]
      /\ container' = IF decisions = {} THEN old ELSE Loaded(old, s)
      /\ handle' = [handle EXCEPT ![Server] = s, ![e] = NoContainer]
      /\ \/ decisions' = decisions \ stale /\ UNCHANGED disturbed
         \/ disturbed' = "change" /\ UNCHANGED decisions
      /\ UNCHANGED <<prompt, files, announced>>
  BY DEF ScanDatabase
<1>3. /\ s \in Containers
      /\ Books(Opened, h)
      /\ Opened[s].iClientRequest = NoChange
      /\ \A d \in Containers : /\ Opened[d].version = container[d].version
                               /\ Opened[d].iClientRequest = container[d].iClientRequest
      /\ \/ handle[Server] = s
         \/ handle[Server] = NoContainer /\ container[s].version = Unread
  BY OpenKeepsBooks DEF CacheInv
<1>4. /\ \A x \in Owners : handle'[x] = IF x = e THEN NoContainer
                                        ELSE IF x = Server THEN s ELSE handle[x]
      /\ h[e] = handle[e] /\ handle' = [h EXCEPT ![e] = NoContainer]
  BY <1>1, <1>2 DEF CacheInv, Books
<1> HIDE DEF s, h
<1>5. Books(old, handle') /\ Spares(Opened, old, handle')
  <2>1. \A c \in Containers :
           Opened[c].iClientRequest # NoChange => Opened[c].iClientRequest # e
    BY <1>2, <1>3, NoOtherWaiter
  <2>2. /\ Books(Released(Opened, h[e]), [h EXCEPT ![e] = NoContainer])
        /\ Spares(Opened, Released(Opened, h[e]), [h EXCEPT ![e] = NoContainer])
    BY <1>1, <1>3, <2>1, ReleaseKeepsBooks, ReleaseSparesUsers
  <2>. QED
    BY <1>4, <2>2
<1> HIDE DEF old
<1>6. handle'[Server] = s /\ s # NoContainer /\ old[s].iReferenceCount # 0
  <2>1. handle'[Server] = s /\ s # NoContainer
    BY <1>1, <1>3, <1>4, OwnerKinds
  <2>2. old[handle'[Server]].iReferenceCount # 0
    BY <1>1, <1>5, <2>1, UsedIsCounted
  <2>. QED
    BY <2>1, <2>2
<1>7. /\ Books(container', handle')
      /\ \A d \in Containers : /\ container'[d].iClientRequest = old[d].iClientRequest
                               /\ d # s => container'[d] = old[d]
      /\ container'[s].version = IF decisions # {} /\ old[s].version = Unread THEN files
                                 ELSE old[s].version
  <2>1. CASE decisions = {}
    BY <1>2, <1>5, <2>1
  <2>2. CASE decisions # {}
    <3>1. container' = Loaded(old, s)
      BY <1>2, <2>2
    <3>. QED
      BY <1>1, <1>3, <1>5, <1>6, <2>2, <3>1, LoadKeepsBooks
  <2>. QED
    BY <2>1, <2>2
<1>8. /\ \A d \in Containers : container'[d].iClientRequest \in {container[d].iClientRequest, NoChange}
      /\ \A q \in Prompts : handle'[q] # NoContainer =>
            container'[handle'[q]].iClientRequest = container[handle'[q]].iClientRequest
      /\ \A q \in Prompts : handle'[q] # NoContainer /\ handle'[q] # s =>
            container'[handle'[q]].version = container[handle'[q]].version
      /\ container'[s].version = IF decisions # {} /\ container[s].version = Unread THEN files
                                 ELSE container[s].version
  <2>1. \A x \in Owners : handle'[x] # NoContainer => handle'[x] \in Containers
    BY <1>5 DEF Books
  <2>2. old[s].version = container[s].version
    BY <1>1, <1>3, <1>5, <1>6 DEF Spares
  <2>3. \A q \in Prompts : handle'[q] # NoContainer =>
           /\ handle'[q] \in Containers
           /\ old[handle'[q]].version = container[handle'[q]].version
           /\ old[handle'[q]].iClientRequest = container[handle'[q]].iClientRequest
    BY <1>3, <1>5, <2>1, OwnerKinds DEF Spares
  <2>4. \A d \in Containers : old[d].iClientRequest \in {container[d].iClientRequest, NoChange}
    BY <1>3, <1>5 DEF Spares
  <2>. QED
    BY <1>7, <2>2, <2>3, <2>4
<1>9. Types'
  BY <1>2 DEF CacheInv, Types
<1>10. \A f \in Changes : change'[f] = IF f = e THEN "None" ELSE change[f]
  BY <1>2 DEF CacheInv, Types
<1>11. HandlesOwned'
  BY <1>2, <1>4, <1>10, OwnerKinds DEF CacheInv, HandlesOwned
<1>12. WaiterWaits'
  BY <1>2, <1>8, <1>10, OwnerKinds DEF CacheInv, WaiterWaits
<1>13. PolicyKept'
  <2>1. ASSUME NEW q \in Prompts, prompt[q] = "Prompting"
        PROVE  handle'[q] # NoContainer /\ container'[handle'[q]].version # Unread
    <3>1. handle'[q] = handle[q] /\ handle[q] # NoContainer /\ container[handle[q]].version # Unread
      BY <1>4, <2>1, OwnerKinds DEF CacheInv, PolicyKept
    <3>. QED
      BY <1>8, <3>1
  <2>. QED
    BY <1>2, <2>1 DEF PolicyKept
<1>14. announced => container'[s].version \in {Unread, files}
  BY <1>3, <1>8, OwnerKinds DEF CacheInv, ServerCurrent
<1>15. ServerCurrent'
  BY <1>2, <1>6, <1>14 DEF ServerCurrent
<1>16. OldCacheWatched'
  <2>1. ASSUME NEW q \in Prompts, disturbed = "no",
               handle'[q] # NoContainer, handle'[q] # handle'[Server]
        PROVE  container'[handle'[q]].iClientRequest # NoChange
    <3>1. q \in Owners /\ handle'[q] = handle[q] /\ handle'[Server] = s
      BY <1>1, <1>4, <2>1, OwnerKinds
    <3>2. handle[q] # handle[Server]
      BY <1>3, <2>1, <3>1
    <3>. QED
      BY <1>8, <2>1, <3>1, <3>2 DEF CacheInv, OldCacheWatched
  <2>. QED
    BY <1>2, <2>1 DEF OldCacheWatched
<1>17. StaleAwaitsChange'
  <2>1. ASSUME disturbed' = "no", announced
        PROVE  decisions' \subseteq {files}
    <3>1. decisions' = decisions \ stale
      BY <1>2, <2>1
    <3>2. decisions' \subseteq {container'[s].version}
      BY <3>1 DEF Unneeded
    <3>3. CASE decisions = {}
      BY <3>1, <3>3
    <3>4. CASE decisions # {}
      <4>1. container'[s].version # Unread
        BY <1>1, <1>8, <3>4
      <4>. QED
        BY <1>14, <2>1, <3>2, <4>1
    <3>. QED
      BY <3>3, <3>4
  <2>. QED
    BY <1>2, <2>1 DEF StaleAwaitsChange
<1>18. JoinsUnwatched
  BY <1>3, <1>4 DEF JoinsUnwatched
<1>. QED
  BY <1>7, <1>9, <1>11, <1>12, <1>13, <1>15, <1>16, <1>17, <1>18 DEF CacheInv

LEMMA FailChangeKeeps ==
    ASSUME CacheInv, NEW e \in Changes, FailChange(e)
    PROVE  CacheInv' /\ JoinsUnwatched
<1> DEFINE w == Withdrawn(e)
<1>1. e \in Owners /\ e # Server /\ Server \in Owners
  BY OwnerKinds
<1>2. /\ change' = [change EXCEPT ![e] = "None"]
      /\ handle' = [handle EXCEPT ![e] = NoContainer]
      /\ container' = Released(w, handle[e])
      /\ disturbed' = "change"
      /\ UNCHANGED <<prompt, files, announced, decisions>>
  BY DEF FailChange
<1>3. /\ Books(w, handle)
      /\ \A d \in Containers :
            /\ w[d].version = container[d].version
            /\ w[d].iClientRequest = IF container[d].iClientRequest = e THEN NoChange
                                     ELSE container[d].iClientRequest
  BY WithdrawKeepsBooks DEF CacheInv
<1> HIDE DEF w
<1>4. Books(container', handle') /\ Spares(w, container', handle')
  <2>1. \A c \in Containers : w[c].iClientRequest # NoChange => w[c].iClientRequest # e
    BY <1>3
  <2>. QED
    BY <1>1, <1>2, <1>3, <2>1, ReleaseKeepsBooks, ReleaseSparesUsers
<1>5. \A x \in Owners : handle'[x] = IF x = e THEN NoContainer ELSE handle[x]
  BY <1>1, <1>2 DEF CacheInv, Books
<1>6. /\ \A d \in Containers : /\ container'[d].iClientRequest \in {container[d].iClientRequest, NoChange}
                               /\ container'[d].iClientRequest = e => e = NoChange
      /\ \A x \in Owners : handle'[x] # NoContainer =>
            container'[handle'[x]].version = container[handle'[x]].version
  BY <1>3, <1>4 DEF Spares, Books
<1>7. \A f \in Changes : change'[f] = IF f = e THEN "None" ELSE change[f]
  BY <1>2 DEF CacheInv, Types
<1>8. Types'
  BY <1>2 DEF CacheInv, Types
<1>9. HandlesOwned'
  BY <1>2, <1>5, <1>7, OwnerKinds DEF CacheInv, HandlesOwned
<1>10. WaiterWaits'
  BY <1>6, <1>7, OwnerKinds DEF CacheInv, WaiterWaits
<1>11. PolicyKept'
  <2>1. ASSUME NEW q \in Prompts, prompt[q] = "Prompting"
        PROVE  handle'[q] # NoContainer /\ container'[handle'[q]].version # Unread
    BY <1>5, <1>6, <2>1, OwnerKinds DEF CacheInv, PolicyKept
  <2>. QED
    BY <1>2, <2>1 DEF PolicyKept
<1>12. ServerCurrent'
  BY <1>1, <1>2, <1>5, <1>6 DEF CacheInv, ServerCurrent
<1>13. OldCacheWatched' /\ StaleAwaitsChange'
  BY <1>2 DEF OldCacheWatched, StaleAwaitsChange
<1>14. JoinsUnwatched
  BY <1>5 DEF JoinsUnwatched
<1>. QED
  BY <1>4, <1>8, <1>9, <1>10, <1>11, <1>12, <1>13, <1>14 DEF CacheInv

-----------------------------------------------------------------------------
(* Theorems *)

LEMMA InitCache == Init => CacheInv
<1> SUFFICES ASSUME Init PROVE CacheInv
  OBVIOUS
<1> DEFINE first == CHOOSE c \in Containers : TRUE
<1>1. first \in Containers
  <2>1. Containers # {}
    <3>1. Owners # {} /\ IsFiniteSet(Owners) /\ Cardinality(Owners) # 0
      BY HandleAssumption, OwnerKinds, FS_EmptySet
    <3>2. Cardinality(Owners) \in Nat
      BY HandleAssumption, FS_CardinalityType
    <3>. QED
      BY <3>1, <3>2, HandleAssumption, FS_EmptySet
  <2>. QED
    BY <2>1
<1>2. /\ container = [c \in Containers |->
           IF c = first THEN [Unused EXCEPT !.iReferenceCount = 1] ELSE Unused]
      /\ handle = [o \in Owners |-> IF o = Server THEN first ELSE NoContainer]
  BY DEF Init
<1>3. Server \in Owners /\ first # NoContainer
  BY <1>1, OwnerKinds
<1> HIDE DEF first
<1>4. container \in [Containers -> Cells]
  BY <1>2 DEF Cells, Unused
<1>5. /\ \A c \in Containers : container[c].version = Unread /\ container[c].iClientRequest = NoChange
      /\ \A c \in Containers : container[c].iReferenceCount = IF c = first THEN 1 ELSE 0
      /\ \A c \in Containers : c # first => container[c] = Unused
  BY <1>2 DEF Unused
<1>6. \A c \in Containers : container[c].iReferenceCount = Cardinality(Users(handle, c))
  <2>1. TAKE c \in Containers
  <2>2. Users(handle, c) = IF c = first THEN {Server} ELSE {}
    BY <1>2, <1>3, OwnerKinds DEF Users
  <2>. QED
    BY <1>5, <2>2, FS_EmptySet, FS_Singleton
<1>7. \A o \in Owners : o # Server => handle[o] = NoContainer
  BY <1>2
<1>8. Books(container, handle)
  BY <1>1, <1>2, <1>3, <1>4, <1>5, <1>6, <1>7, OwnerKinds DEF Books
<1>9. Types
  BY HandleAssumption DEF Init, Types, Versions
<1>10. HandlesOwned
  BY <1>7, OwnerKinds DEF Init, HandlesOwned
<1>11. WaiterWaits /\ ServerCurrent /\ OldCacheWatched
  <2>1. WaiterWaits
    BY <1>5, OwnerKinds DEF WaiterWaits
  <2>2. handle[Server] \in Containers \cup {NoContainer}
    BY <1>8, OwnerKinds DEF Books
  <2>3. ServerCurrent
    BY <1>5, <2>2 DEF ServerCurrent
  <2>4. OldCacheWatched
    BY <1>7, OwnerKinds DEF OldCacheWatched
  <2>. QED
    BY <2>1, <2>3, <2>4
<1>12. PolicyKept /\ StaleAwaitsChange
  BY DEF Init, PolicyKept, StaleAwaitsChange
<1>. QED
  BY <1>8, <1>9, <1>10, <1>11, <1>12 DEF CacheInv

LEMMA NextKeepsCache ==
    ASSUME CacheInv, [Next]_vars
    PROVE  CacheInv' /\ JoinsUnwatched
<1>1. CASE UNCHANGED vars
  BY <1>1 DEF vars, CacheInv, Books, Users, Types, HandlesOwned, WaiterWaits, PolicyKept,
              ServerCurrent, OldCacheWatched, StaleAwaitsChange, JoinsUnwatched
<1>2. ASSUME NEW p \in Prompts, ExecutePrompt(p)
      PROVE  CacheInv' /\ JoinsUnwatched
  BY <1>2, ExecutePromptKeeps
<1>3. ASSUME NEW p \in Prompts, ExecutePromptFails(p)
      PROVE  CacheInv' /\ JoinsUnwatched
  BY <1>3, ExecutePromptFailsKeeps
<1>4. ASSUME NEW p \in Prompts, LookupPolicy(p)
      PROVE  CacheInv' /\ JoinsUnwatched
  BY <1>4, LookupPolicyKeeps
<1>5. ASSUME NEW p \in Prompts, StoreDecision(p)
      PROVE  CacheInv' /\ JoinsUnwatched
  BY <1>5, DeletedKeeps DEF StoreDecision
<1>6. ASSUME NEW p \in Prompts, EndPrompt(p)
      PROVE  CacheInv' /\ JoinsUnwatched
  BY <1>6, DeletedKeeps DEF EndPrompt
<1>7. CASE GetClientConfig
  BY <1>7, GetClientConfigKeeps
<1>8. CASE ChangeFiles
  BY <1>8, ChangeFilesKeeps
<1>9. ASSUME NEW e \in Changes, NotifyPolicyFilesChanged(e)
      PROVE  CacheInv' /\ JoinsUnwatched
  BY <1>9, NotifyKeeps
<1>10. ASSUME NEW e \in Changes, StartScan(e)
       PROVE  CacheInv' /\ JoinsUnwatched
  BY <1>10, StartScanKeeps
<1>11. ASSUME NEW e \in Changes, ScanDatabase(e)
       PROVE  CacheInv' /\ JoinsUnwatched
  BY <1>11, ScanDatabaseKeeps
<1>12. ASSUME NEW e \in Changes, FailChange(e)
       PROVE  CacheInv' /\ JoinsUnwatched
  BY <1>12, FailChangeKeeps
<1>. QED
  BY <1>1, <1>2, <1>3, <1>4, <1>5, <1>6, <1>7, <1>8, <1>9, <1>10, <1>11, <1>12 DEF Next

LEMMA CacheInvariant == Spec => []CacheInv
<1>1. CacheInv /\ [Next]_vars => CacheInv'
  BY NextKeepsCache
<1>. QED
  BY InitCache, <1>1, PTL DEF Spec

\* A container has as many references as handles are open on it, whatever is started,
\* ended, cancelled or fails.
THEOREM ReferencesExactTheorem == Spec => []ReferencesExact
<1>1. CacheInv => ReferencesExact
  BY DEF CacheInv, Books, ReferencesExact, UsersOf, Users
<1>. QED
  BY <1>1, CacheInvariant, PTL

\* The variables have their types: no more references are counted than there are owners.
THEOREM TypeOKTheorem == Spec => []TypeOK
<1>1. CacheInv => TypeOK
  <2> SUFFICES ASSUME CacheInv PROVE TypeOK
    OBVIOUS
  <2> DEFINE Small == [iReferenceCount : 0 .. Cardinality(Owners),
                       version : {Unread} \cup Versions,
                       iClientRequest : Changes \cup {NoChange}]
  <2>1. ASSUME NEW c \in Containers PROVE container[c] \in Small
    <3>1. container[c] \in Cells /\ container[c].iReferenceCount = Cardinality(Users(handle, c))
      BY DEF CacheInv, Books
    <3>2. Users(handle, c) \subseteq Owners
      BY DEF Users
    <3>3. Cardinality(Owners) \in Nat /\ Cardinality(Users(handle, c)) <= Cardinality(Owners)
      BY <3>2, HandleAssumption, FS_Subset, FS_CardinalityType
    <3>4. container[c].iReferenceCount \in 0 .. Cardinality(Owners)
      BY <3>1, <3>3, CellFields
    <3>. QED
      BY <3>1, <3>4 DEF Cells
  <2>2. container \in [Containers -> Small] /\ handle \in [Owners -> Containers \cup {NoContainer}]
    BY <2>1 DEF CacheInv, Books
  <2>. QED
    BY <2>2 DEF CacheInv, Types, TypeOK
<1>. QED
  BY <1>1, CacheInvariant, PTL

\* A request that waits for a cache to become idle is registered with it, holds a handle
\* of it, and waits for a prompt: not for the server, and not for another such request.
THEOREM WaiterAliveTheorem == Spec => []WaiterAlive
<1>1. CacheInv => WaiterAlive
  <2> SUFFICES ASSUME CacheInv PROVE WaiterAlive
    OBVIOUS
  <2>1. ASSUME NEW c \in Containers, NEW e \in Changes, container[c].iClientRequest = e
        PROVE  /\ change[e] = "EWaitForPolicyCacheIdle" /\ handle[e] = c
               /\ c # NoContainer /\ handle[Server] # c
               /\ \E p \in Prompts : handle[p] = c
    <3>1. e # NoChange /\ handle[e] = c /\ c # NoContainer /\ container[c].iReferenceCount >= 2
      BY <2>1, OwnerKinds DEF CacheInv, Books
    <3>2. change[e] = "EWaitForPolicyCacheIdle" /\ handle[Server] # c
      BY <2>1, <3>1 DEF CacheInv, WaiterWaits, Books
    <3>3. \E p \in Prompts : handle[p] = c
      <4>1. SUFFICES ASSUME \A p \in Prompts : handle[p] # c PROVE FALSE
        OBVIOUS
      <4>2. Users(handle, c) \subseteq {e}
        BY <3>1, <3>2, <4>1 DEF CacheInv, Books, Users, Owners
      <4>3. Cardinality(Users(handle, c)) <= 1
        <5>1. IsFiniteSet({e}) /\ Cardinality({e}) = 1
          BY FS_Singleton
        <5>. QED
          BY <4>2, <5>1, FS_Subset
      <4>4. Cardinality(Users(handle, c)) >= 2
        BY <3>1 DEF CacheInv, Books
      <4>. QED
        BY <4>3, <4>4, UsersFinite
    <3>. QED
      BY <3>1, <3>2, <3>3
  <2>. QED
    BY <2>1 DEF WaiterAlive, Pending
<1>. QED
  BY <1>1, CacheInvariant, PTL

\* A prompt under way keeps the policy it has looked up.
THEOREM PolicyKeptTheorem == Spec => []PolicyKept
<1>1. CacheInv => PolicyKept
  BY DEF CacheInv
<1>. QED
  BY <1>1, CacheInvariant, PTL

\* When all has ended without a failure, no decision of a replaced policy is left.
THEOREM QuietMeansCleanTheorem == Spec => []QuietMeansClean
<1>1. CacheInv => QuietMeansClean
  BY DEF CacheInv, StaleAwaitsChange, QuietMeansClean, Quiet
<1>. QED
  BY <1>1, CacheInvariant, PTL

\* Nobody starts to use a cache that a change request waits for.
THEOREM NobodyJoinsOldCacheTheorem == Spec => NobodyJoinsOldCache
<1> DEFINE A == \A e \in Changes, c \in Containers :
                   container[c].iClientRequest = e /\ container'[c].iClientRequest = e
                       => UsersOf(c)' \subseteq UsersOf(c)
<1>1. CacheInv /\ [Next]_vars => A
  <2> SUFFICES ASSUME CacheInv, [Next]_vars, NEW e \in Changes, NEW c \in Containers,
                      container[c].iClientRequest = e
               PROVE  UsersOf(c)' \subseteq UsersOf(c)
    OBVIOUS
  <2>1. JoinsUnwatched
    BY NextKeepsCache
  <2>2. c # NoContainer /\ container[c].iClientRequest # NoChange
    BY OwnerKinds
  <2>3. ASSUME NEW o \in Owners, handle'[o] = c PROVE handle[o] = c
    BY <2>1, <2>2, <2>3 DEF JoinsUnwatched
  <2>. QED
    BY <2>3 DEF UsersOf
<1>2. Spec => [][Next]_vars
  BY PTL DEF Spec
<1>. QED
  BY <1>1, <1>2, CacheInvariant, PTL DEF NobodyJoinsOldCache

=============================================================================
