------------------------------ MODULE KeyChain ------------------------------
(***************************************************************************)
(* What a key store promises its clients, with no requests, dialogs,       *)
(* caches or streams: keys with a label and a handle of their own and one  *)
(* passphrase, which come and go one at a time, last over a restart and    *)
(* are not deleted while a client has them open.  A restart may find the   *)
(* chain replaced by an original one, whole: it loses no single key.  A    *)
(* key that has been deleted may come back with it.                        *)
(***************************************************************************)
CONSTANTS
    Clients,
    Keys,           \* records with a handle, a label and a passphrase
    Originals       \* the sets of keys that a chain may start with

VARIABLES
    listed,         \* the keys clients find
    lasting,        \* those they will find after a restart
    opened          \* handles of the keys each client has open

vars == <<listed, lasting, opened>>

TypeOK ==
    /\ listed \subseteq lasting /\ lasting \subseteq Keys
    /\ \A c \in Clients : opened[c] \subseteq {k.handle : k \in listed}

Init == listed \in Originals /\ lasting = listed /\ opened = [c \in Clients |-> {}]

\* The label may be that of a key that has been deleted but would come back.
Add(k) ==
    /\ \A j \in listed : j.label # k.label /\ j.pass = k.pass
    /\ \A j \in lasting : j.handle # k.handle
    /\ listed' = listed \cup {k} /\ lasting' = listed'
    /\ UNCHANGED opened

Remove(k) ==
    /\ k \in listed
    /\ \A c \in Clients : k.handle \notin opened[c]
    /\ listed' = listed \ {k} /\ lasting' \in {listed', lasting}
    /\ UNCHANGED opened

Open(c, k) ==
    /\ k \in listed
    /\ opened' = [opened EXCEPT ![c] = @ \cup {k.handle}]
    /\ UNCHANGED <<listed, lasting>>

\* A client closes a key, or goes.
Release(c) ==
    /\ \E left \in SUBSET opened[c] : opened' = [opened EXCEPT ![c] = left]
    /\ UNCHANGED <<listed, lasting>>

Restart ==
    /\ lasting' \in {lasting} \cup Originals
    /\ listed' = lasting'
    /\ opened' = [c \in Clients |-> {}]

Next ==
    \/ Restart
    \/ \E k \in Keys : Add(k) \/ Remove(k)
    \/ \E c \in Clients : Release(c) \/ \E k \in Keys : Open(c, k)

Spec == Init /\ [][Next]_vars
=============================================================================
