---------------------------- MODULE PromptService ----------------------------
(***************************************************************************)
(* What the User Prompt Service promises to the servers that ask it, with  *)
(* no queues, wake-ups or disputes: a request is answered at once or after *)
(* a prompt of its own, one prompt is on the screen at a time, and a       *)
(* stored decision comes or goes only with the prompt of a request it      *)
(* applies to, or by management.                                           *)
(***************************************************************************)
CONSTANTS
    Requests,       \* those who may ask, one request each at a time
    Keys,           \* what a decision can be stored for
    Applies         \* Applies[r]: the keys r can store its decision under

VARIABLES
    phase,          \* of each request: "idle", "asked" or "prompting"
    decided         \* the keys with a stored decision

vars == <<phase, decided>>

TypeOK ==
    /\ phase \in [Requests -> {"idle", "asked", "prompting"}]
    /\ decided \subseteq Keys

Init == phase = [r \in Requests |-> "idle"] /\ decided = {}

Ask(r) ==
    /\ phase[r] = "idle"
    /\ phase' = [phase EXCEPT ![r] = "asked"]
    /\ UNCHANGED decided

Prompt(r) ==
    /\ phase[r] = "asked"
    /\ \A q \in Requests : phase[q] # "prompting"
    /\ phase' = [phase EXCEPT ![r] = "prompting"]
    /\ UNCHANGED decided

\* The client is answered or gets an error, or has cancelled.
End(r) ==
    /\ phase[r] # "idle"
    /\ phase' = [phase EXCEPT ![r] = "idle"]
    /\ \/ UNCHANGED decided
       \/ /\ phase[r] = "prompting"
          /\ decided' \in SUBSET Keys
          /\ decided' \ Applies[r] = decided \ Applies[r]

\* A management client removes a decision.
Forget(k) == decided' = decided \ {k} /\ UNCHANGED phase

\* The server dies: nobody is prompted or waits any more, what is decided stays.
Die == phase' = [r \in Requests |-> "idle"] /\ UNCHANGED decided

Next ==
    \/ Die
    \/ \E r \in Requests : Ask(r) \/ Prompt(r) \/ End(r)
    \/ \E k \in Keys : Forget(k)

Spec == Init /\ [][Next]_vars

\* Every request ends.
FairSpec == Spec /\ \A r \in Requests : WF_vars(End(r))
=============================================================================
