--------------------------- MODULE MCUpsAuthoriser ---------------------------
(***************************************************************************)
(* Instances of UpsAuthoriser for TLC.                                     *)
(***************************************************************************)
EXTENDS UpsAuthoriser

CONSTANTS p1, p2, p3, s1, s2, k1, k2

\* p1 and p2 are prompts of one session, p3 of another
MCSessionOf == [a \in {p1, p2, p3} |-> IF a = p3 THEN s2 ELSE s1]

\* p1 and p2 share a fingerprint, p2 and p3 share another one, so one dialog's
\* answer can settle another request, or match a second record of it
MCFingerprints == [a \in {p1, p2, p3} |->
    CASE a = p1 -> <<k1>> [] a = p2 -> <<k1, k2>> [] OTHER -> <<k2>>]
=============================================================================
