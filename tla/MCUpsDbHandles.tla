--------------------------- MODULE MCUpsDbHandles ---------------------------
(***************************************************************************)
(* Instance of UpsDbHandles for TLC.                                       *)
(***************************************************************************)
EXTENDS UpsDbHandles

CONSTANTS s1, s2

\* both sessions view decisions; one updates them, the other is the observer of
\* software installation
MCRequests == {<<"View", s1>>, <<"Update", s1>>, <<"View", s2>>, <<"Policy", s2>>}
=============================================================================
