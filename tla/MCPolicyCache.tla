---------------------------- MODULE MCPolicyCache ----------------------------
(***************************************************************************)
(* Instance of PolicyCache for TLC.                                        *)
(***************************************************************************)
EXTENDS PolicyCache, TLC

\* Containers are not symmetric: the lowest free one is taken.
MCSymmetry == Permutations(Prompts) \cup Permutations(Changes)
=============================================================================
