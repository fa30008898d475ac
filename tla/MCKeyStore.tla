----------------------------- MODULE MCKeyStore -----------------------------
(***************************************************************************)
(* Instance of KeyStore for TLC: with a key in ROM.                        *)
(***************************************************************************)
EXTENDS KeyStore

CONSTANTS l1, q1

MCRomStore == [keys |-> {[handle |-> 1, label |-> l1, pass |-> q1]},
               pass |-> q1, streams |-> {1, q1}]
=============================================================================
