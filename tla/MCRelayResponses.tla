-------------------------- MODULE MCRelayResponses --------------------------
(***************************************************************************)
(* Small instances of the relay with transport "responses" for TLC.        *)
(***************************************************************************)
EXTENDS RelayResponses
=============================================================================
