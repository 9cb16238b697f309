---------------------------- MODULE MCRelayRabbit ----------------------------
(***************************************************************************)
(* Small instances of the relay with transport "rabbitmq" for TLC.         *)
(***************************************************************************)
EXTENDS RelayRabbit
=============================================================================
