------------------------------- MODULE MCAlerts -------------------------------
(***************************************************************************)
(* Small instances of the alert store for TLC.                             *)
(***************************************************************************)
EXTENDS AlertStore
=============================================================================
