----------------------------- MODULE MCIngestion -----------------------------
(***************************************************************************)
(* Small instances of the ingestion of files for TLC.                      *)
(***************************************************************************)
EXTENDS Ingestion

\* One content carries a key; another leaves its key to the relay.
MCKeyOf == [b \in {"keyed"} |-> 1]

\* No content carries a key.
NoKeys == [b \in {} |-> 0]
=============================================================================
