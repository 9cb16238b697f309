--------------------------- MODULE MCMailboxClients ---------------------------
(***************************************************************************)
(* Small instances of the mailbox over RabbitMQ and its clients for TLC.   *)
(***************************************************************************)
EXTENDS MailboxClients, TLC

MCQueueOf == "human" :> "human.inbox" @@ "worker" :> "worker.inbox"
=============================================================================
