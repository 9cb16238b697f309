------------------------------ MODULE MCMailbox ------------------------------
(***************************************************************************)
(* Small instances of the mailbox service for TLC.                         *)
(***************************************************************************)
EXTENDS MailboxService, TLC

CONSTANTS a, b,         \* mailboxes
          r1, r2, r3,   \* readers
          m1, m2, m3    \* message ids

\* Two readers share a mailbox.
MCBoxOf == r1 :> a @@ r2 :> a @@ r3 :> b
=============================================================================
