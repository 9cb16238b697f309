---------------------------- MODULE MailboxRabbit ----------------------------
(***************************************************************************)
(* The mailbox API over RabbitMQ: put_mailbox_message and                  *)
(* get_mailbox_message (app.py) with the handlers that call them           *)
(* (health.py).  Every request is served by a thread of its own, which     *)
(* works on a row of mailbox_messages and on a queue of the broker in turn *)
(* and shares no lock with the others.                                     *)
(***************************************************************************)
EXTENDS Naturals, FiniteSets

CONSTANTS Boxes,      \* mailboxes
          QueueOf,    \* the queue of each mailbox
          Given,      \* messageIds that senders choose
          Generated,  \* messageIds the service generates
          NumThreads, \* bound: requests served at a time
          MaxFaults,  \* bound: failures of a statement, a connection or a program
          MaxCrashes  \* bound: crashes of the relay

ASSUME MailboxAssumption ==
    /\ QueueOf \in [Boxes -> STRING]
    /\ Given \subseteq Nat \ {0} /\ Generated \subseteq Nat \ {0}
    /\ Given \intersect Generated = {}
    /\ NumThreads \in Nat /\ MaxFaults \in Nat /\ MaxCrashes \in Nat

VARIABLES rows,       \* rows[i]: status of the row of message i, or "absent"
          letter,     \* letter[i]: sender, mailbox and inReplyTo of message i
          thread,     \* thread[t]: the request t serves and how far it is
          ready, held, \* the broker
          settled,    \* messages taken off their queue for good
          handed,     \* handed[i]: answers that carried message i to a client
          faults, crashes

Ids == Given \union Generated
Threads == 1..NumThreads
Queues == {QueueOf[b] : b \in Boxes}
Clients == Threads
Payloads == Ids

INSTANCE Broker

RowStatuses == {"absent", "publishing", "queued", "failed", "delivered"}
PutPoints == {"insert", "publish", "mark_queued", "mark_failed"}
GetPoints == {"fetch", "mark_delivered", "ack"}
Answers == {"accepted", "refused", "message", "nothing", "error"}
Points == {"idle"} \union PutPoints \union GetPoints \union Answers

Letters == [from : Boxes, to : Boxes, re : Ids \union {0}]

NoLetter == [from |-> "", to |-> "", re |-> 0]
Free == [at |-> "idle", msg |-> 0, mail |-> NoLetter, box |-> ""]

serverVars == <<rows, letter, thread, ready, held, settled, handed>>

ServerTypeOK ==
    /\ rows \in [Ids -> RowStatuses]
    /\ letter \in [Ids -> Letters \union {NoLetter}]
    /\ thread \in [Threads -> [at : Points, msg : Ids \union {0},
                              mail : Letters \union {NoLetter}, box : Boxes \union {""}]]
    /\ BrokerTypeOK
    /\ settled \subseteq Ids
    /\ handed \in [Ids -> Nat]
    /\ faults \in Nat /\ crashes \in Nat

ServerInit ==
    /\ rows = [i \in Ids |-> "absent"]
    /\ letter = [i \in Ids |-> NoLetter]
    /\ thread = [t \in Threads |-> Free]
    /\ BrokerInit
    /\ settled = {}
    /\ handed = [i \in Ids |-> 0]
    /\ faults = 0 /\ crashes = 0

Fault == faults < MaxFaults /\ faults' = faults + 1

SetStatus(i, s) == rows' = [rows EXCEPT ![i] = s]

At(t, p) == thread[t].at = p

Goto(t, p) == thread' = [thread EXCEPT ![t].at = p]

\* Threads are alike: a new request is given to the first one that is free.
IsFree(t) == At(t, "idle") /\ \A u \in Threads : At(u, "idle") => t <= u

-----------------------------------------------------------------------------
(* PUT /v1/messages.                                                       *)

\* The sender of a letter is the mailbox the request authenticates.
StartPut(t, i, l) ==
    /\ IsFree(t)
    /\ thread' = [thread EXCEPT ![t] = [Free EXCEPT !.at = "insert", !.msg = i, !.mail = l]]

\* The messageId the service generates for a body without one.
IsFresh(i) ==
    /\ i \in Generated
    /\ rows[i] = "absent"
    /\ \A t \in Threads : thread[t].msg # i

\* Mutant of InsertRow: a message that failed before is accepted once more.
InsertRowAgain(t) ==
    /\ At(t, "insert")
    /\ LET i == thread[t].msg IN
       \/ /\ rows[i] \in {"absent", "failed"}
          /\ SetStatus(i, "publishing")
          /\ letter' = [letter EXCEPT ![i] = thread[t].mail]
          /\ Goto(t, "publish")
       \/ /\ rows[i] \notin {"absent", "failed"}
          /\ Goto(t, "refused")
          /\ UNCHANGED <<rows, letter>>
    /\ UNCHANGED <<ready, held, settled, handed, faults, crashes>>

\* message_id is unique: an id in use is refused, whatever became of its row.
InsertRow(t) ==
    /\ At(t, "insert")
    /\ LET i == thread[t].msg IN
       \/ /\ rows[i] = "absent"
          /\ SetStatus(i, "publishing")
          /\ letter' = [letter EXCEPT ![i] = thread[t].mail]
          /\ Goto(t, "publish")
       \/ /\ rows[i] # "absent"
          /\ Goto(t, "refused")
          /\ UNCHANGED <<rows, letter>>
    /\ UNCHANGED <<ready, held, settled, handed, faults, crashes>>

\* Closing a connection that broke raises an exception of its own, which nobody
\* catches: the row is not even marked as failed.
PublishRow(t) ==
    /\ At(t, "publish")
    /\ LET i == thread[t].msg
           q == QueueOf[letter[i].to]
       IN \/ Publish(q, i) /\ Goto(t, "mark_queued") /\ UNCHANGED faults
          \/ /\ Fault
             /\ PublishUnconfirmed(q, i)
             /\ \E p \in {"mark_failed", "error"} : Goto(t, p)
    /\ UNCHANGED <<rows, letter, settled, handed, crashes>>

\* Mutant of MarkPublished: a failed publication is reported as accepted.
MarkPublishedAnyway(t) ==
    /\ At(t, "mark_queued") \/ At(t, "mark_failed")
    /\ SetStatus(thread[t].msg, "queued")
    /\ Goto(t, "accepted")
    /\ UNCHANGED <<letter, ready, held, settled, handed, faults, crashes>>

\* Mutant of MarkPublished: a status the schema does not know.
MarkPublishedSent(t) ==
    /\ At(t, "mark_queued") \/ At(t, "mark_failed")
    /\ SetStatus(thread[t].msg, "sent")
    /\ Goto(t, "accepted")
    /\ UNCHANGED <<letter, ready, held, settled, handed, faults, crashes>>

\* The row is marked whatever it says by now; a failed publication is answered with
\* an error.
MarkPublished(t) ==
    /\ LET i == thread[t].msg IN
       \/ At(t, "mark_queued") /\ SetStatus(i, "queued") /\ Goto(t, "accepted")
       \/ At(t, "mark_failed") /\ SetStatus(i, "failed") /\ Goto(t, "error")
    /\ UNCHANGED <<letter, ready, held, settled, handed, faults, crashes>>

\* A statement fails, or the audit record of an accepted message: the exception
\* answers the request, the row stays as it is.
PutFails(t) ==
    /\ thread[t].at \in {"insert", "mark_queued", "mark_failed", "accepted"}
    /\ Fault
    /\ Goto(t, "error")
    /\ UNCHANGED <<rows, letter, ready, held, settled, handed, crashes>>

PutMessage(t) == InsertRow(t) \/ PublishRow(t) \/ MarkPublished(t)

-----------------------------------------------------------------------------
(* GET /v1/messages for the authenticated mailbox.                         *)

StartGet(t, b) ==
    /\ IsFree(t)
    /\ thread' = [thread EXCEPT ![t] = [Free EXCEPT !.at = "fetch", !.box = b]]

FetchMessage(t) ==
    /\ At(t, "fetch")
    /\ LET q == QueueOf[thread[t].box] IN
       \/ /\ Fetch(t, q)
          /\ thread' = [thread EXCEPT ![t].at = "mark_delivered", ![t].msg = Head(ready[q])]
          /\ UNCHANGED faults
       \/ /\ ready[q] = <<>>
          /\ Goto(t, "nothing")
          /\ UNCHANGED <<ready, held, faults>>
       \/ /\ Fault
          /\ Goto(t, "error")
          /\ UNCHANGED <<ready, held>>
    /\ UNCHANGED <<rows, letter, settled, handed, crashes>>

\* Mutant of MarkDelivered: a failure keeps the delivery on its open connection.
MarkDeliveredOrKeep(t) ==
    /\ At(t, "mark_delivered")
    /\ \/ SetStatus(thread[t].msg, "delivered") /\ Goto(t, "ack") /\ UNCHANGED faults
       \/ Fault /\ Goto(t, "error") /\ UNCHANGED rows
    /\ UNCHANGED <<letter, ready, held, settled, handed, crashes>>

\* Any failure here gives the message back.
MarkDelivered(t) ==
    /\ At(t, "mark_delivered")
    /\ \/ /\ SetStatus(thread[t].msg, "delivered")
          /\ Goto(t, "ack")
          /\ UNCHANGED <<ready, held, faults>>
       \/ /\ Fault
          /\ RequeueIfHeld(t)
          /\ Goto(t, "error")
          /\ UNCHANGED rows
    /\ UNCHANGED <<letter, settled, handed, crashes>>

\* The broker closes the connection of a delivery that is not settled yet.
LoseConnection(t) ==
    /\ Fault
    /\ Requeue(t)
    /\ UNCHANGED <<rows, letter, thread, settled, handed, crashes>>

\* ack settles the delivery and closes its connection.  If either fails, the
\* message may be settled or not, and the answer is an error.
AckMessage(t) ==
    /\ At(t, "ack")
    /\ LET settles == settled' = settled \union {thread[t].msg} IN
       \/ Settle(t) /\ settles /\ Goto(t, "message") /\ UNCHANGED faults
       \/ Settle(t) /\ settles /\ Fault /\ Goto(t, "error")
       \/ Requeue(t) /\ Fault /\ Goto(t, "error") /\ UNCHANGED settled
       \/ ~Holds(t) /\ Goto(t, "error") /\ UNCHANGED <<ready, held, settled, faults>>
    /\ UNCHANGED <<rows, letter, handed, crashes>>

GetMessage(t) == FetchMessage(t) \/ MarkDelivered(t) \/ AckMessage(t)

Serve(t) == PutMessage(t) \/ GetMessage(t)

ServerFails(t) == PutFails(t) \/ LoseConnection(t)
=============================================================================
