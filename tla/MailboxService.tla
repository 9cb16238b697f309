---------------------------- MODULE MailboxService ----------------------------
(***************************************************************************)
(* The mailbox API over SQLite: put_mailbox_message and                    *)
(* get_mailbox_message of the relay (app.py) and the transactions of       *)
(* mailbox_messages (state.py), run by the threads of the HTTP server.     *)
(*                                                                         *)
(* A PUT is one transaction.  A GET begins an immediate transaction, picks *)
(* the oldest queued row of its mailbox, marks it and commits, and only    *)
(* then answers.  Readers are the GET requests under way, one after the    *)
(* other for each reader; "locked" holds those with the write lock of the  *)
(* database.                                                               *)
(***************************************************************************)
EXTENDS Naturals, Sequences, Functions

CONSTANTS Ids,       \* values of messageId
          Boxes,     \* mailboxes
          Readers,   \* clients that poll
          BoxOf,     \* the mailbox each reader is authenticated for
          MaxRows    \* bound: messages accepted

ASSUME MailboxAssumption ==
    /\ BoxOf \in [Readers -> Boxes]
    /\ MaxRows \in Nat

VARIABLES table,    \* the rows of mailbox_messages by id
          locked,   \* readers inside a write transaction
          at,       \* the point each reader's request has reached
          row,      \* the row it has selected
          received  \* the rows sent to readers, in that order

vars == <<table, locked, at, row, received>>

Statuses == {"queued", "delivered"}
Points == {"idle", "begin", "select", "mark", "answer"}
TableRows == [id : Ids, to : Boxes, status : Statuses]

TypeOK ==
    /\ table \in Seq(TableRows) /\ Len(table) <= MaxRows
    /\ locked \subseteq Readers
    /\ at \in [Readers -> Points]
    /\ row \in [Readers -> Nat]
    /\ received \in Seq(Nat)

Init ==
    /\ table = <<>> /\ locked = {}
    /\ at = [r \in Readers |-> "idle"] /\ row = [r \in Readers |-> 0]
    /\ received = <<>>

Queued(b) == {i \in DOMAIN table : table[i].to = b /\ table[i].status = "queued"}

\* Mutant of Put: a messageId in use is accepted again.
PutAgain(id, b) ==
    /\ locked = {}
    /\ Len(table) < MaxRows
    /\ table' = Append(table, [id |-> id, to |-> b, status |-> "queued"])
    /\ UNCHANGED <<locked, at, row, received>>

\* A PUT that is accepted.  A messageId in use is refused, and so is a PUT that does
\* not get the lock: both leave no trace.
Put(id, b) ==
    /\ locked = {}
    /\ Len(table) < MaxRows
    /\ \A i \in DOMAIN table : table[i].id # id
    /\ table' = Append(table, [id |-> id, to |-> b, status |-> "queued"])
    /\ UNCHANGED <<locked, at, row, received>>

Get(r) ==
    /\ at[r] = "idle"
    /\ at' = [at EXCEPT ![r] = "begin"]
    /\ UNCHANGED <<table, locked, row, received>>

\* Mutant of BeginImmediate: a plain BEGIN does not ask for the lock.
BeginDeferred(r) ==
    /\ at[r] = "begin"
    /\ locked' = locked \union {r}
    /\ at' = [at EXCEPT ![r] = "select"]
    /\ UNCHANGED <<table, row, received>>

BeginImmediate(r) ==
    /\ at[r] = "begin" /\ locked = {}
    /\ locked' = {r}
    /\ at' = [at EXCEPT ![r] = "select"]
    /\ UNCHANGED <<table, row, received>>

\* The lock does not come free in time, or a statement fails: rolled back.
Fail(r) ==
    /\ at[r] \in {"begin", "select", "mark"}
    /\ locked' = locked \ {r}
    /\ at' = [at EXCEPT ![r] = "idle"] /\ row' = [row EXCEPT ![r] = 0]
    /\ UNCHANGED <<table, received>>

\* Mutant of SelectOldest: no ORDER BY.
SelectAny(r) ==
    /\ at[r] = "select"
    /\ \E i \in Queued(BoxOf[r]) : row' = [row EXCEPT ![r] = i]
    /\ at' = [at EXCEPT ![r] = "mark"]
    /\ UNCHANGED <<table, locked, received>>

SelectOldest(r) ==
    /\ at[r] = "select"
    /\ \E i \in Queued(BoxOf[r]) :
           /\ \A j \in Queued(BoxOf[r]) : i <= j
           /\ row' = [row EXCEPT ![r] = i]
    /\ at' = [at EXCEPT ![r] = "mark"]
    /\ UNCHANGED <<table, locked, received>>

\* An empty mailbox is answered at once.
SelectNothing(r) ==
    /\ at[r] = "select" /\ Queued(BoxOf[r]) = {}
    /\ locked' = locked \ {r}
    /\ at' = [at EXCEPT ![r] = "idle"]
    /\ UNCHANGED <<table, row, received>>

\* Mutant of Commit: a status the schema does not know.
CommitDequeued(r) ==
    /\ at[r] = "mark"
    /\ table' = [table EXCEPT ![row[r]].status = "dequeued"]
    /\ locked' = locked \ {r}
    /\ at' = [at EXCEPT ![r] = "answer"]
    /\ UNCHANGED <<row, received>>

Commit(r) ==
    /\ at[r] = "mark"
    /\ table' = [table EXCEPT ![row[r]].status = "delivered"]
    /\ locked' = locked \ {r}
    /\ at' = [at EXCEPT ![r] = "answer"]
    /\ UNCHANGED <<row, received>>

\* The answer reaches the reader, or is lost.
Answer(r) ==
    /\ at[r] = "answer"
    /\ received' = Append(received, row[r]) \/ UNCHANGED received
    /\ at' = [at EXCEPT ![r] = "idle"] /\ row' = [row EXCEPT ![r] = 0]
    /\ UNCHANGED <<table, locked>>

\* The relay ends: every request is gone, open transactions are rolled back.
Crash ==
    /\ \E r \in Readers : at[r] # "idle"
    /\ locked' = {}
    /\ at' = [r \in Readers |-> "idle"] /\ row' = [r \in Readers |-> 0]
    /\ UNCHANGED <<table, received>>

Step(r) ==
    \/ Get(r) \/ BeginImmediate(r) \/ Fail(r)
    \/ SelectOldest(r) \/ SelectNothing(r) \/ Commit(r) \/ Answer(r)

Next ==
    \/ \E id \in Ids, b \in Boxes : Put(id, b)
    \/ \E r \in Readers : Step(r)
    \/ Crash

Spec == Init /\ [][Next]_vars

-----------------------------------------------------------------------------
(* Properties.                                                             *)

\* No message is sent to two readers, or twice to one: readers of one mailbox
\* that poll at once never select the same row.
HandedOnce ==
    \A i, j \in DOMAIN received : received[i] = received[j] => i = j

\* A mailbox is emptied from its front: no message is taken while an older one of
\* the same mailbox waits.
InOrder ==
    \A i, j \in DOMAIN table :
        i < j /\ table[i].to = table[j].to /\ table[j].status = "delivered" =>
            table[i].status = "delivered"

\* The service, read by what its table holds, behaves as a mailbox.
Abstract == INSTANCE Mailbox WITH
    accepted <- [i \in DOMAIN table |-> [id |-> table[i].id, to |-> table[i].to]],
    taken <- {i \in DOMAIN table : table[i].status = "delivered"}

\* The service implements the mailbox (put_mailbox_message, get_mailbox_message):
\* ids are accepted once, messages are taken in order and received at most once,
\* with concurrent polls, failing statements, crashes and lost answers.
ImplementsMailbox == Abstract!Spec

-----------------------------------------------------------------------------
(* The inductive invariant of the proofs.                                  *)

LockInv == \A r \in Readers : at[r] \in {"select", "mark"} => locked = {r}

\* A marked row is still the oldest one that waits; an answer holds a row that is
\* nobody else's and was not sent.
RowInv ==
    \A r \in Readers :
        /\ at[r] = "mark" =>
               row[r] \in Queued(BoxOf[r]) /\ \A j \in Queued(BoxOf[r]) : row[r] <= j
        /\ at[r] = "answer" =>
               /\ row[r] \in DOMAIN table /\ table[row[r]].status = "delivered"
               /\ row[r] \notin Range(received)
               /\ \A q \in Readers \ {r} : at[q] = "answer" => row[q] # row[r]

SentInv ==
    \A i \in DOMAIN received :
        received[i] \in DOMAIN table /\ table[received[i]].status = "delivered"

IInv == TypeOK /\ LockInv /\ RowInv /\ SentInv /\ HandedOnce /\ InOrder
=============================================================================
