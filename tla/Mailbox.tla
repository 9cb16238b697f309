------------------------------- MODULE Mailbox -------------------------------
(***************************************************************************)
(* What the mailbox API promises (put_mailbox_message and                  *)
(* get_mailbox_message of app.py): messages are accepted once, taken from  *)
(* their mailbox in the order of acceptance, and received at most once.    *)
(* A message that was taken may be lost on its way to the reader.          *)
(***************************************************************************)
EXTENDS Naturals, Sequences, Functions

CONSTANTS Ids,   \* values of messageId
          Boxes  \* mailboxes

VARIABLES accepted, \* the accepted messages, in order
          taken,    \* positions of those taken out of their mailbox
          received  \* positions of those that reached a reader, as they did

vars == <<accepted, taken, received>>

Init == accepted = <<>> /\ taken = {} /\ received = <<>>

Accept(id, b) ==
    /\ \A i \in DOMAIN accepted : accepted[i].id # id
    /\ accepted' = Append(accepted, [id |-> id, to |-> b])
    /\ UNCHANGED <<taken, received>>

Take(i) ==
    /\ i \notin taken
    /\ \A j \in 1..(i - 1) : accepted[j].to = accepted[i].to => j \in taken
    /\ taken' = taken \union {i}
    /\ UNCHANGED <<accepted, received>>

Receive(i) ==
    /\ i \in taken /\ i \notin Range(received)
    /\ received' = Append(received, i)
    /\ UNCHANGED <<accepted, taken>>

Next ==
    \/ \E id \in Ids, b \in Boxes : Accept(id, b)
    \/ \E i \in DOMAIN accepted : Take(i) \/ Receive(i)

Spec == Init /\ [][Next]_vars
=============================================================================
