-------------------------- MODULE MessageLifecycle --------------------------
(***************************************************************************)
(* What the relay promises about one round trip, whatever the transport:   *)
(* a message is accepted, its worker gets it and writes a text after it,   *)
(* that text is stored as the reply, then delivered to gateway A, and the  *)
(* message is done; each half of the trip may be given up and resumed by   *)
(* an operator.  Nothing is delivered that was not stored, nothing is      *)
(* stored before the worker has the request and has written after it, and  *)
(* a finished or stored half is never started again.                       *)
(***************************************************************************)
CONSTANT Messages

VARIABLES stage,     \* how far the round trip of each message is
          followed,  \* messages after which the worker has written a text
          delivered  \* messages whose reply is in the session of A

vars == <<stage, followed, delivered>>

Stages == {"absent", "pending", "replied", "done", "dead_b", "dead_a"}

TypeOK ==
    /\ stage \in [Messages -> Stages]
    /\ followed \subseteq Messages
    /\ delivered \subseteq Messages

Init ==
    /\ stage = [m \in Messages |-> "absent"]
    /\ followed = {}
    /\ delivered = {}

Moves(m, from, to) ==
    /\ stage[m] = from
    /\ stage' = [stage EXCEPT ![m] = to]
    /\ UNCHANGED <<followed, delivered>>

Accept(m) == Moves(m, "absent", "pending")

\* The worker may write late: after the relay has given up on it.
Write(m) ==
    /\ stage[m] # "absent"
    /\ followed' = followed \union {m}
    /\ UNCHANGED <<stage, delivered>>

StoreReply(m) == m \in followed /\ Moves(m, "pending", "replied")

\* A copy of the reply may reach A late: after the relay has given up on A.
Deliver(m) ==
    /\ stage[m] \in {"replied", "done", "dead_a"}
    /\ delivered' = delivered \union {m}
    /\ UNCHANGED <<stage, followed>>

Finish(m) == m \in delivered /\ Moves(m, "replied", "done")

GiveUp(m) == Moves(m, "pending", "dead_b") \/ Moves(m, "replied", "dead_a")

Resume(m) == Moves(m, "dead_b", "pending") \/ Moves(m, "dead_a", "replied")

Next ==
    \E m \in Messages :
        \/ Accept(m) \/ Write(m) \/ StoreReply(m) \/ Deliver(m)
        \/ Finish(m) \/ GiveUp(m) \/ Resume(m)

Spec == Init /\ [][Next]_vars
=============================================================================
