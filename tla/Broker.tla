-------------------------------- MODULE Broker --------------------------------
(***************************************************************************)
(* RabbitMQ as broker.py uses it: durable queues, publications with        *)
(* confirms, and deliveries fetched one by one with basic_get and settled  *)
(* by hand.  RabbitMQDelivery closes its connection when it is settled, so *)
(* a client holds at most one delivery, each on a connection of its own.   *)
(***************************************************************************)
EXTENDS Naturals, Sequences, FiniteSets, Functions

CONSTANTS Queues,   \* names of the declared queues
          Clients,  \* threads that fetch deliveries
          Payloads  \* message bodies

VARIABLES ready,  \* ready[q]: messages of queue q that can be fetched, oldest first
          held    \* held[c]: at most one delivery, fetched by c and not settled

Deliveries == [queue : Queues, payload : Payloads]

BrokerTypeOK ==
    /\ ready \in [Queues -> Seq(Payloads)]
    /\ held \in [Clients -> {<<>>} \union {<<d>> : d \in Deliveries}]

BrokerInit ==
    /\ ready = [q \in Queues |-> <<>>]
    /\ held = [c \in Clients |-> <<>>]

Holds(c) == held[c] # <<>>

Delivery(c) == Head(held[c])

\* A confirmed publication.  mandatory=True and a durable queue bound to the
\* routing key: a confirmed message is in the queue.
Publish(q, p) ==
    /\ ready' = [ready EXCEPT ![q] = Append(@, p)]
    /\ UNCHANGED held

\* The publication ends in a RabbitMQError: no connection, an unroutable message,
\* a negative confirm, or a connection that broke before the confirm was read,
\* in which case the message may be in the queue all the same.
PublishUnconfirmed(q, p) ==
    \/ Publish(q, p)
    \/ UNCHANGED <<ready, held>>

\* consume_one and consume_mailbox_message: basic_get with auto_ack=False.
Fetch(c, q) ==
    /\ ~Holds(c) /\ ready[q] # <<>>
    /\ held' = [held EXCEPT ![c] = <<[queue |-> q, payload |-> Head(ready[q])]>>]
    /\ ready' = [ready EXCEPT ![q] = Tail(@)]

\* ack, and nack(requeue=False): no queue has a dead-letter exchange of its own.
Settle(c) ==
    /\ Holds(c)
    /\ held' = [held EXCEPT ![c] = <<>>]
    /\ UNCHANGED ready

\* nack(requeue=True), or the loss of the connection: the message goes back to
\* the head of its queue.
Requeue(c) ==
    /\ Holds(c)
    /\ ready' = [ready EXCEPT ![Delivery(c).queue] = <<Delivery(c).payload>> \o @]
    /\ held' = [held EXCEPT ![c] = <<>>]

\* Every connection of a process is lost with it: its deliveries go back, in
\* an order nobody fixes.
RequeueAll ==
    LET holders == {c \in Clients : Holds(c)}
        Orders == UNION {Bijection(1..Cardinality(S), S) : S \in SUBSET holders}
    IN  \E order \in [Queues -> Orders] :
            /\ \A q \in Queues : Range(order[q]) = {c \in holders : Delivery(c).queue = q}
            /\ ready' = [q \in Queues |->
                   [i \in DOMAIN order[q] |-> Delivery(order[q][i]).payload] \o ready[q]]
            /\ held' = [c \in Clients |-> <<>>]

RequeueIfHeld(c) == IF Holds(c) THEN Requeue(c) ELSE UNCHANGED <<ready, held>>
=============================================================================
