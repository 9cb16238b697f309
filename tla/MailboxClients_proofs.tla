------------------------- MODULE MailboxClients_proofs -------------------------
(***************************************************************************)
(* Proofs about the mailbox over RabbitMQ and its clients (MailboxClients).*)
(* A message is in one place at a time: in a queue, held by one request or *)
(* settled.  The lemmas on the broker say how each of its operations moves *)
(* messages between these places; ServerCases and NextCases reduce every   *)
(* action to a few kinds of steps, which the five parts of the inductive   *)
(* invariant IInv are checked against one by one: what requests and        *)
(* programs carry, where a message is, to whom it was handed, what was     *)
(* confirmed, and what was answered.                                       *)
(***************************************************************************)
EXTENDS MailboxClients, FiniteSetTheorems, SequenceTheorems, TLAPS

(* What an operation of the broker does to the places of the messages.     *)

\* The message published is in its queue, behind the others.
LEMMA PublishEffect ==
  ASSUME BrokerTypeOK, NEW q \in Queues, NEW p \in Ids, Publish(q, p)
  PROVE  /\ BrokerTypeOK'
         /\ \A i \in Ids : InQueue(i)' <=> InQueue(i) \/ i = p
         /\ Distinct /\ ~InQueue(p) => Distinct'
<1>t. ready \in [Queues -> Seq(Ids)]
  BY DEF BrokerTypeOK, Payloads
<1>1. /\ ready'[q] = Append(ready[q], p) /\ held' = held
      /\ \A r \in Queues : r # q => ready'[r] = ready[r]
      /\ ready' \in [Queues -> Seq(Ids)]
  BY <1>t DEF Publish
<1>2. /\ Len(ready[q]) \in Nat /\ DOMAIN ready[q] = 1..Len(ready[q])
      /\ DOMAIN ready'[q] = 1..(Len(ready[q]) + 1)
      /\ ready'[q][Len(ready[q]) + 1] = p
      /\ \A k \in DOMAIN ready[q] : ready'[q][k] = ready[q][k]
  BY <1>t, <1>1
<1>3. ASSUME NEW i \in Ids PROVE InQueue(i)' <=> InQueue(i) \/ i = p
  <2>1. ASSUME InQueue(i) PROVE InQueue(i)'
    <3>1. PICK r \in Queues : \E k \in DOMAIN ready[r] : ready[r][k] = i
      BY <2>1 DEF InQueue
    <3>2. PICK k \in DOMAIN ready[r] : ready[r][k] = i
      BY <3>1
    <3>3. k \in DOMAIN ready'[r] /\ ready'[r][k] = ready[r][k]
      <4>1. CASE r = q
        BY <1>2, <4>1
      <4>2. CASE r # q
        BY <1>1, <4>2
      <4> QED BY <4>1, <4>2
    <3> QED BY <3>2, <3>3 DEF InQueue
  <2>2. ASSUME i = p PROVE InQueue(i)'
    BY <1>2, <2>2 DEF InQueue
  <2>3. ASSUME InQueue(i)', i # p PROVE InQueue(i)
    <3>1. PICK r \in Queues : \E k \in DOMAIN ready'[r] : ready'[r][k] = i
      BY <2>3 DEF InQueue
    <3>2. \E k \in DOMAIN ready[r] : ready[r][k] = i
      BY <1>1, <1>2, <2>3, <3>1
    <3> QED BY <3>2 DEF InQueue
  <2> QED BY <2>1, <2>2, <2>3
<1>4. ASSUME Distinct, ~InQueue(p) PROVE Distinct'
  <2> SUFFICES ASSUME NEW a \in Queues, NEW b \in Queues,
                      NEW k \in DOMAIN ready'[a], NEW l \in DOMAIN ready'[b],
                      ready'[a][k] = ready'[b][l]
               PROVE  a = b /\ k = l
    BY DEF Distinct
  <2>1. \A r \in Queues : \A x \in DOMAIN ready[r] : ready[r][x] # p
    BY <1>4 DEF InQueue
  <2>2. \A r \in Queues : \A x \in DOMAIN ready'[r] :
            \/ x \in DOMAIN ready[r] /\ ready'[r][x] = ready[r][x]
            \/ r = q /\ x = Len(ready[q]) + 1 /\ ready'[r][x] = p
    <3> TAKE r \in Queues
    <3>1. CASE r = q
      BY <1>2, <3>1
    <3>2. CASE r # q
      BY <1>1, <3>2
    <3> QED BY <3>1, <3>2
  <2> QED BY <1>4, <2>1, <2>2 DEF Distinct
<1> QED BY <1>1, <1>3, <1>4 DEF BrokerTypeOK, Payloads

\* The message fetched leaves its queue.
LEMMA FetchEffect ==
  ASSUME BrokerTypeOK, NEW t \in Threads, NEW q \in Queues, Fetch(t, q), Distinct
  PROVE  /\ BrokerTypeOK' /\ Distinct'
         /\ Head(ready[q]) \in Ids /\ InQueue(Head(ready[q]))
         /\ held' = [held EXCEPT ![t] = <<[queue |-> q, payload |-> Head(ready[q])]>>]
         /\ ~Holds(t)
         /\ \A i \in Ids : InQueue(i)' <=> InQueue(i) /\ i # Head(ready[q])
<1>t. ready \in [Queues -> Seq(Ids)]
  BY DEF BrokerTypeOK, Payloads
<1> DEFINE h == Head(ready[q])
<1>1. /\ ready[q] # <<>> /\ ready'[q] = Tail(ready[q])
      /\ \A r \in Queues : r # q => ready'[r] = ready[r]
      /\ ready' \in [Queues -> Seq(Ids)]
  BY <1>t DEF Fetch
<1>2. /\ Len(ready[q]) \in Nat \ {0} /\ DOMAIN ready[q] = 1..Len(ready[q])
      /\ DOMAIN ready'[q] = 1..(Len(ready[q]) - 1)
      /\ h = ready[q][1] /\ h \in Ids
      /\ \A k \in DOMAIN ready'[q] : k + 1 \in DOMAIN ready[q] /\ ready'[q][k] = ready[q][k + 1]
  BY <1>t, <1>1
<1>3. held' = [held EXCEPT ![t] = <<[queue |-> q, payload |-> h]>>] /\ ~Holds(t)
  BY DEF Fetch
<1>4. InQueue(h)
  BY <1>2 DEF InQueue
<1>5. \A r \in Queues : \A x \in DOMAIN ready'[r] :
          \/ r # q /\ x \in DOMAIN ready[r] /\ ready'[r][x] = ready[r][x]
          \/ r = q /\ x \in Nat \ {0} /\ x + 1 \in DOMAIN ready[r] /\ ready'[r][x] = ready[r][x + 1]
  <2> TAKE r \in Queues
  <2>1. CASE r = q
    BY <1>2, <2>1
  <2>2. CASE r # q
    BY <1>1, <2>2
  <2> QED BY <2>1, <2>2
<1>6. Distinct'
  <2> SUFFICES ASSUME NEW a \in Queues, NEW b \in Queues,
                      NEW k \in DOMAIN ready'[a], NEW l \in DOMAIN ready'[b],
                      ready'[a][k] = ready'[b][l]
               PROVE  a = b /\ k = l
    BY DEF Distinct
  <2>1. CASE a = q /\ b = q
    <3>1. k + 1 = l + 1 /\ k \in Nat /\ l \in Nat
      BY <1>5, <2>1 DEF Distinct
    <3> QED BY <2>1, <3>1
  <2>2. CASE a # q \/ b # q
    BY <1>5, <2>2 DEF Distinct
  <2> QED BY <2>1, <2>2
<1>7. ASSUME NEW i \in Ids PROVE InQueue(i)' <=> InQueue(i) /\ i # h
  <2>1. ASSUME InQueue(i)' PROVE InQueue(i) /\ i # h
    <3>1. PICK r \in Queues : \E k \in DOMAIN ready'[r] : ready'[r][k] = i
      BY <2>1 DEF InQueue
    <3>2. PICK k \in DOMAIN ready'[r] : ready'[r][k] = i
      BY <3>1
    <3>3. InQueue(i)
      BY <1>5, <3>2 DEF InQueue
    <3>4. i # h
      <4>1. 1 \in DOMAIN ready[q]
        BY <1>2
      <4>2. CASE r = q
        <5>1. k + 1 # 1 /\ k + 1 \in DOMAIN ready[q] /\ i = ready[q][k + 1]
          BY <1>5, <3>2, <4>2
        <5> QED BY <1>2, <4>1, <5>1 DEF Distinct
      <4>3. CASE r # q
        <5>1. k \in DOMAIN ready[r] /\ i = ready[r][k]
          BY <1>5, <3>2, <4>3
        <5> QED BY <1>2, <4>1, <4>3, <5>1 DEF Distinct
      <4> QED BY <4>2, <4>3
    <3> QED BY <3>3, <3>4
  <2>2. ASSUME InQueue(i), i # h PROVE InQueue(i)'
    <3>1. PICK r \in Queues : \E k \in DOMAIN ready[r] : ready[r][k] = i
      BY <2>2 DEF InQueue
    <3>2. PICK k \in DOMAIN ready[r] : ready[r][k] = i
      BY <3>1
    <3>3. CASE r = q
      <4>1. k # 1 /\ k \in 1..Len(ready[q])
        BY <1>2, <2>2, <3>2, <3>3
      <4>2. k - 1 \in DOMAIN ready'[q] /\ (k - 1) + 1 = k
        BY <1>2, <4>1
      <4>3. ready'[q][k - 1] = i
        BY <1>2, <3>2, <3>3, <4>2
      <4> QED BY <4>2, <4>3 DEF InQueue
    <3>4. CASE r # q
      BY <1>1, <3>2, <3>4 DEF InQueue
    <3> QED BY <3>3, <3>4
  <2> QED BY <2>1, <2>2
<1>8. BrokerTypeOK'
  <2>1. [queue |-> q, payload |-> h] \in Deliveries
    BY <1>2 DEF Deliveries, Payloads
  <2>2. held' \in [Clients -> {<<>>} \union {<<d>> : d \in Deliveries}]
    BY <1>3, <2>1 DEF BrokerTypeOK, Clients
  <2> QED BY <1>1, <2>2 DEF BrokerTypeOK, Payloads
<1> QED BY <1>2, <1>3, <1>4, <1>6, <1>7, <1>8

\* A delivery that returns is at the head of its queue again.
LEMMA RequeueEffect ==
  ASSUME BrokerTypeOK, NEW t \in Threads, Requeue(t), Distinct, ~InQueue(Delivery(t).payload)
  PROVE  /\ BrokerTypeOK' /\ Distinct'
         /\ Delivery(t).payload \in Ids
         /\ Holds(t) /\ held' = [held EXCEPT ![t] = <<>>]
         /\ \A i \in Ids : InQueue(i)' <=> InQueue(i) \/ i = Delivery(t).payload
<1> DEFINE q == Delivery(t).queue
           p == Delivery(t).payload
           front == <<p>>
<1>t. /\ ready \in [Queues -> Seq(Ids)] /\ q \in Queues /\ p \in Ids
      /\ Holds(t) /\ held' = [held EXCEPT ![t] = <<>>]
  <2>1. Holds(t) /\ held[t] \in {<<>>} \union {<<d>> : d \in Deliveries}
    BY DEF BrokerTypeOK, Requeue, Clients
  <2>2. PICK d \in Deliveries : held[t] = <<d>>
    BY <2>1 DEF Holds
  <2>3. Delivery(t) = d
    BY <2>2 DEF Delivery
  <2> QED BY <2>2, <2>3 DEF BrokerTypeOK, Payloads, Deliveries, Requeue
<1> HIDE DEF q, p
<1>1. /\ ready'[q] = front \o ready[q]
      /\ \A r \in Queues : r # q => ready'[r] = ready[r]
      /\ ready' \in [Queues -> Seq(Ids)]
  <2>1. ready' = [ready EXCEPT ![q] = front \o ready[q]]
    BY DEF Requeue, q, p
  <2>2. front \o ready[q] \in Seq(Ids)
    BY <1>t
  <2> QED BY <1>t, <2>1, <2>2
<1>2. /\ Len(ready[q]) \in Nat /\ DOMAIN ready[q] = 1..Len(ready[q])
      /\ DOMAIN ready'[q] = 1..(Len(ready[q]) + 1)
      /\ ready'[q][1] = p
      /\ \A k \in DOMAIN ready'[q] : k # 1 => k - 1 \in DOMAIN ready[q] /\ ready'[q][k] = ready[q][k - 1]
      /\ \A k \in DOMAIN ready[q] : k + 1 \in DOMAIN ready'[q] /\ ready'[q][k + 1] = ready[q][k]
  BY <1>t, <1>1
<1>3. \A r \in Queues : \A x \in DOMAIN ready'[r] :
          \/ r # q /\ x \in DOMAIN ready[r] /\ ready'[r][x] = ready[r][x]
          \/ r = q /\ x = 1 /\ ready'[r][x] = p
          \/ r = q /\ x \in Nat /\ x # 1 /\ x - 1 \in DOMAIN ready[r] /\ ready'[r][x] = ready[r][x - 1]
  <2> TAKE r \in Queues
  <2>1. CASE r = q
    BY <1>2, <2>1
  <2>2. CASE r # q
    BY <1>1, <2>2
  <2> QED BY <2>1, <2>2
<1>4. \A r \in Queues : \A x \in DOMAIN ready[r] : ready[r][x] # p
  BY <1>t DEF InQueue, p
<1>5. Distinct'
  <2> SUFFICES ASSUME NEW a \in Queues, NEW b \in Queues,
                      NEW k \in DOMAIN ready'[a], NEW l \in DOMAIN ready'[b],
                      ready'[a][k] = ready'[b][l]
               PROVE  a = b /\ k = l
    BY DEF Distinct
  <2>1. CASE a = q /\ b = q
    <3>1. CASE k = 1 \/ l = 1
      BY <1>2, <1>3, <1>4, <2>1, <3>1
    <3>2. CASE k # 1 /\ l # 1
      <4>1. k \in Nat /\ l \in Nat /\ k - 1 \in DOMAIN ready[q] /\ l - 1 \in DOMAIN ready[q]
            /\ ready[q][k - 1] = ready[q][l - 1]
        BY <1>3, <2>1, <3>2
      <4>2. k - 1 = l - 1
        BY <1>t, <4>1 DEF Distinct
      <4> QED BY <2>1, <4>1, <4>2
    <3> QED BY <3>1, <3>2
  <2>2. CASE a # q \/ b # q
    BY <1>3, <1>4, <1>t, <2>2 DEF Distinct
  <2> QED BY <2>1, <2>2
<1>6. ASSUME NEW i \in Ids PROVE InQueue(i)' <=> InQueue(i) \/ i = p
  <2>1. ASSUME InQueue(i)', i # p PROVE InQueue(i)
    <3>1. PICK r \in Queues : \E k \in DOMAIN ready'[r] : ready'[r][k] = i
      BY <2>1 DEF InQueue
    <3>2. PICK k \in DOMAIN ready'[r] : ready'[r][k] = i
      BY <3>1
    <3> QED BY <1>3, <2>1, <3>2 DEF InQueue
  <2>2. ASSUME InQueue(i) PROVE InQueue(i)'
    <3>1. PICK r \in Queues : \E k \in DOMAIN ready[r] : ready[r][k] = i
      BY <2>2 DEF InQueue
    <3>2. PICK k \in DOMAIN ready[r] : ready[r][k] = i
      BY <3>1
    <3>3. \E x \in DOMAIN ready'[r] : ready'[r][x] = i
      <4>1. CASE r = q
        BY <1>2, <3>2, <4>1
      <4>2. CASE r # q
        BY <1>1, <3>2, <4>2
      <4> QED BY <4>1, <4>2
    <3> QED BY <3>3 DEF InQueue
  <2>3. ASSUME i = p PROVE InQueue(i)'
    <3>1. 1 \in DOMAIN ready'[q] /\ ready'[q][1] = i
      BY <1>2, <2>3
    <3> QED BY <1>t, <3>1 DEF InQueue
  <2> QED BY <2>1, <2>2, <2>3
<1>7. BrokerTypeOK'
  BY <1>1, <1>t DEF BrokerTypeOK, Payloads
<1> QED BY <1>t, <1>5, <1>6, <1>7 DEF p

\* A delivery that is settled leaves its holder, and no queue changes.
LEMMA SettleEffect ==
  ASSUME BrokerTypeOK, NEW t \in Threads, Settle(t)
  PROVE  BrokerTypeOK' /\ Holds(t) /\ held' = [held EXCEPT ![t] = <<>>] /\ ready' = ready
BY DEF BrokerTypeOK, Settle

\* A request holds message i, which it fetched from queue q.
HeldFrom(q, i) == \E t \in Threads : Holds(t) /\ Delivery(t).queue = q /\ Delivery(t).payload = i

\* All deliveries return: every message is in a queue that was in one or was held.
LEMMA RequeueAllEffect ==
  ASSUME BrokerTypeOK, RequeueAll, Distinct, NumThreads \in Nat,
         \A t, u \in Threads : Holds(t) /\ Holds(u) /\ Delivery(t).payload = Delivery(u).payload => t = u,
         \A i \in Ids : ~(InQueue(i) /\ Held(i))
  PROVE  /\ BrokerTypeOK' /\ Distinct'
         /\ \A t \in Threads : ~Holds(t)'
         /\ \A i \in Ids : InQueue(i)' <=> InQueue(i) \/ Held(i)
         /\ \A q \in Queues, i \in Ids : Lies(q, i)' => Lies(q, i) \/ HeldFrom(q, i)
<1> DEFINE holders == {c \in Clients : Holds(c)}
           Orders == UNION {Bijection(1..Cardinality(S), S) : S \in SUBSET holders}
<1>0. PICK order \in [Queues -> Orders] :
          /\ \A q \in Queues : Range(order[q]) = {c \in holders : Delivery(c).queue = q}
          /\ ready' = [q \in Queues |->
                 [i \in DOMAIN order[q] |-> Delivery(order[q][i]).payload] \o ready[q]]
          /\ held' = [c \in Clients |-> <<>>]
  BY DEF RequeueAll
<1> DEFINE front(q) == [i \in DOMAIN order[q] |-> Delivery(order[q][i]).payload]
<1>t. /\ ready \in [Queues -> Seq(Ids)]
      /\ \A c \in holders : Delivery(c).queue \in Queues /\ Delivery(c).payload \in Ids
  <2>1. ASSUME NEW c \in holders PROVE Delivery(c) \in Deliveries
    <3>1. Holds(c) /\ held[c] \in {<<>>} \union {<<d>> : d \in Deliveries}
      BY DEF BrokerTypeOK, Clients
    <3>2. PICK d \in Deliveries : held[c] = <<d>>
      BY <3>1 DEF Holds
    <3> QED BY <3>2 DEF Delivery
  <2> QED BY <2>1 DEF BrokerTypeOK, Payloads, Deliveries
\* The order of a queue is a sequence of the threads that hold its deliveries.
<1>1. ASSUME NEW q \in Queues
      PROVE  /\ \E n \in Nat : DOMAIN order[q] = 1..n
             /\ \A k \in DOMAIN order[q] : order[q][k] \in holders /\ Delivery(order[q][k]).queue = q
             /\ \A k, l \in DOMAIN order[q] : order[q][k] = order[q][l] => k = l
             /\ \A c \in holders : Delivery(c).queue = q => \E k \in DOMAIN order[q] : order[q][k] = c
  <2>1. PICK S \in SUBSET holders : order[q] \in Bijection(1..Cardinality(S), S)
    BY <1>0
  <2>2. Cardinality(S) \in Nat
    <3>1. S \subseteq 1..NumThreads
      BY DEF Clients, Threads
    <3>2. IsFiniteSet(1..NumThreads)
      BY FS_Interval
    <3> QED BY <3>1, <3>2, FS_Subset, FS_CardinalityType
  <2>3. order[q] \in [1..Cardinality(S) -> S]
        /\ \A k, l \in 1..Cardinality(S) : order[q][k] = order[q][l] => k = l
    BY <2>1 DEF Bijection, Injection, IsInjective, Surjection
  <2>4. Range(order[q]) = {c \in holders : Delivery(c).queue = q}
    BY <1>0
  <2>5. DOMAIN order[q] = 1..Cardinality(S)
    BY <2>3
  <2> HIDE DEF holders
  <2>6. ASSUME NEW k \in DOMAIN order[q] PROVE order[q][k] \in holders /\ Delivery(order[q][k]).queue = q
    <3>1. order[q][k] \in Range(order[q])
      BY DEF Range
    <3> QED BY <2>4, <3>1
  <2>7. ASSUME NEW c \in holders, Delivery(c).queue = q PROVE \E k \in DOMAIN order[q] : order[q][k] = c
    <3>1. c \in Range(order[q])
      BY <2>4, <2>7
    <3> QED BY <3>1 DEF Range
  <2>8. \A k, l \in DOMAIN order[q] : order[q][k] = order[q][l] => k = l
    BY <2>3, <2>5
  <2> QED BY <2>2, <2>5, <2>6, <2>7, <2>8
<1>2. ASSUME NEW q \in Queues
      PROVE  /\ front(q) \in Seq(Ids)
             /\ \A k \in DOMAIN front(q) : \E c \in Threads :
                    Holds(c) /\ Delivery(c).queue = q /\ Delivery(c).payload = front(q)[k]
             /\ \A k, l \in DOMAIN front(q) : front(q)[k] = front(q)[l] => k = l
             /\ \A c \in Threads : Holds(c) /\ Delivery(c).queue = q =>
                    \E k \in DOMAIN front(q) : front(q)[k] = Delivery(c).payload
  <2>1. DOMAIN front(q) = DOMAIN order[q]
        /\ \A k \in DOMAIN order[q] : front(q)[k] = Delivery(order[q][k]).payload
    OBVIOUS
  <2>2. front(q) \in Seq(Ids)
    <3>1. PICK n \in Nat : DOMAIN order[q] = 1..n
      BY <1>1
    <3>2. \A k \in 1..n : Delivery(order[q][k]).payload \in Ids
      BY <1>1, <1>t, <3>1
    <3>3. front(q) = [k \in 1..n |-> Delivery(order[q][k]).payload]
      BY <3>1
    <3> QED BY <3>2, <3>3, IsASeq
  <2> HIDE DEF front
  <2>3. ASSUME NEW k \in DOMAIN front(q)
        PROVE  \E c \in Threads : Holds(c) /\ Delivery(c).queue = q /\ Delivery(c).payload = front(q)[k]
    <3>1. order[q][k] \in holders /\ Delivery(order[q][k]).queue = q
          /\ front(q)[k] = Delivery(order[q][k]).payload
      BY <1>1, <2>1
    <3> QED BY <3>1 DEF Clients
  <2>4. ASSUME NEW k \in DOMAIN front(q), NEW l \in DOMAIN front(q), front(q)[k] = front(q)[l]
        PROVE  k = l
    <3>1. /\ order[q][k] \in holders /\ order[q][l] \in holders
          /\ front(q)[k] = Delivery(order[q][k]).payload /\ front(q)[l] = Delivery(order[q][l]).payload
      BY <1>1, <2>1
    <3>2. order[q][k] = order[q][l]
      BY <2>4, <3>1 DEF Clients
    <3> QED BY <1>1, <2>1, <3>2
  <2>5. ASSUME NEW c \in Threads, Holds(c), Delivery(c).queue = q
        PROVE  \E k \in DOMAIN front(q) : front(q)[k] = Delivery(c).payload
    <3>1. PICK k \in DOMAIN order[q] : order[q][k] = c
      BY <1>1, <2>5 DEF Clients
    <3> QED BY <2>1, <3>1
  <2> QED BY <2>2, <2>3, <2>4, <2>5
<1>3. \A q \in Queues : ready'[q] = front(q) \o ready[q]
  BY <1>0
<1> HIDE DEF front
<1>4. ready' \in [Queues -> Seq(Ids)]
  <2>1. ASSUME NEW q \in Queues PROVE front(q) \o ready[q] \in Seq(Ids)
    BY <1>2, <1>t, ConcatProperties
  <2>2. ready' = [q \in Queues |-> front(q) \o ready[q]]
    BY <1>0 DEF front
  <2> QED BY <2>1, <2>2
\* A place of the new queue is one of its front or one of the old queue.
<1>5. ASSUME NEW q \in Queues
      PROVE  /\ Len(front(q)) \in Nat
             /\ \A x \in DOMAIN ready'[q] :
                    \/ x \in DOMAIN front(q) /\ ready'[q][x] = front(q)[x]
                    \/ x \in Nat /\ x - Len(front(q)) \in DOMAIN ready[q]
                       /\ ready'[q][x] = ready[q][x - Len(front(q))]
             /\ \A k \in DOMAIN front(q) : k \in DOMAIN ready'[q] /\ ready'[q][k] = front(q)[k]
             /\ \A k \in DOMAIN ready[q] : k + Len(front(q)) \in DOMAIN ready'[q]
                                           /\ ready'[q][k + Len(front(q))] = ready[q][k]
  <2> DEFINE s1 == front(q)
             s2 == ready[q]
             s == ready'[q]
  <2>1. s1 \in Seq(Ids) /\ s2 \in Seq(Ids) /\ s = s1 \o s2
    BY <1>2, <1>3, <1>t
  <2> HIDE DEF s1, s2, s
  <2>2. /\ Len(s1) \in Nat /\ Len(s2) \in Nat
        /\ DOMAIN s1 = 1..Len(s1) /\ DOMAIN s2 = 1..Len(s2) /\ DOMAIN s = 1..(Len(s1) + Len(s2))
        /\ \A x \in 1..(Len(s1) + Len(s2)) : s[x] = IF x <= Len(s1) THEN s1[x] ELSE s2[x - Len(s1)]
    BY <2>1
  <2>3. \A x \in DOMAIN s :
            \/ x \in DOMAIN s1 /\ s[x] = s1[x]
            \/ x \in Nat /\ x - Len(s1) \in DOMAIN s2 /\ s[x] = s2[x - Len(s1)]
    BY <2>2
  <2>4. \A k \in DOMAIN s1 : k \in DOMAIN s /\ s[k] = s1[k]
    BY <2>2
  <2>5. \A k \in DOMAIN s2 : k + Len(s1) \in DOMAIN s /\ s[k + Len(s1)] = s2[k]
    BY <2>2
  <2> QED BY <2>2, <2>3, <2>4, <2>5 DEF s1, s2, s
<1>6. Distinct'
  <2> SUFFICES ASSUME NEW a \in Queues, NEW b \in Queues,
                      NEW k \in DOMAIN ready'[a], NEW l \in DOMAIN ready'[b],
                      ready'[a][k] = ready'[b][l]
               PROVE  a = b /\ k = l
    BY DEF Distinct
  <2> DEFINE i == ready'[a][k]
  <2>0. i \in Ids
    BY <1>4
  <2>1. CASE k \in DOMAIN front(a) /\ ready'[a][k] = front(a)[k] /\ l \in DOMAIN front(b) /\ ready'[b][l] = front(b)[l]
    <3>1. PICK c \in Threads : Holds(c) /\ Delivery(c).queue = a /\ Delivery(c).payload = front(a)[k]
      BY <1>2, <2>1
    <3>2. PICK d \in Threads : Holds(d) /\ Delivery(d).queue = b /\ Delivery(d).payload = front(b)[l]
      BY <1>2, <2>1
    <3>3. a = b
      BY <2>1, <3>1, <3>2
    <3> QED BY <1>2, <2>1, <3>3
  <2>2. ASSUME NEW q \in Queues, NEW x \in DOMAIN front(q), front(q)[x] = i PROVE Held(i)
    BY <1>2, <2>2 DEF Held
  <2>3. ASSUME NEW q \in Queues, NEW x \in DOMAIN ready[q], ready[q][x] = i PROVE InQueue(i)
    BY <2>3 DEF InQueue
  <2>4. CASE /\ k \in Nat /\ l \in Nat
             /\ k - Len(front(a)) \in DOMAIN ready[a] /\ ready'[a][k] = ready[a][k - Len(front(a))]
             /\ l - Len(front(b)) \in DOMAIN ready[b] /\ ready'[b][l] = ready[b][l - Len(front(b))]
    <3> DEFINE x == k - Len(front(a))
               y == l - Len(front(b))
    <3>1. x \in DOMAIN ready[a] /\ y \in DOMAIN ready[b] /\ ready[a][x] = ready[b][y]
      BY <2>4
    <3>2. k = x + Len(front(a)) /\ l = y + Len(front(b))
      BY <1>5, <2>4
    <3> HIDE DEF x, y
    <3>3. a = b /\ x = y
      BY <3>1 DEF Distinct
    <3> QED BY <3>2, <3>3
  <2>5. ~(InQueue(i) /\ Held(i))
    BY <2>0
  <2>6. \/ k \in DOMAIN front(a) /\ ready'[a][k] = front(a)[k]
        \/ k \in Nat /\ k - Len(front(a)) \in DOMAIN ready[a] /\ ready'[a][k] = ready[a][k - Len(front(a))]
    BY <1>5
  <2>7. \/ l \in DOMAIN front(b) /\ ready'[b][l] = front(b)[l]
        \/ l \in Nat /\ l - Len(front(b)) \in DOMAIN ready[b] /\ ready'[b][l] = ready[b][l - Len(front(b))]
    BY <1>5
  <2> QED BY <2>1, <2>2, <2>3, <2>4, <2>5, <2>6, <2>7
<1>7. ASSUME NEW i \in Ids PROVE InQueue(i)' <=> InQueue(i) \/ Held(i)
  <2>1. ASSUME InQueue(i)' PROVE InQueue(i) \/ Held(i)
    <3>1. PICK r \in Queues : \E k \in DOMAIN ready'[r] : ready'[r][k] = i
      BY <2>1 DEF InQueue
    <3>2. PICK k \in DOMAIN ready'[r] : ready'[r][k] = i
      BY <3>1
    <3>3. CASE k \in DOMAIN front(r) /\ ready'[r][k] = front(r)[k]
      BY <1>2, <3>2, <3>3 DEF Held
    <3>4. CASE k - Len(front(r)) \in DOMAIN ready[r] /\ ready'[r][k] = ready[r][k - Len(front(r))]
      BY <3>2, <3>4 DEF InQueue
    <3> QED BY <1>5, <3>3, <3>4
  <2>2. ASSUME InQueue(i) PROVE InQueue(i)'
    <3>1. PICK r \in Queues : \E k \in DOMAIN ready[r] : ready[r][k] = i
      BY <2>2 DEF InQueue
    <3>2. PICK k \in DOMAIN ready[r] : ready[r][k] = i
      BY <3>1
    <3>3. \E x \in DOMAIN ready'[r] : ready'[r][x] = i
      BY <1>5, <3>2
    <3> QED BY <3>3 DEF InQueue
  <2>3. ASSUME Held(i) PROVE InQueue(i)'
    <3>1. PICK c \in Threads : Holds(c) /\ Delivery(c).payload = i
      BY <2>3 DEF Held
    <3>2. Delivery(c).queue \in Queues
      BY <1>t, <3>1 DEF Clients
    <3>3. PICK q \in Queues : q = Delivery(c).queue
      BY <3>2
    <3>e. \A d \in Threads : Holds(d) /\ Delivery(d).queue = q =>
              \E k \in DOMAIN front(q) : front(q)[k] = Delivery(d).payload
      BY <1>2
    <3>f. \E k \in DOMAIN front(q) : front(q)[k] = Delivery(c).payload
      BY <3>1, <3>3, <3>e
    <3>4. PICK k \in DOMAIN front(q) : front(q)[k] = i
      BY <3>1, <3>f
    <3>5. \E x \in DOMAIN ready'[q] : ready'[q][x] = i
      BY <1>5, <3>4
    <3> QED BY <3>5 DEF InQueue
  <2> QED BY <2>1, <2>2, <2>3
<1>8. BrokerTypeOK' /\ \A t \in Threads : ~Holds(t)'
  BY <1>0, <1>4 DEF BrokerTypeOK, Payloads, Holds, Clients
<1>9. ASSUME NEW q \in Queues, NEW i \in Ids, Lies(q, i)' PROVE Lies(q, i) \/ HeldFrom(q, i)
  <2>1. PICK k \in DOMAIN ready'[q] : ready'[q][k] = i
    BY <1>9 DEF Lies
  <2>2. CASE k \in DOMAIN front(q) /\ ready'[q][k] = front(q)[k]
    BY <1>2, <2>1, <2>2 DEF HeldFrom
  <2>3. CASE k - Len(front(q)) \in DOMAIN ready[q] /\ ready'[q][k] = ready[q][k - Len(front(q))]
    BY <2>1, <2>3 DEF Lies
  <2> QED BY <1>5, <2>2, <2>3
<1> QED BY <1>6, <1>7, <1>8, <1>9
-----------------------------------------------------------------------------
(* Types.                                                                  *)

Requests == [at : Points, msg : Ids \union {0},
             mail : Letters \union {NoLetter}, box : Boxes \union {""}]

Hands == [stage : ClientStages, thread : Threads \union {0}, msg : Ids \union {0}]

LEMMA IdsAreNumbers == Ids \subseteq Nat \ {0} /\ 0 \notin Ids /\ 0 \notin Threads
BY MailboxAssumption DEF Ids, Threads

LEMMA NatSuccessor == \A n \in Nat : n + 1 \in Nat
OBVIOUS

\* A request moves on and keeps what it carries.
LEMMA GotoEffect ==
  ASSUME thread \in [Threads -> Requests], NEW t \in Threads, NEW p \in Points, Goto(t, p)
  PROVE  /\ thread' \in [Threads -> Requests]
         /\ thread'[t].at = p
         /\ thread'[t].msg = thread[t].msg /\ thread'[t].mail = thread[t].mail
         /\ thread'[t].box = thread[t].box
         /\ \A u \in Threads : u # t => thread'[u] = thread[u]
<1>1. thread' = [thread EXCEPT ![t] = [thread[t] EXCEPT !.at = p]]
  BY DEF Goto
<1>2. [thread[t] EXCEPT !.at = p] \in Requests
  BY DEF Requests
<1>3. /\ [thread[t] EXCEPT !.at = p].at = p
      /\ [thread[t] EXCEPT !.at = p].msg = thread[t].msg
      /\ [thread[t] EXCEPT !.at = p].mail = thread[t].mail
      /\ [thread[t] EXCEPT !.at = p].box = thread[t].box
  BY DEF Requests
<1> QED BY <1>1, <1>2, <1>3

LEMMA FreeEffect ==
  ASSUME thread \in [Threads -> Requests], NEW t \in Threads, Free1(t)
  PROVE  /\ thread' \in [Threads -> Requests]
         /\ thread'[t] = Free /\ thread'[t].at = "idle" /\ thread'[t].msg = 0
         /\ \A u \in Threads : u # t => thread'[u] = thread[u]
<1>1. Free \in Requests /\ Free.at = "idle" /\ Free.msg = 0
  BY DEF Free, Requests, Points
<1> QED BY <1>1 DEF Free1

LEMMA PutEffect ==
  ASSUME thread \in [Threads -> Requests], NEW t \in Threads, NEW i \in Ids, NEW l \in Letters,
         StartPut(t, i, l)
  PROVE  /\ thread' \in [Threads -> Requests]
         /\ thread[t].at = "idle"
         /\ thread'[t].at = "insert" /\ thread'[t].msg = i /\ thread'[t].mail = l
         /\ \A u \in Threads : u # t => thread'[u] = thread[u]
<1> DEFINE r == [Free EXCEPT !.at = "insert", !.msg = i, !.mail = l]
<1>1. Free \in Requests
  BY DEF Free, Requests, Points
<1>2. r \in Requests /\ r.at = "insert" /\ r.msg = i /\ r.mail = l
  BY <1>1 DEF Requests, Points, PutPoints
<1> HIDE DEF r
<1>3. thread' = [thread EXCEPT ![t] = r]
  BY DEF StartPut, r
<1> QED BY <1>2, <1>3 DEF StartPut, IsFree, At

LEMMA GetEffect ==
  ASSUME thread \in [Threads -> Requests], NEW t \in Threads, NEW b \in Boxes, StartGet(t, b)
  PROVE  /\ thread' \in [Threads -> Requests]
         /\ thread[t].at = "idle"
         /\ thread'[t].at = "fetch" /\ thread'[t].box = b
         /\ \A u \in Threads : u # t => thread'[u] = thread[u]
<1> DEFINE r == [Free EXCEPT !.at = "fetch", !.box = b]
<1>1. Free \in Requests
  BY DEF Free, Requests, Points
<1>2. r \in Requests /\ r.at = "fetch" /\ r.box = b
  BY <1>1 DEF Requests, Points, GetPoints
<1> HIDE DEF r
<1>3. thread' = [thread EXCEPT ![t] = r]
  BY DEF StartGet, r
<1> QED BY <1>2, <1>3 DEF StartGet, IsFree, At

\* The broker answers with the message it fetched.
LEMMA FetchedEffect ==
  ASSUME thread \in [Threads -> Requests], NEW t \in Threads, NEW i \in Ids,
         thread' = [thread EXCEPT ![t].at = "mark_delivered", ![t].msg = i]
  PROVE  /\ thread' \in [Threads -> Requests]
         /\ thread'[t].at = "mark_delivered" /\ thread'[t].msg = i /\ thread'[t].box = thread[t].box
         /\ \A u \in Threads : u # t => thread'[u] = thread[u]
<1> DEFINE r == [thread[t] EXCEPT !.at = "mark_delivered", !.msg = i]
<1>1. thread' = [thread EXCEPT ![t] = r]
  OBVIOUS
<1>2. r \in Requests /\ r.at = "mark_delivered" /\ r.msg = i
  BY DEF Requests, Points, GetPoints
<1> QED BY <1>1, <1>2

\* What a program works on changes for itself only.
LEMMA HandEffect ==
  ASSUME client \in [Programs -> Hands], NEW c \in Programs
  PROVE  /\ \A s \in ClientStages, t \in Threads \union {0} : Waits(c, s, t) =>
                /\ client' \in [Programs -> Hands]
                /\ client'[c].stage = s /\ client'[c].thread = t /\ client'[c].msg = client[c].msg
                /\ \A d \in Programs : d # c => client'[d] = client[d]
         /\ \A s \in ClientStages : Becomes(c, s) =>
                /\ client' \in [Programs -> Hands]
                /\ client'[c].stage = s /\ client'[c].thread = client[c].thread
                /\ client'[c].msg = client[c].msg
                /\ \A d \in Programs : d # c => client'[d] = client[d]
         /\ \A s \in ClientStages, i \in Ids : Holding(c, s, i) =>
                /\ client' \in [Programs -> Hands]
                /\ client'[c].stage = s /\ client'[c].thread = 0 /\ client'[c].msg = i
                /\ \A d \in Programs : d # c => client'[d] = client[d]
         /\ Rests(c) =>
                /\ client' \in [Programs -> Hands]
                /\ client'[c] = Idle
                /\ client'[c].stage = "idle" /\ client'[c].thread = 0 /\ client'[c].msg = 0
                /\ \A d \in Programs : d # c => client'[d] = client[d]
<1>1. ASSUME NEW s \in ClientStages, NEW t \in Threads \union {0}, Waits(c, s, t)
      PROVE  /\ client' \in [Programs -> Hands]
             /\ client'[c].stage = s /\ client'[c].thread = t /\ client'[c].msg = client[c].msg
             /\ \A d \in Programs : d # c => client'[d] = client[d]
  <2> DEFINE h == [client[c] EXCEPT !.stage = s, !.thread = t]
  <2>1. client' = [client EXCEPT ![c] = h]
    BY <1>1 DEF Waits
  <2>2. h \in Hands /\ h.stage = s /\ h.thread = t /\ h.msg = client[c].msg
    BY DEF Hands
  <2> QED BY <2>1, <2>2
<1>2. ASSUME NEW s \in ClientStages, Becomes(c, s)
      PROVE  /\ client' \in [Programs -> Hands]
             /\ client'[c].stage = s /\ client'[c].thread = client[c].thread
             /\ client'[c].msg = client[c].msg
             /\ \A d \in Programs : d # c => client'[d] = client[d]
  <2> DEFINE h == [client[c] EXCEPT !.stage = s]
  <2>1. client' = [client EXCEPT ![c] = h]
    BY <1>2 DEF Becomes
  <2>2. h \in Hands /\ h.stage = s /\ h.thread = client[c].thread /\ h.msg = client[c].msg
    BY DEF Hands
  <2> QED BY <2>1, <2>2
<1>3. ASSUME NEW s \in ClientStages, NEW i \in Ids, Holding(c, s, i)
      PROVE  /\ client' \in [Programs -> Hands]
             /\ client'[c].stage = s /\ client'[c].thread = 0 /\ client'[c].msg = i
             /\ \A d \in Programs : d # c => client'[d] = client[d]
  <2> DEFINE h == [stage |-> s, thread |-> 0, msg |-> i]
  <2>1. client' = [client EXCEPT ![c] = h]
    BY <1>3 DEF Holding
  <2>2. h \in Hands /\ h.stage = s /\ h.thread = 0 /\ h.msg = i
    BY DEF Hands
  <2> QED BY <2>1, <2>2
<1>4. ASSUME Rests(c)
      PROVE  /\ client' \in [Programs -> Hands]
             /\ client'[c] = Idle
             /\ client'[c].stage = "idle" /\ client'[c].thread = 0 /\ client'[c].msg = 0
             /\ \A d \in Programs : d # c => client'[d] = client[d]
  <2>1. client' = [client EXCEPT ![c] = Idle]
    BY <1>4 DEF Rests
  <2>2. Idle \in Hands /\ Idle.stage = "idle" /\ Idle.thread = 0 /\ Idle.msg = 0
    BY DEF Hands, Idle, ClientStages
  <2> QED BY <2>1, <2>2
<1> QED BY <1>1, <1>2, <1>3, <1>4

\* What one message is, wherever it is.
LEMMA Frame ==
  ASSUME UNCHANGED <<ready, held>>
  PROVE  /\ BrokerTypeOK' <=> BrokerTypeOK
         /\ Distinct' <=> Distinct
         /\ \A i \in Ids : (InQueue(i)' <=> InQueue(i)) /\ (Held(i)' <=> Held(i))
         /\ \A t \in Threads : (Holds(t)' <=> Holds(t)) /\ Delivery(t)' = Delivery(t)
BY DEF BrokerTypeOK, Distinct, InQueue, Held, Holds, Delivery

LEMMA LettersAddressBoxes ==
  ASSUME TypeOK, NEW i \in Ids, letter[i] \in Letters
  PROVE  /\ letter[i].from \in Boxes /\ letter[i].to \in Boxes
         /\ QueueOf[letter[i].to] \in Queues
         /\ [from |-> WorkerBox, to |-> letter[i].from, re |-> i] \in Letters
BY ClientAssumption DEF Letters, Queues

\* A program waits for a request exactly while it sends or receives.
LEMMA Waiting ==
  ASSUME TypeOK, RequestInv, NEW c \in Programs, client[c].stage \in {"receiving", "sending"}
  PROVE  client[c].thread \in Threads
BY DEF TypeOK, RequestInv

\* Beyond the broker, the invariant says what each delivery is.
LEMMA HeldMessage ==
  ASSUME TypeOK, RequestInv, PlaceInv, NEW t \in Threads, Holds(t)
  PROVE  /\ Delivery(t).payload = thread[t].msg
         /\ thread[t].at \in {"mark_delivered", "ack"}
         /\ thread[t].msg \in Ids /\ Held(thread[t].msg)
         /\ ~InQueue(thread[t].msg) /\ thread[t].msg \notin settled
         /\ \A u \in Threads : Holds(u) /\ Delivery(u).payload = thread[t].msg => u = t
<1>1. Delivery(t).payload = thread[t].msg /\ thread[t].at \in {"mark_delivered", "ack"}
  BY DEF RequestInv
<1>2. thread[t].msg \in Ids
  BY <1>1 DEF RequestInv, Laden
<1>3. Held(thread[t].msg)
  BY <1>1 DEF Held
<1> QED BY <1>1, <1>2, <1>3 DEF PlaceInv

\* A delivery that is settled or returned is held no more; the others are.
LEMMA ReleaseEffect ==
  ASSUME TypeOK, RequestInv, PlaceInv, NEW t \in Threads, Holds(t),
         held' = [held EXCEPT ![t] = <<>>]
  PROVE  /\ ~Holds(t)'
         /\ \A u \in Threads : u # t => (Holds(u)' <=> Holds(u)) /\ Delivery(u)' = Delivery(u)
         /\ \A i \in Ids : Held(i)' <=> Held(i) /\ i # thread[t].msg
<1>1. held \in [Threads -> {<<>>} \union {<<d>> : d \in Deliveries}]
  BY DEF TypeOK, ServerTypeOK, BrokerTypeOK, Clients
<1>2. held'[t] = <<>> /\ \A u \in Threads : u # t => held'[u] = held[u]
  BY <1>1
<1>3. ~Holds(t)' /\ \A u \in Threads : u # t => (Holds(u)' <=> Holds(u)) /\ Delivery(u)' = Delivery(u)
  BY <1>2 DEF Holds, Delivery
<1>4. ASSUME NEW i \in Ids PROVE Held(i)' <=> Held(i) /\ i # thread[t].msg
  <2>1. ASSUME Held(i)' PROVE Held(i) /\ i # thread[t].msg
    <3>1. PICK u \in Threads : Holds(u)' /\ Delivery(u)'.payload = i
      BY <2>1 DEF Held
    <3>2. u # t /\ Holds(u) /\ Delivery(u).payload = i
      BY <1>3, <3>1
    <3> QED BY <3>2, HeldMessage DEF Held
  <2>2. ASSUME Held(i), i # thread[t].msg PROVE Held(i)'
    <3>1. PICK u \in Threads : Holds(u) /\ Delivery(u).payload = i
      BY <2>2 DEF Held
    <3>2. u # t
      BY <2>2, <3>1, HeldMessage
    <3>3. Holds(u)' /\ Delivery(u)'.payload = i
      BY <1>3, <3>1, <3>2
    <3> QED BY <3>3 DEF Held
  <2> QED BY <2>1, <2>2
<1> QED BY <1>3, <1>4

\* A message that is fetched is held by its thread.
LEMMA TakeEffect ==
  ASSUME TypeOK, NEW t \in Threads, ~Holds(t), NEW q \in Queues, NEW i \in Ids,
         held' = [held EXCEPT ![t] = <<[queue |-> q, payload |-> i]>>]
  PROVE  /\ Holds(t)' /\ Delivery(t)'.payload = i
         /\ \A u \in Threads : u # t => (Holds(u)' <=> Holds(u)) /\ Delivery(u)' = Delivery(u)
         /\ \A j \in Ids : Held(j)' <=> Held(j) \/ j = i
<1>1. held \in [Threads -> {<<>>} \union {<<d>> : d \in Deliveries}]
  BY DEF TypeOK, ServerTypeOK, BrokerTypeOK, Clients
<1>2. held'[t] = <<[queue |-> q, payload |-> i]>> /\ \A u \in Threads : u # t => held'[u] = held[u]
  BY <1>1
<1>3. \A u \in Threads : u # t => (Holds(u)' <=> Holds(u)) /\ Delivery(u)' = Delivery(u)
  BY <1>2 DEF Holds, Delivery
<1>4. Holds(t)' /\ Delivery(t)'.payload = i
  BY <1>2 DEF Holds, Delivery
<1>5. ASSUME NEW j \in Ids PROVE Held(j)' <=> Held(j) \/ j = i
  <2>1. ASSUME Held(j)', j # i PROVE Held(j)
    <3>1. PICK u \in Threads : Holds(u)' /\ Delivery(u)'.payload = j
      BY <2>1 DEF Held
    <3>2. u # t /\ Holds(u) /\ Delivery(u).payload = j
      BY <1>3, <1>4, <2>1, <3>1
    <3> QED BY <3>2 DEF Held
  <2>2. ASSUME Held(j) PROVE Held(j)'
    <3>1. PICK u \in Threads : Holds(u) /\ Delivery(u).payload = j
      BY <2>2 DEF Held
    <3>2. u # t
      BY <3>1
    <3>3. Holds(u)' /\ Delivery(u)'.payload = j
      BY <1>3, <3>1, <3>2
    <3> QED BY <3>3 DEF Held
  <2>3. Held(i)'
    BY <1>4 DEF Held
  <2> QED BY <2>1, <2>2, <2>3
<1> QED BY <1>3, <1>4, <1>5

\* A delivery that returns is in its queue and nowhere else.
LEMMA ReturnEffect ==
  ASSUME TypeOK, RequestInv, PlaceInv, NEW t \in Threads, Requeue(t)
  PROVE  /\ BrokerTypeOK' /\ Distinct' /\ Holds(t) /\ ~Holds(t)'
         /\ \A u \in Threads : u # t => (Holds(u)' <=> Holds(u)) /\ Delivery(u)' = Delivery(u)
         /\ \A i \in Ids : /\ Held(i)' <=> Held(i) /\ i # thread[t].msg
                           /\ InQueue(i)' <=> InQueue(i) \/ i = thread[t].msg
<1>1. Holds(t)
  BY DEF Requeue
<1>2. Delivery(t).payload = thread[t].msg /\ ~InQueue(Delivery(t).payload)
  BY <1>1, HeldMessage
<1>3. BrokerTypeOK /\ Distinct
  BY DEF TypeOK, ServerTypeOK, PlaceInv
<1>4. /\ BrokerTypeOK' /\ Distinct' /\ held' = [held EXCEPT ![t] = <<>>]
      /\ \A i \in Ids : InQueue(i)' <=> InQueue(i) \/ i = Delivery(t).payload
  BY <1>2, <1>3, RequeueEffect
<1> QED BY <1>1, <1>2, <1>4, ReleaseEffect

LEMMA TypeParts ==
  TypeOK <=> /\ rows \in [Ids -> RowStatuses]
             /\ letter \in [Ids -> Letters \union {NoLetter}]
             /\ thread \in [Threads -> Requests]
             /\ BrokerTypeOK
             /\ settled \subseteq Ids /\ handed \in [Ids -> Nat]
             /\ faults \in Nat /\ crashes \in Nat
             /\ client \in [Programs -> Hands]
             /\ accepted \subseteq Ids /\ runs \in [Ids -> Nat]
             /\ injected \subseteq Ids /\ deadlettered \subseteq Ids
BY DEF TypeOK, ServerTypeOK, Requests, Hands

LEMMA FaultType == faults \in Nat /\ Fault => faults' \in Nat
BY NatSuccessor, Zenon DEF Fault

LEMMA CountType ==
  ASSUME NEW f \in [Ids -> Nat], NEW i \in Ids
  PROVE  [f EXCEPT ![i] = @ + 1] \in [Ids -> Nat]
OBVIOUS

\* A message that can be sent: the sender's own, or the worker's reply.
LEMMA SendLetter ==
  ASSUME NEW b \in {HumanBox, WorkerBox}
  PROVE  [from |-> b, to |-> WorkerBox, re |-> 0] \in Letters
BY ClientAssumption DEF Letters

LEMMA ReplyLetter ==
  ASSUME TypeOK, RequestInv, Stage("worker", "reply")
  PROVE  /\ client["worker"].msg \in Ids /\ client["worker"].msg \in settled
         /\ letter[client["worker"].msg] \in Letters
         /\ ReplyTo(client["worker"].msg) \in Letters
         /\ ReplyTo(client["worker"].msg).re = client["worker"].msg
<1> DEFINE m == client["worker"].msg
<1>1. m \in settled /\ m \in Ids
  BY DEF RequestInv, Stage, Programs, Pollers
<1>2. letter[m] \in Letters
  <2>1. Placed(m)
    BY <1>1 DEF Placed
  <2> QED BY <1>1, <2>1 DEF RequestInv
<1>3. ReplyTo(m) \in Letters /\ ReplyTo(m).re = m
  <2>1. [from |-> WorkerBox, to |-> letter[m].from, re |-> m] \in Letters
    BY <1>1, <1>2, LettersAddressBoxes
  <2> QED BY <2>1 DEF ReplyTo
<1> QED BY <1>1, <1>2, <1>3

\* An answer carries a message of the service.
LEMMA AnswerType ==
  ASSUME TypeOK, RequestInv, NEW c \in Pollers, NEW i \in Ids \union {0}, GetAnswered(c, i)
  PROVE  /\ thread' \in [Threads -> Requests] /\ handed' \in [Ids -> Nat]
         /\ i # 0 => i \in Ids
<1>1. c \in Programs /\ client[c].thread \in Threads
  BY Waiting DEF GetAnswered, Stage, Programs
<1>2. thread' \in [Threads -> Requests]
  BY <1>1, FreeEffect, TypeParts DEF GetAnswered
<1>3. handed' \in [Ids -> Nat]
  <2>1. CASE UNCHANGED handed
    BY <2>1, TypeParts
  <2>2. CASE At(client[c].thread, "message") /\ i = thread[client[c].thread].msg
             /\ handed' = [handed EXCEPT ![i] = @ + 1]
    <3>1. i \in Ids
      BY <1>1, <2>2 DEF RequestInv, At, Laden
    <3> QED BY <2>2, <3>1, CountType, TypeParts
  <2> QED BY <2>1, <2>2 DEF GetAnswered
<1> QED BY <1>2, <1>3

LEMMA ServerTypeNext ==
  ASSUME TypeOK, RequestInv, PlaceInv, NEW t \in Threads, Serve(t) \/ ServerFails(t)
  PROVE  ServerTypeOK'
<1> USE DEF At
<1>0. /\ rows \in [Ids -> RowStatuses] /\ letter \in [Ids -> Letters \union {NoLetter}]
      /\ thread \in [Threads -> Requests] /\ BrokerTypeOK /\ Distinct
      /\ settled \subseteq Ids /\ handed \in [Ids -> Nat]
      /\ faults \in Nat /\ crashes \in Nat
  BY TypeParts DEF PlaceInv
<1>s. (/\ rows' \in [Ids -> RowStatuses] /\ letter' \in [Ids -> Letters \union {NoLetter}]
       /\ thread' \in [Threads -> Requests] /\ BrokerTypeOK'
       /\ settled' \subseteq Ids /\ handed' \in [Ids -> Nat]
       /\ faults' \in Nat /\ crashes' \in Nat) => ServerTypeOK'
  BY DEF ServerTypeOK, Requests
<1>p. \A p \in Points : Goto(t, p) => thread' \in [Threads -> Requests]
  BY <1>0, GotoEffect
<1>q. /\ \A p \in PutPoints \union GetPoints \union Answers : p \in Points
      /\ \A p \in {"publishing", "queued", "failed", "delivered"} : p \in RowStatuses
  BY DEF Points, RowStatuses
<1>m. thread[t].at \in Laden => thread[t].msg \in Ids
  BY DEF RequestInv
<1>r. \A s \in RowStatuses : thread[t].msg \in Ids /\ SetStatus(thread[t].msg, s)
                             => rows' \in [Ids -> RowStatuses]
  BY <1>0 DEF SetStatus
<1>1. CASE InsertRow(t)
  <2>1. thread[t].msg \in Ids /\ thread[t].mail \in Letters
    BY <1>1, <1>m DEF InsertRow, RequestInv, Laden, PutPoints
  <2>2. thread' \in [Threads -> Requests]
    BY <1>1, <1>p, <1>q DEF InsertRow, PutPoints, Answers
  <2>3. rows' \in [Ids -> RowStatuses] /\ letter' \in [Ids -> Letters \union {NoLetter}]
    BY <1>0, <1>1, <1>q, <1>r, <2>1 DEF InsertRow
  <2>4. BrokerTypeOK' /\ UNCHANGED <<settled, handed, faults, crashes>>
    BY <1>0, <1>1, Frame DEF InsertRow
  <2> QED BY <1>0, <1>s, <2>2, <2>3, <2>4
<1>2. CASE PublishRow(t)
  <2> DEFINE i == thread[t].msg
             q == QueueOf[letter[i].to]
  <2>1. i \in Ids /\ q \in Queues
    <3>1. i \in Ids /\ rows[i] # "absent"
      BY <1>2, <1>m DEF PublishRow, RequestInv, Laden, PutPoints, Publishing
    <3>2. letter[i] \in Letters
      BY <3>1 DEF RequestInv
    <3> QED BY <3>1, <3>2, LettersAddressBoxes
  <2>2. thread' \in [Threads -> Requests]
    BY <1>2, <1>p, <1>q DEF PublishRow, PutPoints, Answers
  <2>3. BrokerTypeOK'
    <3>1. CASE Publish(q, i)
      BY <1>0, <2>1, <3>1, PublishEffect
    <3>2. CASE UNCHANGED <<ready, held>>
      BY <1>0, <3>2, Frame
    <3> QED BY <1>2, <3>1, <3>2 DEF PublishRow, PublishUnconfirmed
  <2>4. faults' \in Nat /\ UNCHANGED <<rows, letter, settled, handed, crashes>>
    BY <1>0, <1>2, FaultType DEF PublishRow
  <2> QED BY <1>0, <1>s, <2>2, <2>3, <2>4
<1>3. CASE MarkPublished(t)
  <2>1. thread[t].msg \in Ids
    BY <1>3, <1>m DEF MarkPublished, Laden, PutPoints
  <2>2. thread' \in [Threads -> Requests]
    BY <1>3, <1>p, <1>q DEF MarkPublished, Answers
  <2>3. rows' \in [Ids -> RowStatuses]
    BY <1>3, <1>q, <1>r, <2>1 DEF MarkPublished
  <2>4. BrokerTypeOK' /\ UNCHANGED <<letter, settled, handed, faults, crashes>>
    BY <1>0, <1>3, Frame DEF MarkPublished
  <2> QED BY <1>0, <1>s, <2>2, <2>3, <2>4
<1>4. CASE FetchMessage(t)
  <2> DEFINE q == QueueOf[thread[t].box]
  <2>1. q \in Queues
    BY <1>4 DEF FetchMessage, RequestInv, Queues
  <2>2. thread' \in [Threads -> Requests] /\ BrokerTypeOK'
    <3>1. CASE Fetch(t, q) /\ thread' = [thread EXCEPT ![t].at = "mark_delivered", ![t].msg = Head(ready[q])]
      BY <1>0, <2>1, <3>1, FetchEffect, FetchedEffect
    <3>2. CASE (Goto(t, "nothing") \/ Goto(t, "error")) /\ UNCHANGED <<ready, held>>
      BY <1>0, <1>p, <1>q, <3>2, Frame DEF Answers
    <3> QED BY <1>4, <3>1, <3>2 DEF FetchMessage
  <2>3. faults' \in Nat /\ UNCHANGED <<rows, letter, settled, handed, crashes>>
    BY <1>0, <1>4, FaultType DEF FetchMessage
  <2> QED BY <1>0, <1>s, <2>2, <2>3
<1>5. CASE MarkDelivered(t)
  <2>1. thread[t].msg \in Ids
    BY <1>5, <1>m DEF MarkDelivered, Laden
  <2>2. thread' \in [Threads -> Requests]
    BY <1>5, <1>p, <1>q DEF MarkDelivered, Answers, GetPoints
  <2>3. rows' \in [Ids -> RowStatuses]
    BY <1>0, <1>5, <1>q, <1>r, <2>1 DEF MarkDelivered
  <2>4. BrokerTypeOK'
    BY <1>0, <1>5, Frame, ReturnEffect DEF MarkDelivered, RequeueIfHeld
  <2>5. faults' \in Nat /\ UNCHANGED <<letter, settled, handed, crashes>>
    BY <1>0, <1>5, FaultType DEF MarkDelivered
  <2> QED BY <1>0, <1>s, <2>2, <2>3, <2>4, <2>5
<1>6. CASE AckMessage(t)
  <2>1. thread[t].msg \in Ids
    BY <1>6, <1>m DEF AckMessage, Laden
  <2>2. thread' \in [Threads -> Requests]
    BY <1>6, <1>p, <1>q DEF AckMessage, Answers
  <2>3. BrokerTypeOK'
    BY <1>0, <1>6, Frame, ReturnEffect, SettleEffect DEF AckMessage
  <2>4. settled' \subseteq Ids
    BY <1>0, <1>6, <2>1 DEF AckMessage
  <2>5. faults' \in Nat /\ UNCHANGED <<rows, letter, handed, crashes>>
    BY <1>0, <1>6, FaultType DEF AckMessage
  <2> QED BY <1>0, <1>s, <2>2, <2>3, <2>4, <2>5
<1>7. CASE PutFails(t)
  <2>1. thread' \in [Threads -> Requests]
    BY <1>7, <1>p, <1>q DEF PutFails, Answers
  <2>2. faults' \in Nat /\ BrokerTypeOK' /\ UNCHANGED <<rows, letter, settled, handed, crashes>>
    BY <1>0, <1>7, FaultType, Frame DEF PutFails
  <2> QED BY <1>0, <1>s, <2>1, <2>2
<1>8. CASE LoseConnection(t)
  <2>1. faults' \in Nat /\ BrokerTypeOK' /\ UNCHANGED <<rows, letter, thread, settled, handed, crashes>>
    BY <1>0, <1>8, FaultType, ReturnEffect DEF LoseConnection
  <2> QED BY <1>0, <1>s, <2>1
<1> QED BY <1>1, <1>2, <1>3, <1>4, <1>5, <1>6, <1>7, <1>8
    DEF Serve, PutMessage, GetMessage, ServerFails

LEMMA TypeNext ==
  ASSUME TypeOK, RequestInv, PlaceInv, [Next]_allVars
  PROVE  TypeOK'
<1>0. /\ rows \in [Ids -> RowStatuses] /\ letter \in [Ids -> Letters \union {NoLetter}]
      /\ thread \in [Threads -> Requests] /\ BrokerTypeOK
      /\ settled \subseteq Ids /\ handed \in [Ids -> Nat]
      /\ faults \in Nat /\ crashes \in Nat
      /\ client \in [Programs -> Hands]
      /\ accepted \subseteq Ids /\ runs \in [Ids -> Nat]
      /\ injected \subseteq Ids /\ deadlettered \subseteq Ids
  BY TypeParts
<1>s. (/\ rows' \in [Ids -> RowStatuses] /\ letter' \in [Ids -> Letters \union {NoLetter}]
       /\ thread' \in [Threads -> Requests] /\ BrokerTypeOK'
       /\ settled' \subseteq Ids /\ handed' \in [Ids -> Nat]
       /\ faults' \in Nat /\ crashes' \in Nat
       /\ client' \in [Programs -> Hands]
       /\ accepted' \subseteq Ids /\ runs' \in [Ids -> Nat]
       /\ injected' \subseteq Ids /\ deadlettered' \subseteq Ids) => TypeOK'
  BY DEF TypeOK, ServerTypeOK, Requests, Hands
<1>b. UNCHANGED <<ready, held>> => BrokerTypeOK'
  BY <1>0, Frame
<1>p. {"sender", "worker", "injector"} \subseteq Programs /\ Pollers \subseteq Programs
      /\ "worker" \in Pollers /\ "injector" \in Pollers
  BY DEF Programs, Pollers
<1>r. \A c \in Programs : Rests(c) => client' \in [Programs -> Hands]
  BY <1>0, HandEffect
<1>w. \A c \in Programs : \A s \in ClientStages, t \in Threads \union {0} :
          Waits(c, s, t) => client' \in [Programs -> Hands]
  BY <1>0, HandEffect
<1>h. \A c \in Programs : \A s \in ClientStages, i \in Ids :
          Holding(c, s, i) => client' \in [Programs -> Hands]
  BY <1>0, HandEffect
<1>g. \A c \in Programs : \A s \in ClientStages : Becomes(c, s) => client' \in [Programs -> Hands]
  BY <1>0, HandEffect
<1>a. ASSUME NEW c \in Programs, PutAnswered(c)
      PROVE  /\ thread' \in [Threads -> Requests] /\ accepted' \subseteq Ids
             /\ UNCHANGED <<server, handed, faults, crashes, outcome>>
  <2>1. client[c].thread \in Threads
    BY <1>a, Waiting DEF PutAnswered, Stage
  <2>2. At(client[c].thread, "accepted") => thread[client[c].thread].msg \in Ids
    BY <2>1 DEF RequestInv, Laden, At
  <2>3. accepted' \subseteq Ids
    BY <1>0, <1>a, <2>2 DEF PutAnswered
  <2>4. thread' \in [Threads -> Requests]
    BY <1>0, <1>a, <2>1, FreeEffect DEF PutAnswered
  <2> QED BY <1>a, <2>3, <2>4 DEF PutAnswered
<1>y. ASSUME NEW c \in Pollers, NEW b \in Boxes, Poll(c, b) PROVE TypeOK'
  <2>1. PICK t \in Threads : StartGet(t, b) /\ Waits(c, "receiving", t)
    BY <1>y DEF Poll
  <2>2. thread' \in [Threads -> Requests] /\ client' \in [Programs -> Hands]
    BY <1>0, <1>p, <1>w, <2>1, GetEffect DEF ClientStages
  <2>3. UNCHANGED <<server, handed, faults, crashes, accepted, outcome>>
    BY <1>y DEF Poll
  <2> QED BY <1>0, <1>s, <1>b, <2>2, <2>3 DEF server, outcome
<1>1. ASSUME NEW i \in Given, Send(i) PROVE TypeOK'
  <2>1. PICK t \in Threads, b \in {HumanBox, WorkerBox} :
            /\ StartPut(t, i, [from |-> b, to |-> WorkerBox, re |-> 0])
            /\ client' = [client EXCEPT !["sender"] = [stage |-> "sending", thread |-> t, msg |-> i]]
    BY <1>1 DEF Send
  <2>2. i \in Ids
    BY DEF Ids
  <2>3. thread' \in [Threads -> Requests]
    BY <1>0, <2>1, <2>2, PutEffect, SendLetter
  <2>4. client' \in [Programs -> Hands]
    <3>1. [stage |-> "sending", thread |-> t, msg |-> i] \in Hands
      BY <2>2 DEF Hands, ClientStages
    <3> QED BY <1>0, <2>1, <3>1
  <2>5. UNCHANGED <<server, handed, faults, crashes, accepted, outcome>>
    BY <1>1 DEF Send
  <2> QED BY <1>0, <1>s, <1>b, <2>3, <2>4, <2>5 DEF server, outcome
<1>2. CASE SenderIsAnswered
  <2>1. client' \in [Programs -> Hands]
    BY <1>2, <1>p, <1>r DEF SenderIsAnswered
  <2> QED BY <1>0, <1>2, <1>s, <1>b, <1>p, <1>a, <2>1 DEF SenderIsAnswered, server, outcome
<1>3. CASE WorkerStep
  <2>1. CASE Poll("worker", WorkerBox)
    BY <1>p, <1>y, <2>1, ClientAssumption
  <2>2. ASSUME NEW i \in Ids \union {0}, WorkerReceives(i) PROVE TypeOK'
    <3>1. GetAnswered("worker", i)
      BY <2>2 DEF WorkerReceives
    <3>2. thread' \in [Threads -> Requests] /\ handed' \in [Ids -> Nat]
      BY <1>p, <3>1, AnswerType
    <3>3. client' \in [Programs -> Hands]
      BY <1>p, <1>r, <1>h, <2>2 DEF WorkerReceives, ClientStages
    <3>4. UNCHANGED <<server, faults, crashes, accepted, outcome>>
      BY <3>1 DEF GetAnswered
    <3> QED BY <1>0, <1>s, <1>b, <3>2, <3>3, <3>4 DEF server, outcome
  <2>3. CASE RunAgent
    <3>1. client["worker"].msg \in Ids
      BY <1>p, <2>3 DEF RunAgent, RequestInv, Stage
    <3>2. runs' \in [Ids -> Nat]
      BY <1>0, <2>3, <3>1, CountType DEF RunAgent
    <3>3. client' \in [Programs -> Hands]
      BY <1>p, <1>g, <2>3 DEF RunAgent, ClientStages
    <3>4. UNCHANGED <<server, thread, handed, faults, crashes, accepted, injected, deadlettered>>
      BY <2>3 DEF RunAgent
    <3> QED BY <1>0, <1>s, <1>b, <3>2, <3>3, <3>4 DEF server
  <2>4. CASE SendReply
    <3>1. PICK t \in Threads, i \in Ids : /\ StartPut(t, i, ReplyTo(client["worker"].msg))
                                         /\ Waits("worker", "sending", t)
      BY <2>4 DEF SendReply
    <3>2. thread' \in [Threads -> Requests]
      BY <1>0, <2>4, <3>1, ReplyLetter, PutEffect DEF SendReply
    <3>3. client' \in [Programs -> Hands]
      BY <1>p, <1>w, <3>1 DEF ClientStages
    <3>4. UNCHANGED <<server, handed, faults, crashes, accepted, outcome>>
      BY <2>4 DEF SendReply
    <3> QED BY <1>0, <1>s, <1>b, <3>2, <3>3, <3>4 DEF server, outcome
  <2>5. CASE ReplyIsAnswered
    <3>1. client' \in [Programs -> Hands]
      BY <2>5, <1>p, <1>r DEF ReplyIsAnswered
    <3> QED BY <1>0, <2>5, <1>s, <1>b, <1>p, <1>a, <3>1 DEF ReplyIsAnswered, server, outcome
  <2> QED BY <1>3, <2>1, <2>2, <2>3, <2>4, <2>5 DEF WorkerStep
<1>4. CASE InjectorStep
  <2>i. client["injector"].stage \in {"inject", "give_up"} => client["injector"].msg \in Ids
    BY <1>p DEF RequestInv
  <2>1. CASE Poll("injector", HumanBox)
    BY <1>p, <1>y, <2>1, ClientAssumption
  <2>2. ASSUME NEW i \in Ids \union {0}, InjectorReceives(i) PROVE TypeOK'
    <3>1. GetAnswered("injector", i)
      BY <2>2 DEF InjectorReceives
    <3>2. thread' \in [Threads -> Requests] /\ handed' \in [Ids -> Nat]
      BY <1>p, <3>1, AnswerType
    <3>3. client' \in [Programs -> Hands]
      BY <1>p, <1>r, <1>h, <2>2 DEF InjectorReceives, ClientStages
    <3>4. UNCHANGED <<server, faults, crashes, accepted, outcome>>
      BY <3>1 DEF GetAnswered
    <3> QED BY <1>0, <1>s, <1>b, <3>2, <3>3, <3>4 DEF server, outcome
  <2>3. CASE Inject
    <3>1. client' \in [Programs -> Hands]
      BY <1>p, <1>g, <2>3 DEF Inject, ClientStages
    <3>2. injected' \subseteq Ids
      BY <1>0, <2>3, <2>i DEF Inject, Stage
    <3>3. UNCHANGED <<server, thread, handed, faults, crashes, accepted, runs, deadlettered>>
      BY <2>3 DEF Inject
    <3> QED BY <1>0, <1>s, <1>b, <3>1, <3>2, <3>3 DEF server
  <2>4. CASE Notify
    <3>1. client' \in [Programs -> Hands]
      BY <1>p, <1>g, <1>r, <2>4 DEF Notify, ClientStages
    <3>2. UNCHANGED <<server, thread, handed, faults, crashes, accepted, outcome>>
      BY <2>4 DEF Notify
    <3> QED BY <1>0, <1>s, <1>b, <3>1, <3>2 DEF server, outcome
  <2>5. CASE GiveUp
    <3>1. client' \in [Programs -> Hands]
      BY <1>p, <1>r, <2>5 DEF GiveUp
    <3>2. deadlettered' \subseteq Ids
      BY <1>0, <2>5, <2>i DEF GiveUp, Stage
    <3>3. UNCHANGED <<server, thread, handed, faults, crashes, accepted, runs, injected>>
      BY <2>5 DEF GiveUp
    <3> QED BY <1>0, <1>s, <1>b, <3>1, <3>2, <3>3 DEF server
  <2> QED BY <1>4, <2>1, <2>2, <2>3, <2>4, <2>5 DEF InjectorStep
<1>5. ASSUME NEW t \in Threads, (Serve(t) \/ ServerFails(t)) /\ UNCHANGED clientVars PROVE TypeOK'
  <2>1. ServerTypeOK'
    BY <1>5, ServerTypeNext
  <2> QED BY <1>0, <1>5, <2>1 DEF TypeOK, clientVars, Hands
<1>6. ASSUME NEW t \in Threads, AnswerNobody(t) PROVE TypeOK'
  <2>1. thread' \in [Threads -> Requests]
    BY <1>0, <1>6, FreeEffect DEF AnswerNobody
  <2>2. UNCHANGED <<server, handed, faults, crashes, clientVars>>
    BY <1>6 DEF AnswerNobody
  <2> QED BY <1>0, <1>s, <1>b, <2>1, <2>2 DEF server, clientVars
<1>7. ASSUME NEW c \in Programs, Die(c) PROVE TypeOK'
  <2>1. client' \in [Programs -> Hands] /\ faults' \in Nat
    BY <1>0, <1>7, <1>r, FaultType DEF Die
  <2>2. UNCHANGED <<server, thread, handed, crashes, accepted, outcome>>
    BY <1>7 DEF Die
  <2> QED BY <1>0, <1>s, <1>b, <2>1, <2>2 DEF server, outcome
<1>8. CASE Crash
  <2>1. thread' \in [Threads -> Requests]
    <3>1. Free \in Requests
      BY DEF Free, Requests, Points
    <3> QED BY <1>8, <3>1 DEF Crash
  <2>2. client' \in [Programs -> Hands]
    <3>1. Idle \in Hands
      BY DEF Idle, Hands, ClientStages
    <3>2. client' = [c \in Programs |-> IF client[c].thread # 0 THEN Idle ELSE client[c]]
      BY <1>8 DEF Crash
    <3> QED BY <1>0, <3>1, <3>2
  <2>3. crashes' \in Nat
    <3>1. crashes' = crashes + 1
      BY <1>8 DEF Crash
    <3> QED BY <1>0, <3>1, NatSuccessor, Zenon
  <2>4. BrokerTypeOK'
    BY <1>0, <1>8, RequeueAllEffect, MailboxAssumption DEF Crash, PlaceInv
  <2>5. UNCHANGED <<rows, letter, settled, handed, faults, accepted, outcome>>
    BY <1>8 DEF Crash
  <2> QED BY <1>0, <1>s, <2>1, <2>2, <2>3, <2>4, <2>5 DEF outcome
<1>9. CASE UNCHANGED allVars
  <2>1. UNCHANGED serverVars /\ UNCHANGED <<faults, crashes>> /\ UNCHANGED clientVars
    BY <1>9 DEF allVars
  <2> QED BY <1>0, <1>s, <1>b, <2>1 DEF serverVars, clientVars
<1> QED BY <1>1, <1>2, <1>3, <1>4, <1>5, <1>6, <1>7, <1>8, <1>9 DEF Next, ThreadStep
-----------------------------------------------------------------------------
(* What a step of a request does to the places of the messages, to the     *)
(* rows and to the request: the cases the invariants tell apart.           *)

\* No message changes its place.
Stays ==
    /\ Distinct'
    /\ \A i \in Ids : (InQueue(i)' <=> InQueue(i)) /\ (Held(i)' <=> Held(i))
    /\ \A t \in Threads : (Holds(t)' <=> Holds(t)) /\ Delivery(t)' = Delivery(t)

Others(t) ==
    \A u \in Threads : u # t =>
        thread'[u] = thread[u] /\ (Holds(u)' <=> Holds(u)) /\ Delivery(u)' = Delivery(u)

\* The request goes from one point to another with what it carries.
Passes(t, p) ==
    /\ thread'[t].at = p
    /\ thread'[t].msg = thread[t].msg /\ thread'[t].mail = thread[t].mail
    /\ thread'[t].box = thread[t].box

SetsRow(i, s) ==
    /\ rows'[i] = s
    /\ \A j \in Ids : j # i => rows'[j] = rows[j]

Inserts(t) ==
    /\ At(t, "insert") /\ Passes(t, "publish") /\ Stays
    /\ rows[thread[t].msg] = "absent" /\ SetsRow(thread[t].msg, "publishing")
    /\ letter'[thread[t].msg] = thread[t].mail
    /\ \A j \in Ids : j # thread[t].msg => letter'[j] = letter[j]
    /\ UNCHANGED settled

GivesUp(t) ==
    /\ thread[t].at \in PutPoints \union GetPoints \union {"accepted"}
    /\ \/ Passes(t, "refused") /\ At(t, "insert") /\ rows[thread[t].msg] # "absent"
       \/ Passes(t, "nothing") /\ At(t, "fetch")
       \/ Passes(t, "error")
    /\ Stays /\ ~Holds(t)
    /\ UNCHANGED <<rows, letter, settled>>

Publishes(t) ==
    /\ At(t, "publish") /\ ~Holds(t)
    /\ Passes(t, "mark_queued") \/ Passes(t, "mark_failed") \/ Passes(t, "error")
    /\ Distinct'
    /\ \A i \in Ids : /\ Held(i)' <=> Held(i)
                      /\ i = thread[t].msg /\ thread'[t].at = "mark_queued" => InQueue(i)'
                      /\ InQueue(i) => InQueue(i)'
                      /\ InQueue(i)' => InQueue(i) \/ i = thread[t].msg
    /\ \A u \in Threads : (Holds(u)' <=> Holds(u)) /\ Delivery(u)' = Delivery(u)
    /\ UNCHANGED <<rows, letter, settled>>

Marks(t) ==
    /\ \/ At(t, "mark_queued") /\ Passes(t, "accepted") /\ SetsRow(thread[t].msg, "queued")
       \/ At(t, "mark_failed") /\ Passes(t, "error") /\ SetsRow(thread[t].msg, "failed")
    /\ Stays /\ ~Holds(t)
    /\ UNCHANGED <<letter, settled>>

Takes(t) ==
    /\ At(t, "fetch") /\ thread'[t].at = "mark_delivered" /\ thread'[t].box = thread[t].box
    /\ thread'[t].msg \in Ids /\ InQueue(thread'[t].msg)
    /\ Distinct' /\ ~Holds(t) /\ Holds(t)' /\ Delivery(t)'.payload = thread'[t].msg
    /\ \A i \in Ids : /\ InQueue(i)' <=> InQueue(i) /\ i # thread'[t].msg
                      /\ Held(i)' <=> Held(i) \/ i = thread'[t].msg
    /\ UNCHANGED <<rows, letter, settled>>

Delivers(t) ==
    /\ At(t, "mark_delivered") /\ Passes(t, "ack") /\ Stays
    /\ SetsRow(thread[t].msg, "delivered")
    /\ UNCHANGED <<letter, settled>>

Returns(t) ==
    /\ thread[t].at \in {"mark_delivered", "ack"}
    /\ Passes(t, "error") \/ Passes(t, thread[t].at)
    /\ Distinct' /\ Holds(t) /\ ~Holds(t)'
    /\ \A i \in Ids : /\ Held(i)' <=> Held(i) /\ i # thread[t].msg
                      /\ InQueue(i)' <=> InQueue(i) \/ i = thread[t].msg
    /\ UNCHANGED <<rows, letter, settled>>

Settles(t) ==
    /\ At(t, "ack")
    /\ Passes(t, "message") \/ Passes(t, "error")
    /\ Distinct' /\ Holds(t) /\ ~Holds(t)'
    /\ settled' = settled \union {thread[t].msg}
    /\ \A i \in Ids : /\ Held(i)' <=> Held(i) /\ i # thread[t].msg
                      /\ InQueue(i)' <=> InQueue(i)
    /\ UNCHANGED <<rows, letter>>

\* Every step of a request is one of these.
LEMMA ServerCases ==
  ASSUME TypeOK, RequestInv, PlaceInv, NEW t \in Threads, Serve(t) \/ ServerFails(t)
  PROVE  /\ Others(t)
         /\ \/ Inserts(t) \/ GivesUp(t) \/ Publishes(t) \/ Marks(t)
            \/ Takes(t) \/ Delivers(t) \/ Returns(t) \/ Settles(t)
<1> USE DEF At
<1>0. /\ rows \in [Ids -> RowStatuses] /\ letter \in [Ids -> Letters \union {NoLetter}]
      /\ thread \in [Threads -> Requests] /\ BrokerTypeOK /\ Distinct
  BY TypeParts DEF PlaceInv
<1>p. \A p \in Points : Goto(t, p) =>
          Passes(t, p) /\ \A u \in Threads : u # t => thread'[u] = thread[u]
  BY <1>0, GotoEffect DEF Passes
<1>q. \A p \in PutPoints \union GetPoints \union Answers : p \in Points
  BY DEF Points
<1>m. thread[t].at \in Laden => thread[t].msg \in Ids
  BY DEF RequestInv
<1>h. thread[t].at \notin {"mark_delivered", "ack"} => ~Holds(t)
  BY DEF RequestInv
<1>r. \A s : thread[t].msg \in Ids /\ SetStatus(thread[t].msg, s) => SetsRow(thread[t].msg, s)
  BY <1>0 DEF SetStatus, SetsRow
<1>f. UNCHANGED <<ready, held>> =>
          Stays /\ \A u \in Threads : (Holds(u)' <=> Holds(u)) /\ Delivery(u)' = Delivery(u)
  BY <1>0, Frame DEF Stays
<1>e. UNCHANGED <<ready, held>> /\ (\A u \in Threads : u # t => thread'[u] = thread[u]) => Others(t)
  BY <1>f DEF Others
<1>1. CASE InsertRow(t)
  <2>1. thread[t].msg \in Ids
    BY <1>1, <1>m DEF InsertRow, Laden, PutPoints
  <2>2. Others(t)
    BY <1>1, <1>p, <1>q, <1>e DEF InsertRow, PutPoints, Answers
  <2>3. CASE rows[thread[t].msg] = "absent"
    <3>1. Passes(t, "publish") /\ SetsRow(thread[t].msg, "publishing") /\ Stays
      BY <1>1, <1>p, <1>q, <1>r, <1>f, <2>1, <2>3 DEF InsertRow, PutPoints
    <3>2. letter'[thread[t].msg] = thread[t].mail
          /\ \A j \in Ids : j # thread[t].msg => letter'[j] = letter[j]
      BY <1>0, <1>1, <2>1, <2>3 DEF InsertRow
    <3> QED BY <1>1, <2>2, <2>3, <3>1, <3>2 DEF InsertRow, Inserts
  <2>4. CASE rows[thread[t].msg] # "absent"
    <3>1. GivesUp(t)
      BY <1>1, <1>p, <1>q, <1>f, <1>h, <2>4 DEF InsertRow, GivesUp, Answers, PutPoints
    <3> QED BY <2>2, <3>1
  <2> QED BY <2>3, <2>4
<1>2. CASE PublishRow(t)
  <2> DEFINE i == thread[t].msg
             q == QueueOf[letter[i].to]
  <2>1. i \in Ids /\ q \in Queues /\ ~InQueue(i)
    <3>1. i \in Ids /\ rows[i] # "absent" /\ ~InQueue(i)
      BY <1>2, <1>m DEF PublishRow, RequestInv, PlaceInv, Placed, Laden, PutPoints, Publishing
    <3>2. letter[i] \in Letters
      BY <3>1 DEF RequestInv
    <3> QED BY <3>1, <3>2, LettersAddressBoxes
  <2>p. \/ Passes(t, "mark_queued") /\ Publish(q, i)
        \/ (Passes(t, "mark_failed") \/ Passes(t, "error")) /\ PublishUnconfirmed(q, i)
    BY <1>2, <1>p, <1>q DEF PublishRow, PutPoints, Answers
  <2>o. \A u \in Threads : u # t => thread'[u] = thread[u]
    BY <1>2, <1>p, <1>q DEF PublishRow, PutPoints, Answers
  <2>u. UNCHANGED <<rows, letter, settled>> /\ thread[t].at = "publish" /\ ~Holds(t)
    BY <1>2, <1>h DEF PublishRow
  <2>2. CASE Publish(q, i)
    <3>1. Distinct' /\ \A j \in Ids : InQueue(j)' <=> InQueue(j) \/ j = i
      BY <1>0, <2>1, <2>2, PublishEffect
    <3>2. held' = held
      BY <2>2 DEF Publish
    <3>3. (\A u \in Threads : (Holds(u)' <=> Holds(u)) /\ Delivery(u)' = Delivery(u))
          /\ \A j \in Ids : Held(j)' <=> Held(j)
      BY <3>2 DEF Holds, Delivery, Held
    <3>4. Others(t)
      BY <2>o, <3>3 DEF Others
    <3>6. \A j \in Ids : /\ InQueue(j) => InQueue(j)'
                         /\ j = i => InQueue(j)'
                         /\ InQueue(j)' => InQueue(j) \/ j = i
      BY <3>1
    <3>7. Passes(t, "mark_queued") \/ Passes(t, "mark_failed") \/ Passes(t, "error")
      BY <2>p
    <3> HIDE DEF q
    <3>5. Publishes(t)
      BY <2>u, <3>1, <3>3, <3>6, <3>7 DEF Publishes
    <3> QED BY <3>4, <3>5
  <2>3. CASE UNCHANGED <<ready, held>> /\ (Passes(t, "mark_failed") \/ Passes(t, "error"))
    <3>1. Others(t)
      BY <1>e, <2>o, <2>3
    <3>2. Publishes(t)
      BY <1>f, <2>3, <2>u DEF Publishes, Stays, Passes
    <3> QED BY <3>1, <3>2
  <2> QED BY <2>p, <2>2, <2>3 DEF PublishUnconfirmed
<1>3. CASE MarkPublished(t)
  <2>1. thread[t].msg \in Ids /\ ~Holds(t)
    BY <1>3, <1>m, <1>h DEF MarkPublished, Laden, PutPoints
  <2>2. Others(t)
    BY <1>3, <1>p, <1>q, <1>e DEF MarkPublished, Answers
  <2>3. Marks(t)
    BY <1>3, <1>p, <1>q, <1>r, <1>f, <2>1 DEF MarkPublished, Marks, Answers
  <2> QED BY <2>2, <2>3
<1>4. CASE FetchMessage(t)
  <2> DEFINE q == QueueOf[thread[t].box]
  <2>1. q \in Queues /\ ~Holds(t)
    BY <1>4, <1>h DEF FetchMessage, RequestInv, Queues
  <2>2. CASE Fetch(t, q) /\ thread' = [thread EXCEPT ![t].at = "mark_delivered", ![t].msg = Head(ready[q])]
    <3>1. /\ Distinct' /\ Head(ready[q]) \in Ids /\ InQueue(Head(ready[q]))
          /\ held' = [held EXCEPT ![t] = <<[queue |-> q, payload |-> Head(ready[q])]>>]
          /\ \A i \in Ids : InQueue(i)' <=> InQueue(i) /\ i # Head(ready[q])
      BY <1>0, <2>1, <2>2, FetchEffect
    <3>2. /\ thread'[t].at = "mark_delivered" /\ thread'[t].msg = Head(ready[q])
          /\ thread'[t].box = thread[t].box
          /\ \A u \in Threads : u # t => thread'[u] = thread[u]
      BY <1>0, <2>2, <3>1, FetchedEffect
    <3>3. /\ Holds(t)' /\ Delivery(t)'.payload = Head(ready[q])
          /\ \A u \in Threads : u # t => (Holds(u)' <=> Holds(u)) /\ Delivery(u)' = Delivery(u)
          /\ \A j \in Ids : Held(j)' <=> Held(j) \/ j = Head(ready[q])
      BY <2>1, <3>1, TakeEffect
    <3>4. Others(t)
      BY <3>2, <3>3 DEF Others
    <3>5. Takes(t)
      BY <1>4, <2>1, <3>1, <3>2, <3>3 DEF Takes, FetchMessage
    <3> QED BY <3>4, <3>5
  <2>3. CASE (Goto(t, "nothing") \/ Goto(t, "error")) /\ UNCHANGED <<ready, held>>
    <3>1. Others(t)
      BY <1>p, <1>q, <1>e, <2>3 DEF Answers
    <3>2. GivesUp(t)
      BY <1>4, <1>p, <1>q, <1>f, <2>1, <2>3 DEF FetchMessage, GivesUp, Answers, GetPoints
    <3> QED BY <3>1, <3>2
  <2> QED BY <1>4, <2>2, <2>3 DEF FetchMessage
<1>5. CASE MarkDelivered(t)
  <2>1. thread[t].msg \in Ids /\ \A u \in Threads : u # t => thread'[u] = thread[u]
    BY <1>5, <1>m, <1>p, <1>q DEF MarkDelivered, Laden, Answers, GetPoints
  <2>2. CASE SetStatus(thread[t].msg, "delivered") /\ Goto(t, "ack") /\ UNCHANGED <<ready, held>>
    <3>1. Delivers(t)
      BY <1>5, <1>p, <1>q, <1>r, <1>f, <2>1, <2>2 DEF MarkDelivered, Delivers, GetPoints
    <3> QED BY <1>e, <2>1, <2>2, <3>1
  <2>3. CASE Requeue(t) /\ Goto(t, "error") /\ UNCHANGED rows
    <3>1. Others(t)
      BY <2>1, <2>3, ReturnEffect DEF Others
    <3>2. Returns(t)
      BY <1>5, <1>p, <1>q, <2>3, ReturnEffect DEF MarkDelivered, Returns, Answers
    <3> QED BY <3>1, <3>2
  <2>4. CASE ~Holds(t) /\ UNCHANGED <<ready, held>> /\ Goto(t, "error") /\ UNCHANGED rows
    <3>1. GivesUp(t)
      BY <1>5, <1>p, <1>q, <1>f, <2>4 DEF MarkDelivered, GivesUp, Answers, GetPoints
    <3> QED BY <1>e, <2>1, <2>4, <3>1
  <2> QED BY <1>5, <2>2, <2>3, <2>4 DEF MarkDelivered, RequeueIfHeld
<1>6. CASE AckMessage(t)
  <2>1. thread[t].msg \in Ids /\ \A u \in Threads : u # t => thread'[u] = thread[u]
    BY <1>6, <1>m, <1>p, <1>q DEF AckMessage, Laden, Answers
  <2>2. CASE Settle(t) /\ settled' = settled \union {thread[t].msg} /\ (Goto(t, "message") \/ Goto(t, "error"))
    <3>1. Holds(t) /\ held' = [held EXCEPT ![t] = <<>>] /\ ready' = ready
      BY <1>0, <2>2, SettleEffect
    <3>2. Distinct' /\ \A i \in Ids : InQueue(i)' <=> InQueue(i)
      BY <1>0, <3>1 DEF Distinct, InQueue
    <3>3. Others(t)
      BY <2>1, <3>1, ReleaseEffect DEF Others
    <3>4. ~Holds(t)' /\ \A i \in Ids : Held(i)' <=> Held(i) /\ i # thread[t].msg
      BY <3>1, ReleaseEffect
    <3>5. Passes(t, "message") \/ Passes(t, "error")
      BY <1>p, <1>q, <2>2 DEF Answers
    <3>6. At(t, "ack") /\ UNCHANGED <<rows, letter>> /\ settled' = settled \union {thread[t].msg}
      BY <1>6, <2>2 DEF AckMessage
    <3>7. Settles(t)
      BY <3>1, <3>2, <3>4, <3>5, <3>6 DEF Settles
    <3> QED BY <3>3, <3>7
  <2>3. CASE Requeue(t) /\ Goto(t, "error") /\ UNCHANGED settled
    <3>1. Others(t)
      BY <2>1, <2>3, ReturnEffect DEF Others
    <3>2. Returns(t)
      BY <1>6, <1>p, <1>q, <2>3, ReturnEffect DEF AckMessage, Returns, Answers
    <3> QED BY <3>1, <3>2
  <2>4. CASE ~Holds(t) /\ Goto(t, "error") /\ UNCHANGED <<ready, held, settled, faults>>
    <3>1. GivesUp(t)
      BY <1>6, <1>p, <1>q, <1>f, <2>4 DEF AckMessage, GivesUp, Answers, GetPoints
    <3> QED BY <1>e, <2>1, <2>4, <3>1
  <2> QED BY <1>6, <2>2, <2>3, <2>4 DEF AckMessage
<1>7. CASE PutFails(t)
  <2>1. GivesUp(t)
    BY <1>7, <1>p, <1>q, <1>f, <1>h DEF PutFails, GivesUp, Answers, PutPoints
  <2>2. Others(t)
    BY <1>7, <1>p, <1>q, <1>e DEF PutFails, Answers
  <2> QED BY <2>1, <2>2
<1>8. CASE LoseConnection(t)
  <2>1. Requeue(t) /\ UNCHANGED <<rows, letter, thread, settled>>
    BY <1>8 DEF LoseConnection
  <2>2. Others(t)
    BY <2>1, ReturnEffect DEF Others
  <2>3. thread[t].at \in {"mark_delivered", "ack"} /\ Passes(t, thread[t].at)
    BY <2>1, HeldMessage DEF Requeue, Passes
  <2>4. Returns(t)
    BY <2>1, <2>3, ReturnEffect DEF Returns
  <2> QED BY <2>2, <2>4
<1> QED BY <1>1, <1>2, <1>3, <1>4, <1>5, <1>6, <1>7, <1>8
    DEF Serve, PutMessage, GetMessage, ServerFails

-----------------------------------------------------------------------------
(* What a step of a program does: no message changes its place, and at     *)
(* most one request begins or ends.                                        *)

Quiet == Stays /\ UNCHANGED <<rows, letter, ready, held, settled>>

\* Nothing fails, and no message reaches the human or the deadletter file.
Calm == UNCHANGED <<faults, crashes, injected, deadlettered>>

\* A step of a request: the programs do not notice.
Served(t) ==
    /\ (Serve(t) \/ ServerFails(t)) /\ Others(t)
    /\ \/ Inserts(t) \/ GivesUp(t) \/ Publishes(t) \/ Marks(t)
       \/ Takes(t) \/ Delivers(t) \/ Returns(t) \/ Settles(t)
    /\ UNCHANGED <<handed, client, accepted, runs, injected, deadlettered>>

\* A request begins, for a program that waits for it from now on.
Opens(t, c) ==
    /\ thread[t].at = "idle" /\ Others(t) /\ Quiet /\ Calm
    /\ client'[c].thread = t
    /\ \A d \in Programs : d # c => client'[d] = client[d]
    /\ UNCHANGED <<handed, accepted, runs>>

AsksToPut(t, c) ==
    /\ Opens(t, c)
    /\ thread'[t].at = "insert" /\ thread'[t].msg \in Ids /\ thread'[t].mail \in Letters
    /\ client'[c].stage = "sending" /\ client'[c].msg \in Ids
    /\ \/ /\ c = "sender" /\ client[c].stage = "idle" /\ thread'[t].msg \in Given
          /\ thread'[t].mail.from \in {HumanBox, WorkerBox} /\ thread'[t].mail.to = WorkerBox
          /\ thread'[t].mail.re = 0
       \/ /\ c = "worker" /\ client[c].stage = "reply" /\ IsFresh(thread'[t].msg)
          /\ client'[c].msg = client[c].msg /\ thread'[t].mail = ReplyTo(client[c].msg)
          /\ thread'[t].mail.re = client[c].msg

BoxOf(c) == IF c = "worker" THEN WorkerBox ELSE HumanBox

AsksToGet(t, c) ==
    /\ Opens(t, c)
    /\ thread'[t].at = "fetch" /\ thread'[t].box \in Boxes
    /\ thread'[t].box = BoxOf(c)
    /\ client[c].stage = "idle" /\ client'[c].stage = "receiving"
    /\ client'[c].msg = client[c].msg /\ c \in Pollers

\* A request ends.
Closes(t) ==
    /\ thread[t].at \in Answers /\ thread'[t].at = "idle" /\ Others(t) /\ Quiet /\ Calm

LearnsOfPut(t, c) ==
    /\ Closes(t) /\ client[c].stage = "sending" /\ client[c].thread = t
    /\ accepted' = IF At(t, "accepted") THEN accepted \union {thread[t].msg} ELSE accepted
    /\ thread[t].at # "message" /\ thread[t].at \in {"accepted", "refused", "error"}
    /\ client'[c] = Idle
    /\ \A d \in Programs : d # c => client'[d] = client[d]
    /\ UNCHANGED <<handed, runs>>

GetsNothing(t, c) ==
    /\ Closes(t) /\ client[c].stage = "receiving" /\ client[c].thread = t
    /\ thread[t].at # "message"
    /\ client'[c] = Idle
    /\ \A d \in Programs : d # c => client'[d] = client[d]
    /\ UNCHANGED <<handed, accepted, runs>>

GetsMessage(t, c) ==
    /\ Closes(t) /\ client[c].stage = "receiving" /\ client[c].thread = t /\ At(t, "message")
    /\ handed'[thread[t].msg] = handed[thread[t].msg] + 1
    /\ \A i \in Ids : i # thread[t].msg => handed'[i] = handed[i]
    /\ \/ client'[c] = Idle /\ c = "worker" /\ IsSelfAddressed(thread[t].msg)
       \/ /\ client'[c].thread = 0 /\ client'[c].msg = thread[t].msg
          /\ \/ c = "worker" /\ client'[c].stage = "run" /\ ~IsSelfAddressed(thread[t].msg)
             \/ c = "injector" /\ client'[c].stage = "inject"
    /\ \A d \in Programs : d # c => client'[d] = client[d]
    /\ UNCHANGED <<accepted, runs>>

AnswersNobody(t) ==
    /\ Closes(t) /\ \A c \in Programs : client[c].thread # t
    /\ UNCHANGED <<handed, client, accepted, runs>>

\* The requests go on as they are.
Local == Quiet /\ UNCHANGED thread

AsksAgent ==
    /\ Local /\ Calm /\ Stage("worker", "run")
    /\ client'["worker"].stage = "reply" /\ client'["worker"].thread = client["worker"].thread
    /\ client'["worker"].msg = client["worker"].msg
    /\ \A d \in Programs : d # "worker" => client'[d] = client[d]
    /\ runs'[client["worker"].msg] = runs[client["worker"].msg] + 1
    /\ \A i \in Ids : i # client["worker"].msg => runs'[i] = runs[i]
    /\ UNCHANGED <<handed, accepted>>

Injects ==
    /\ Local /\ client["injector"].stage \in {"inject", "notify", "give_up"}
    /\ client'["injector"].stage \in {"notify", "give_up"}
    /\ injected \subseteq injected'
    /\ client'["injector"].stage = "notify" => client["injector"].msg \in injected'
    /\ UNCHANGED <<faults, crashes, deadlettered>>
    /\ client'["injector"].thread = client["injector"].thread
    /\ client'["injector"].msg = client["injector"].msg
    /\ \A d \in Programs : d # "injector" => client'[d] = client[d]
    /\ UNCHANGED <<handed, accepted, runs>>

\* The injector is through with its message.
Concludes(c) ==
    /\ c = "injector"
    /\ \/ Stage(c, "notify") /\ UNCHANGED deadlettered
       \/ Stage(c, "give_up") /\ deadlettered' = deadlettered \union {client[c].msg}

Stops(c) ==
    /\ Local /\ client'[c] = Idle
    /\ \/ faults' = faults + 1 /\ UNCHANGED <<crashes, injected, deadlettered>>
       \/ Concludes(c) /\ UNCHANGED <<faults, crashes, injected>>
    /\ \A d \in Programs : d # c => client'[d] = client[d]
    /\ UNCHANGED <<handed, accepted, runs>>

Stutters == Local /\ Calm /\ UNCHANGED <<handed, client, accepted, runs>>

Crashes ==
    /\ \A t \in Threads : thread'[t].at = "idle" /\ ~Holds(t)'
    /\ RequeueAll /\ Distinct'
    /\ \A i \in Ids : ~Held(i)' /\ (InQueue(i)' <=> InQueue(i) \/ Held(i))
    /\ \A c \in Programs : client'[c] = IF client[c].thread # 0 THEN Idle ELSE client[c]
    /\ crashes' = crashes + 1
    /\ UNCHANGED <<rows, letter, settled, handed, accepted, runs, faults, injected, deadlettered>>

\* What a program does first with a message it received.
FirstStage(c) == IF c = "worker" THEN "run" ELSE "inject"

LEMMA NextCases ==
  ASSUME TypeOK, RequestInv, PlaceInv, [Next]_allVars
  PROVE  \/ \E t \in Threads : Served(t) \/ AnswersNobody(t)
         \/ \E t \in Threads, c \in Programs :
                \/ AsksToPut(t, c) \/ AsksToGet(t, c)
                \/ LearnsOfPut(t, c) \/ GetsNothing(t, c) \/ GetsMessage(t, c)
         \/ AsksAgent \/ Injects \/ (\E c \in Programs : Stops(c)) \/ Stutters \/ Crashes
<1>0. /\ thread \in [Threads -> Requests] /\ BrokerTypeOK /\ Distinct
      /\ handed \in [Ids -> Nat] /\ runs \in [Ids -> Nat] /\ client \in [Programs -> Hands]
  BY TypeParts DEF PlaceInv
<1>f. UNCHANGED <<ready, held>> =>
          Stays /\ \A u \in Threads : (Holds(u)' <=> Holds(u)) /\ Delivery(u)' = Delivery(u)
  BY <1>0, Frame DEF Stays
<1>q. UNCHANGED server => Quiet
  BY <1>f DEF Quiet, server
<1>n. UNCHANGED <<faults, crashes>> /\ UNCHANGED <<injected, deadlettered>> => Calm
  BY DEF Calm
<1>e. ASSUME NEW t \in Threads, UNCHANGED server, \A u \in Threads : u # t => thread'[u] = thread[u]
      PROVE  Others(t)
  BY <1>e, <1>f DEF Others, server
<1>p. {"sender", "worker", "injector"} \subseteq Programs /\ Pollers \subseteq Programs
      /\ "worker" \in Pollers /\ "injector" \in Pollers
  BY DEF Programs, Pollers
<1>r. ASSUME NEW c \in Programs, Rests(c)
      PROVE  client'[c] = Idle /\ \A d \in Programs : d # c => client'[d] = client[d]
  BY <1>0, <1>r, HandEffect
<1>c. ASSUME NEW t \in Threads, Free1(t), UNCHANGED server, Calm, thread[t].at \in Answers PROVE Closes(t)
  <2>1. thread'[t].at = "idle" /\ \A u \in Threads : u # t => thread'[u] = thread[u]
    BY <1>0, <1>c, FreeEffect
  <2> QED BY <1>c, <1>q, <1>e, <2>1 DEF Closes
<1>1. ASSUME NEW i \in Given, Send(i)
      PROVE  \E t \in Threads : AsksToPut(t, "sender")
  <2>1. PICK t \in Threads, b \in {HumanBox, WorkerBox} :
            /\ StartPut(t, i, [from |-> b, to |-> WorkerBox, re |-> 0])
            /\ client' = [client EXCEPT !["sender"] = [stage |-> "sending", thread |-> t, msg |-> i]]
    BY <1>1 DEF Send
  <2> DEFINE l == [from |-> b, to |-> WorkerBox, re |-> 0]
  <2>2. i \in Ids /\ l \in Letters /\ l.re = 0
    BY SendLetter DEF Ids
  <2> HIDE DEF l
  <2>3. StartPut(t, i, l)
    BY <2>1 DEF l
  <2>4. /\ thread[t].at = "idle" /\ thread'[t].at = "insert" /\ thread'[t].msg = i /\ thread'[t].mail = l
        /\ \A u \in Threads : u # t => thread'[u] = thread[u]
    BY <1>0, <2>2, <2>3, PutEffect
  <2>5. /\ client'["sender"].stage = "sending" /\ client'["sender"].thread = t
        /\ client'["sender"].msg = i
        /\ \A d \in Programs : d # "sender" => client'[d] = client[d]
    BY <1>0, <1>p, <2>1
  <2>6. UNCHANGED server /\ UNCHANGED <<handed, accepted, runs>> /\ Calm
    BY <1>1 DEF Send, outcome, Calm
  <2>7. Opens(t, "sender")
    BY <1>q, <1>e, <2>4, <2>5, <2>6 DEF Opens
  <2>8. client["sender"].stage = "idle"
    BY <1>1 DEF Send, IsIdle, Stage
  <2>9. l.from \in {HumanBox, WorkerBox} /\ l.to = WorkerBox
    BY DEF l
  <2>10. AsksToPut(t, "sender")
    BY <2>2, <2>4, <2>5, <2>7, <2>8, <2>9 DEF AsksToPut
  <2> QED BY <2>10
<1>2. ASSUME NEW c \in Programs, PutAnswered(c), Rests(c)
      PROVE  \E t \in Threads : LearnsOfPut(t, c)
  <2> DEFINE t == client[c].thread
  <2>1. t \in Threads
    BY <1>2, Waiting DEF PutAnswered, Stage
  <2>2. Closes(t)
    <3>1. Calm
      BY <1>2 DEF PutAnswered, outcome, Calm
    <3> QED BY <1>2, <1>c, <2>1, <3>1 DEF PutAnswered, Answers
  <2>3. /\ accepted' = IF At(t, "accepted") THEN accepted \union {thread[t].msg} ELSE accepted
        /\ thread[t].at # "message" /\ client[c].stage = "sending"
        /\ thread[t].at \in {"accepted", "refused", "error"}
        /\ UNCHANGED <<handed, runs>>
    BY <1>2 DEF PutAnswered, Stage, outcome
  <2>4. LearnsOfPut(t, c)
    BY <1>2, <1>r, <2>2, <2>3 DEF LearnsOfPut
  <2> QED BY <2>1, <2>4
<1>3. ASSUME NEW c \in Pollers, NEW b \in Boxes, b = BoxOf(c), Poll(c, b)
      PROVE  \E t \in Threads : AsksToGet(t, c)
  <2>1. PICK t \in Threads : StartGet(t, b) /\ Waits(c, "receiving", t)
    BY <1>3 DEF Poll
  <2>2. /\ thread[t].at = "idle" /\ thread'[t].at = "fetch" /\ thread'[t].box = b
        /\ \A u \in Threads : u # t => thread'[u] = thread[u]
    BY <1>0, <2>1, GetEffect
  <2>3. "receiving" \in ClientStages
    BY DEF ClientStages
  <2>4. /\ client'[c].stage = "receiving" /\ client'[c].thread = t
        /\ client'[c].msg = client[c].msg
        /\ \A d \in Programs : d # c => client'[d] = client[d]
    BY <1>0, <1>p, <2>1, <2>3, HandEffect
  <2>5. UNCHANGED server /\ UNCHANGED <<handed, accepted, runs>> /\ Calm /\ client[c].stage = "idle"
    BY <1>3 DEF Poll, outcome, Calm, IsIdle, Stage
  <2>6. Opens(t, c)
    BY <1>q, <1>e, <2>2, <2>4, <2>5 DEF Opens
  <2>7. AsksToGet(t, c)
    BY <1>3, <2>2, <2>4, <2>5, <2>6 DEF AsksToGet
  <2> QED BY <2>7
<1>4. ASSUME NEW c \in Pollers, NEW i \in Ids \union {0}, GetAnswered(c, i),
             IF i # 0 THEN \/ Rests(c) /\ c = "worker" /\ IsSelfAddressed(i)
                           \/ Holding(c, FirstStage(c), i) /\ (c = "worker" => ~IsSelfAddressed(i))
                      ELSE Rests(c)
      PROVE  \E t \in Threads : GetsNothing(t, c) \/ GetsMessage(t, c)
  <2> DEFINE t == client[c].thread
  <2>1. t \in Threads /\ client[c].stage = "receiving" /\ c \in Programs
    BY <1>4, <1>p, Waiting DEF GetAnswered, Stage
  <2>2. Closes(t)
    <3>1. Calm
      BY <1>4 DEF GetAnswered, outcome, Calm
    <3> QED BY <1>4, <1>c, <2>1, <3>1 DEF GetAnswered, Answers, At
  <2>3. UNCHANGED <<accepted, runs>>
    BY <1>4 DEF GetAnswered, outcome
  <2> DEFINE s == FirstStage(c)
  <2>r. /\ s \in ClientStages
        /\ \/ c = "worker" /\ s = "run"
           \/ c = "injector" /\ s = "inject"
    <3>1. CASE c = "worker"
      BY <3>1 DEF ClientStages, FirstStage
    <3>2. CASE c = "injector"
      BY <3>2 DEF ClientStages, FirstStage
    <3> QED BY <3>1, <3>2 DEF Pollers
  <2> HIDE DEF s
  <2>4. CASE At(t, "message") /\ i = thread[t].msg /\ handed' = [handed EXCEPT ![i] = @ + 1]
    <3>1. i \in Ids
      BY <2>1, <2>4 DEF RequestInv, Laden, At
    <3>2. handed'[thread[t].msg] = handed[thread[t].msg] + 1
          /\ \A j \in Ids : j # thread[t].msg => handed'[j] = handed[j]
      BY <1>0, <2>4, <3>1
    <3>d. \/ Rests(c) /\ c = "worker" /\ IsSelfAddressed(i)
          \/ Holding(c, s, i) /\ (c = "worker" => ~IsSelfAddressed(i))
      <4>1. i # 0
        BY <3>1, IdsAreNumbers
      <4> QED BY <1>4, <4>1 DEF s
    <3>3. CASE Rests(c) /\ c = "worker" /\ IsSelfAddressed(i)
      <4>1. GetsMessage(t, c)
        BY <1>r, <2>1, <2>2, <2>3, <2>4, <3>2, <3>3 DEF GetsMessage
      <4> QED BY <2>1, <4>1
    <3>4. CASE Holding(c, s, i) /\ (c = "worker" => ~IsSelfAddressed(i))
      <4>1. /\ client'[c].stage = s /\ client'[c].thread = 0 /\ client'[c].msg = i
            /\ \A d \in Programs : d # c => client'[d] = client[d]
        BY <1>0, <2>1, <2>r, <3>1, <3>4, HandEffect
      <4>2. GetsMessage(t, c)
        BY <2>r, <2>1, <2>2, <2>3, <2>4, <3>2, <3>4, <4>1 DEF GetsMessage
      <4> QED BY <2>1, <4>2
    <3> QED BY <3>d, <3>3, <3>4
  <2>5. CASE thread[t].at \in {"nothing", "error"} /\ i = 0 /\ UNCHANGED handed
    <3>1. GetsNothing(t, c)
      BY <1>4, <1>r, <2>1, <2>2, <2>3, <2>5 DEF GetsNothing
    <3> QED BY <2>1, <3>1
  <2> QED BY <1>4, <2>4, <2>5 DEF GetAnswered
<1>5. CASE WorkerStep
  <2>1. CASE Poll("worker", WorkerBox)
    BY <1>p, <1>3, <2>1, ClientAssumption DEF BoxOf
  <2>2. ASSUME NEW i \in Ids \union {0}, WorkerReceives(i)
        PROVE  \E t \in Threads : GetsNothing(t, "worker") \/ GetsMessage(t, "worker")
    <3>1. /\ GetAnswered("worker", i)
          /\ IF i = 0 \/ IsSelfAddressed(i) THEN Rests("worker") ELSE Holding("worker", "run", i)
      BY <2>2 DEF WorkerReceives
    <3>2. IF i # 0 THEN \/ Rests("worker") /\ IsSelfAddressed(i)
                        \/ Holding("worker", "run", i) /\ ~IsSelfAddressed(i)
                   ELSE Rests("worker")
      BY <3>1
    <3> QED BY <1>p, <1>4, <3>1, <3>2 DEF FirstStage
  <2>3. CASE RunAgent
    <3>1. client["worker"].msg \in Ids /\ "reply" \in ClientStages
      BY <1>p, <2>3 DEF RunAgent, RequestInv, Stage, ClientStages
    <3>2. runs'[client["worker"].msg] = runs[client["worker"].msg] + 1
          /\ \A i \in Ids : i # client["worker"].msg => runs'[i] = runs[i]
      BY <1>0, <2>3, <3>1 DEF RunAgent
    <3>3. /\ client'["worker"].stage = "reply" /\ client'["worker"].thread = client["worker"].thread
          /\ client'["worker"].msg = client["worker"].msg
          /\ \A d \in Programs : d # "worker" => client'[d] = client[d]
      BY <1>0, <1>p, <2>3, <3>1, HandEffect DEF RunAgent
    <3>4. Local /\ UNCHANGED <<handed, accepted>> /\ Stage("worker", "run") /\ Calm
      BY <1>q, <2>3 DEF RunAgent, Local, Calm
    <3>5. AsksAgent
      BY <3>2, <3>3, <3>4 DEF AsksAgent
    <3> QED BY <3>5
  <2>4. CASE SendReply
    <3>1. PICK t \in Threads, i \in Ids : /\ IsFresh(i)
                                         /\ StartPut(t, i, ReplyTo(client["worker"].msg))
                                         /\ Waits("worker", "sending", t)
      BY <2>4 DEF SendReply
    <3> DEFINE m == client["worker"].msg
               l == ReplyTo(client["worker"].msg)
    <3>2. Stage("worker", "reply") /\ m \in Ids /\ l \in Letters /\ l.re = m
      BY <2>4, ReplyLetter DEF SendReply
    <3>3. StartPut(t, i, l)
      BY <3>1
    <3> HIDE DEF l
    <3>4. /\ thread[t].at = "idle" /\ thread'[t].at = "insert" /\ thread'[t].msg = i /\ thread'[t].mail = l
          /\ \A u \in Threads : u # t => thread'[u] = thread[u]
      BY <1>0, <3>2, <3>3, PutEffect
    <3>5. "sending" \in ClientStages
      BY DEF ClientStages
    <3>6. /\ client'["worker"].stage = "sending" /\ client'["worker"].thread = t
          /\ client'["worker"].msg = client["worker"].msg
          /\ \A d \in Programs : d # "worker" => client'[d] = client[d]
      BY <1>0, <1>p, <3>1, <3>5, HandEffect
    <3>7. UNCHANGED server /\ UNCHANGED <<handed, accepted, runs>> /\ Calm
      BY <2>4 DEF SendReply, outcome, Calm
    <3>8. Opens(t, "worker")
      BY <1>q, <1>e, <3>4, <3>6, <3>7 DEF Opens
    <3>f. IsFresh(thread'[t].msg) /\ thread'[t].mail = ReplyTo(client["worker"].msg)
      BY <3>1, <3>4 DEF l
    <3>9. AsksToPut(t, "worker")
      BY <3>2, <3>4, <3>6, <3>8, <3>f DEF AsksToPut, Stage
    <3> QED BY <1>p, <3>9
  <2>5. CASE ReplyIsAnswered
    BY <1>p, <1>2, <2>5 DEF ReplyIsAnswered
  <2> QED BY <1>5, <1>p, <2>1, <2>2, <2>3, <2>4, <2>5 DEF WorkerStep
<1>6. CASE InjectorStep
  <2>s. "notify" \in ClientStages /\ "give_up" \in ClientStages
    BY DEF ClientStages
  <2>g. ASSUME NEW s \in {"notify", "give_up"}, Becomes("injector", s), UNCHANGED server,
               UNCHANGED <<thread, handed, accepted, runs>>, UNCHANGED <<faults, crashes, deadlettered>>,
               injected \subseteq injected', s = "notify" => client["injector"].msg \in injected',
               client["injector"].stage \in {"inject", "notify", "give_up"}
        PROVE  Injects
    <3>1. /\ client'["injector"].stage = s
          /\ client'["injector"].thread = client["injector"].thread
          /\ client'["injector"].msg = client["injector"].msg
          /\ \A d \in Programs : d # "injector" => client'[d] = client[d]
      BY <1>0, <1>p, <2>s, <2>g, HandEffect
    <3> QED BY <1>q, <2>g, <3>1 DEF Injects, Local
  <2>r. ASSUME Rests("injector"), UNCHANGED server, UNCHANGED <<thread, handed, accepted, runs>>,
               Concludes("injector"), UNCHANGED <<faults, crashes, injected>>
        PROVE  Stops("injector")
    BY <1>p, <1>q, <1>r, <2>r DEF Stops, Local
  <2>1. CASE Poll("injector", HumanBox)
    BY <1>p, <1>3, <2>1, ClientAssumption DEF BoxOf
  <2>2. ASSUME NEW i \in Ids \union {0}, InjectorReceives(i)
        PROVE  \E t \in Threads : GetsNothing(t, "injector") \/ GetsMessage(t, "injector")
    <3>1. /\ GetAnswered("injector", i)
          /\ IF i = 0 THEN Rests("injector") ELSE Holding("injector", "inject", i)
      BY <2>2 DEF InjectorReceives
    <3> QED BY <1>p, <1>4, <3>1 DEF FirstStage
  <2>3. CASE Inject
    <3>1. injected \subseteq injected' /\ Stage("injector", "inject")
          /\ \/ Becomes("injector", "notify") /\ client["injector"].msg \in injected'
             \/ Becomes("injector", "give_up")
      BY <2>3 DEF Inject
    <3>2. UNCHANGED server /\ UNCHANGED <<thread, handed, accepted, runs>>
          /\ UNCHANGED <<faults, crashes, deadlettered>>
      BY <2>3 DEF Inject
    <3> QED BY <2>g, <3>1, <3>2 DEF Stage
  <2>4. CASE Notify
    <3>1. UNCHANGED server /\ UNCHANGED <<thread, handed, accepted, runs>>
          /\ UNCHANGED <<faults, crashes, injected, deadlettered>> /\ Stage("injector", "notify")
      BY <2>4 DEF Notify, outcome
    <3>2. CASE Rests("injector")
      BY <1>p, <2>r, <3>1, <3>2 DEF Concludes
    <3>3. CASE Becomes("injector", "give_up")
      BY <2>g, <3>1, <3>3 DEF Stage
    <3> QED BY <2>4, <3>2, <3>3 DEF Notify
  <2>5. CASE GiveUp
    <3>1. UNCHANGED server /\ UNCHANGED <<thread, handed, accepted, runs>>
          /\ UNCHANGED <<faults, crashes, injected>> /\ Concludes("injector") /\ Rests("injector")
      BY <2>5 DEF GiveUp, Concludes
    <3> QED BY <1>p, <2>r, <3>1
  <2> QED BY <1>6, <1>p, <2>1, <2>2, <2>3, <2>4, <2>5 DEF InjectorStep
<1>7. ASSUME NEW t \in Threads, (Serve(t) \/ ServerFails(t)) /\ UNCHANGED clientVars
      PROVE  Served(t)
  <2>1. UNCHANGED handed
    BY <1>7 DEF Serve, PutMessage, GetMessage, InsertRow, PublishRow, MarkPublished,
               FetchMessage, MarkDelivered, AckMessage, ServerFails, PutFails, LoseConnection
  <2>2. UNCHANGED <<client, accepted, runs, injected, deadlettered>>
    BY <1>7 DEF clientVars
  <2> QED BY <1>7, <2>1, <2>2, ServerCases DEF Served
<1>8. ASSUME NEW t \in Threads, AnswerNobody(t) PROVE AnswersNobody(t)
  <2>1. Calm
    BY <1>8 DEF AnswerNobody, Calm, clientVars
  <2> QED BY <1>8, <1>c, <2>1 DEF AnswerNobody, AnswersNobody, clientVars
<1>9. ASSUME NEW c \in Programs, Die(c) PROVE Stops(c)
  <2>1. faults' = faults + 1 /\ UNCHANGED <<crashes, injected, deadlettered>>
    BY <1>9 DEF Die, Fault, outcome
  <2> QED BY <1>9, <1>r, <1>q, <2>1 DEF Die, Stops, Local, outcome
<1>10. CASE Crash
  <2>1. /\ Distinct' /\ \A t \in Threads : ~Holds(t)'
        /\ \A i \in Ids : InQueue(i)' <=> InQueue(i) \/ Held(i)
    BY <1>0, <1>10, RequeueAllEffect, MailboxAssumption DEF Crash, PlaceInv
  <2>2. \A i \in Ids : ~Held(i)'
    BY <2>1 DEF Held
  <2>3. \A t \in Threads : thread'[t].at = "idle"
    BY <1>10 DEF Crash, Free
  <2>4. \A c \in Programs : client'[c] = IF client[c].thread # 0 THEN Idle ELSE client[c]
    BY <1>10 DEF Crash
  <2>5. UNCHANGED <<rows, letter, settled, handed, accepted, runs, faults, injected, deadlettered>>
        /\ crashes' = crashes + 1 /\ RequeueAll
    BY <1>10 DEF Crash, outcome
  <2>6. Crashes
    BY <2>1, <2>2, <2>3, <2>4, <2>5 DEF Crashes
  <2> QED BY <2>6
<1>11. CASE UNCHANGED allVars
  <2>1. UNCHANGED server /\ UNCHANGED <<thread, handed, client, accepted, runs>> /\ Calm
    BY <1>11 DEF allVars, serverVars, clientVars, server, Calm
  <2>2. Stutters
    BY <1>q, <2>1 DEF Stutters, Local
  <2> QED BY <2>2
<1>12. CASE SenderIsAnswered
  BY <1>p, <1>2, <1>12 DEF SenderIsAnswered
<1> QED BY <1>p, <1>1, <1>5, <1>6, <1>7, <1>8, <1>9, <1>10, <1>11, <1>12 DEF Next, ThreadStep

-----------------------------------------------------------------------------
(* Requests and programs carry what they need.                             *)

Carries(t) ==
    /\ thread[t].at \in Laden => thread[t].msg \in Ids
    /\ At(t, "insert") => thread[t].mail \in Letters
    /\ At(t, "fetch") => thread[t].box \in Boxes
    /\ thread[t].at \in Publishing \union {"mark_delivered"} => rows[thread[t].msg] # "absent"
    /\ Holds(t) => thread[t].at \in {"mark_delivered", "ack"} /\ Delivery(t).payload = thread[t].msg

Works(c) ==
    /\ client[c].thread # 0 <=> client[c].stage \in {"receiving", "sending"}
    /\ client[c].stage \notin {"idle", "receiving"} => client[c].msg \in Ids

RowsAreComplete ==
    \A i \in Ids : /\ rows[i] # "absent" => letter[i] \in Letters
                   /\ Placed(i) => rows[i] # "absent"

ReplyIsDue == client["worker"].stage \in {"run", "reply", "sending"} => client["worker"].msg \in settled

LEMMA RequestParts ==
  RequestInv <=> /\ \A t \in Threads : Carries(t)
                 /\ \A c \in Programs : Works(c)
                 /\ RowsAreComplete /\ ReplyIsDue
BY DEF RequestInv, Carries, Works, RowsAreComplete, ReplyIsDue

\* A request nobody touches carries on, as long as no row disappears.
LEMMA CarriesOn ==
  ASSUME NEW u \in Threads, Carries(u), thread'[u] = thread[u],
         Holds(u)' <=> Holds(u), Delivery(u)' = Delivery(u),
         \A i \in Ids : rows[i] # "absent" => rows'[i] # "absent"
  PROVE  Carries(u)'
<1>1. thread[u].at \in Publishing \union {"mark_delivered"} => thread[u].msg \in Ids
  BY DEF Carries, Laden, Publishing, PutPoints
<1> QED BY <1>1 DEF Carries, At

LEMMA IdleIsIdle == Idle.stage = "idle" /\ Idle.thread = 0 /\ Idle.msg = 0
BY DEF Idle

\* What the cases have in common, when no message changes its place and no row changes.
LEMMA QuietRequest ==
  ASSUME RequestInv, Quiet, \A t \in Threads : Carries(t)',
         \A c \in Programs : Works(c)',
         client'["worker"].stage \in {"run", "reply", "sending"} => client'["worker"].msg \in settled
  PROVE  RequestInv'
<1>1. RowsAreComplete /\ RowsAreComplete'
  BY RequestParts DEF RowsAreComplete, Quiet, Stays, Placed
<1>2. ReplyIsDue'
  BY DEF ReplyIsDue, Quiet
<1>3. RequestInv' <=> (/\ \A t \in Threads : Carries(t)' /\ \A c \in Programs : Works(c)'
                       /\ RowsAreComplete' /\ ReplyIsDue')
  BY DEF RequestInv, Carries, Works, RowsAreComplete, ReplyIsDue
<1> QED BY <1>1, <1>2, <1>3

LEMMA ServedRequest ==
  ASSUME TypeOK, RequestInv, PlaceInv, NEW t \in Threads, Served(t)
  PROVE  RequestInv'
<1> USE DEF At
<1>0. /\ \A u \in Threads : Carries(u)
      /\ \A c \in Programs : Works(c)
      /\ RowsAreComplete /\ ReplyIsDue
  BY RequestParts
<1>1. UNCHANGED client
  BY DEF Served
<1>2. \A c \in Programs : Works(c)'
  BY <1>0, <1>1 DEF Works
<1>m. thread[t].at \in Laden => thread[t].msg \in Ids
  BY <1>0 DEF Carries
<1>c. /\ \A p \in PutPoints : p \in Laden
      /\ \A p \in {"mark_delivered", "ack", "accepted", "message"} : p \in Laden
      /\ \A p \in {"refused", "error", "nothing"} : p \notin Laden /\ p \notin Publishing
      /\ \A p \in {"mark_delivered", "ack", "accepted", "message"} : p \notin Publishing
      /\ \A p \in {"publish", "mark_queued", "mark_failed"} : p \in Publishing
      /\ "insert" \notin Publishing
  BY DEF Laden, Publishing, PutPoints
<1>s. ASSUME NEW i \in Ids, NEW s, SetsRow(i, s), s # "absent"
      PROVE  \A j \in Ids : rows[j] # "absent" => rows'[j] # "absent"
  BY <1>s DEF SetsRow
<1>3. (\A i \in Ids : rows[i] # "absent" => rows'[i] # "absent") /\ Carries(t)'
  <2>1. CASE Inserts(t)
    <3>1. thread[t].msg \in Ids
      BY <1>m, <1>c, <2>1 DEF Inserts, PutPoints
    <3>2. ~Holds(t)
      BY <1>0, <2>1 DEF Inserts, Carries
    <3>3. rows'[thread[t].msg] = "publishing"
      BY <2>1 DEF Inserts, SetsRow
    <3>4. Carries(t)'
      BY <1>c, <2>1, <3>1, <3>2, <3>3 DEF Inserts, Passes, Carries, Stays
    <3> QED BY <1>s, <2>1, <3>1, <3>4 DEF Inserts
  <2>2. CASE GivesUp(t)
    <3>1. ~Holds(t)' /\ rows' = rows
      BY <2>2 DEF GivesUp, Stays
    <3>2. thread'[t].at \in {"refused", "error", "nothing"}
      BY <2>2 DEF GivesUp, Passes
    <3> QED BY <1>c, <3>1, <3>2 DEF Carries
  <2>3. CASE Publishes(t)
    <3>1. ~Holds(t)' /\ rows' = rows /\ thread'[t].msg = thread[t].msg
      BY <2>3 DEF Publishes, Passes
    <3>2. thread'[t].at \in {"mark_queued", "mark_failed", "error"}
      BY <2>3 DEF Publishes, Passes
    <3>3. thread[t].msg \in Ids /\ rows[thread[t].msg] # "absent"
      BY <1>0, <1>m, <1>c, <2>3 DEF Publishes, Carries, PutPoints
    <3> QED BY <1>c, <3>1, <3>2, <3>3 DEF Carries
  <2>4. CASE Marks(t)
    <3>1. thread[t].msg \in Ids
      BY <1>m, <1>c, <2>4 DEF Marks, PutPoints
    <3>2. ~Holds(t)' /\ thread'[t].msg = thread[t].msg /\ thread'[t].at \in {"accepted", "error"}
      BY <2>4 DEF Marks, Stays, Passes
    <3>3. \A j \in Ids : rows[j] # "absent" => rows'[j] # "absent"
      BY <1>s, <2>4, <3>1 DEF Marks
    <3> QED BY <1>c, <3>1, <3>2, <3>3 DEF Carries
  <2>5. CASE Takes(t)
    <3>1. /\ Holds(t)' /\ Delivery(t)'.payload = thread'[t].msg /\ rows' = rows
          /\ thread'[t].at = "mark_delivered" /\ thread'[t].msg \in Ids
      BY <2>5 DEF Takes
    <3>2. rows[thread'[t].msg] # "absent"
      BY <1>0, <2>5 DEF Takes, RowsAreComplete, Placed
    <3> QED BY <1>c, <3>1, <3>2 DEF Carries
  <2>6. CASE Delivers(t)
    <3>1. thread[t].msg \in Ids
      BY <1>m, <1>c, <2>6 DEF Delivers
    <3>2. \A j \in Ids : rows[j] # "absent" => rows'[j] # "absent"
      BY <1>s, <2>6, <3>1 DEF Delivers
    <3>3. thread'[t].at = "ack" /\ thread'[t].msg = thread[t].msg
      BY <2>6 DEF Delivers, Passes
    <3>4. (Holds(t)' <=> Holds(t)) /\ Delivery(t)' = Delivery(t)
      BY <2>6 DEF Delivers, Stays
    <3>5. Carries(t)'
      BY <1>0, <1>c, <3>1, <3>3, <3>4 DEF Carries
    <3> QED BY <3>2, <3>5
  <2>7. CASE Returns(t)
    <3>1. ~Holds(t)' /\ rows' = rows /\ thread'[t].msg = thread[t].msg
      BY <2>7 DEF Returns, Passes
    <3>2. /\ thread'[t].at \in {"error", thread[t].at}
          /\ thread[t].at \in {"mark_delivered", "ack"}
      BY <2>7 DEF Returns, Passes
    <3> QED BY <1>0, <1>m, <1>c, <3>1, <3>2 DEF Carries
  <2>8. CASE Settles(t)
    <3>1. ~Holds(t)' /\ rows' = rows /\ thread'[t].msg = thread[t].msg
      BY <2>8 DEF Settles, Passes
    <3>2. thread'[t].at \in {"error", "message"} /\ thread[t].at = "ack"
      BY <2>8 DEF Settles, Passes
    <3> QED BY <1>m, <1>c, <3>1, <3>2 DEF Carries
  <2> QED BY <2>1, <2>2, <2>3, <2>4, <2>5, <2>6, <2>7, <2>8 DEF Served
<1>4. \A u \in Threads : Carries(u)'
  <2> TAKE u \in Threads
  <2>1. CASE u # t
    BY <1>0, <1>3, <2>1, CarriesOn DEF Served, Others
  <2> QED BY <1>3, <2>1
<1>5. RowsAreComplete' /\ settled \subseteq settled'
  <2>c. ASSUME \A i \in Ids : letter'[i] = letter[i] \/ letter'[i] \in Letters,
               \A i \in Ids : rows'[i] # "absent" => rows[i] # "absent" \/ letter'[i] \in Letters,
               \A i \in Ids : Placed(i)' => Placed(i) \/ rows[i] # "absent"
        PROVE  RowsAreComplete'
    BY <1>0, <1>3, <2>c DEF RowsAreComplete
  <2>p. ASSUME Stays, UNCHANGED settled PROVE \A i \in Ids : Placed(i)' => Placed(i)
    BY <2>p DEF Stays, Placed
  <2>r. ASSUME NEW i \in Ids, NEW s, SetsRow(i, s), rows[i] # "absent"
        PROVE  \A j \in Ids : rows'[j] # "absent" => rows[j] # "absent"
    BY <2>r DEF SetsRow
  <2>1. CASE Inserts(t)
    <3>1. thread[t].msg \in Ids /\ thread[t].mail \in Letters
      BY <1>0, <1>m, <1>c, <2>1 DEF Inserts, PutPoints, Carries
    <3> QED BY <2>1, <2>c, <2>p, <3>1 DEF Inserts, SetsRow
  <2>2. CASE GivesUp(t)
    BY <2>2, <2>c, <2>p DEF GivesUp
  <2>3. CASE Publishes(t)
    <3>1. rows[thread[t].msg] # "absent"
      BY <1>0, <1>c, <2>3 DEF Publishes, Carries
    <3>2. \A i \in Ids : Placed(i)' => Placed(i) \/ i = thread[t].msg
      BY <2>3 DEF Publishes, Placed
    <3> QED BY <2>3, <2>c, <3>1, <3>2 DEF Publishes
  <2>4. CASE Marks(t)
    <3>1. thread[t].msg \in Ids /\ rows[thread[t].msg] # "absent"
      BY <1>0, <1>m, <1>c, <2>4 DEF Marks, Carries, PutPoints
    <3>2. \A j \in Ids : rows'[j] # "absent" => rows[j] # "absent"
      BY <2>4, <2>r, <3>1 DEF Marks
    <3> QED BY <2>4, <2>c, <2>p, <3>2 DEF Marks
  <2>5. CASE Takes(t)
    <3>1. \A i \in Ids : Placed(i)' => Placed(i)
      BY <2>5 DEF Takes, Placed
    <3> QED BY <2>5, <2>c, <3>1 DEF Takes
  <2>6. CASE Delivers(t)
    <3>1. thread[t].msg \in Ids
      BY <1>m, <1>c, <2>6 DEF Delivers
    <3>2. rows[thread[t].msg] # "absent"
      BY <1>0, <2>6 DEF Delivers, Carries
    <3>3. \A j \in Ids : rows'[j] # "absent" => rows[j] # "absent"
      BY <2>6, <2>r, <3>1, <3>2 DEF Delivers
    <3> QED BY <2>6, <2>c, <2>p, <3>3 DEF Delivers
  <2>7. CASE Returns(t)
    <3>1. thread[t].msg \in Ids /\ Held(thread[t].msg)
      BY <2>7, HeldMessage DEF Returns
    <3>2. \A i \in Ids : Placed(i)' => Placed(i)
      BY <2>7, <3>1 DEF Returns, Placed
    <3> QED BY <2>7, <2>c, <3>2 DEF Returns
  <2>8. CASE Settles(t)
    <3>1. thread[t].msg \in Ids /\ Held(thread[t].msg)
      BY <2>8, HeldMessage DEF Settles
    <3>2. \A i \in Ids : Placed(i)' => Placed(i)
      BY <2>8, <3>1 DEF Settles, Placed
    <3> QED BY <2>8, <2>c, <3>2 DEF Settles
  <2> QED BY <2>1, <2>2, <2>3, <2>4, <2>5, <2>6, <2>7, <2>8 DEF Served
<1>6. ReplyIsDue'
  BY <1>0, <1>1, <1>5 DEF ReplyIsDue
<1>7. RequestInv' <=> (/\ \A u \in Threads : Carries(u)' /\ \A c \in Programs : Works(c)'
                       /\ RowsAreComplete' /\ ReplyIsDue')
  BY DEF RequestInv, Carries, Works, RowsAreComplete, ReplyIsDue
<1> QED BY <1>2, <1>4, <1>5, <1>6, <1>7

LEMMA RequestNext ==
  ASSUME TypeOK, RequestInv, PlaceInv, HandInv, [Next]_allVars
  PROVE  RequestInv'
<1> USE DEF At
<1>0. /\ \A u \in Threads : Carries(u)
      /\ \A c \in Programs : Works(c)
      /\ RowsAreComplete /\ ReplyIsDue
  BY RequestParts
<1>p. {"sender", "worker", "injector"} \subseteq Programs /\ Pollers \subseteq Programs
      /\ "worker" \in Pollers /\ "injector" \in Pollers /\ 0 \notin Threads
  BY DEF Programs, Pollers, Threads
<1>c. /\ "insert" \in Laden /\ "insert" \notin Publishing
      /\ "fetch" \notin Laden /\ "fetch" \notin Publishing
      /\ "idle" \notin Laden /\ "idle" \notin Publishing
      /\ "message" \in Laden
      /\ "insert" # "mark_delivered" /\ "fetch" # "mark_delivered" /\ "idle" # "mark_delivered"
  BY DEF Laden, Publishing, PutPoints
<1>o. ASSUME NEW t \in Threads, Others(t), Quiet, Carries(t)' PROVE \A u \in Threads : Carries(u)'
  <2> TAKE u \in Threads
  <2>1. CASE u # t
    BY <1>0, <1>o, <2>1, CarriesOn DEF Others, Quiet
  <2> QED BY <1>o, <2>1
<1>a. ASSUME NEW t \in Threads, Closes(t) PROVE \A u \in Threads : Carries(u)'
  <2>1. ~Holds(t)'
    BY <1>0, <1>a DEF Closes, Quiet, Stays, Carries, Answers
  <2>2. Carries(t)'
    BY <1>a, <1>c, <2>1 DEF Closes, Carries
  <2> QED BY <1>a, <1>o, <2>2 DEF Closes
<1>w. ASSUME NEW c \in Programs, client'[c] = Idle, \A d \in Programs : d # c => client'[d] = client[d]
      PROVE  (\A d \in Programs : Works(d)')
             /\ (client'["worker"].stage \in {"run", "reply", "sending"} => client'["worker"].msg \in settled)
  <2>1. Works(c)'
    BY <1>w, IdleIsIdle DEF Works
  <2>2. \A d \in Programs : Works(d)'
    BY <1>0, <1>w, <2>1 DEF Works
  <2>3. client'["worker"].stage \in {"run", "reply", "sending"} => client'["worker"].msg \in settled
    BY <1>0, <1>p, <1>w, IdleIsIdle DEF ReplyIsDue
  <2> QED BY <2>2, <2>3
<1>l. ASSUME Local PROVE \A u \in Threads : Carries(u)'
  BY <1>0, <1>l DEF Local, Quiet, Stays, Carries
<1>1. ASSUME NEW t \in Threads, Served(t) PROVE RequestInv'
  BY <1>1, ServedRequest
<1>2. ASSUME NEW t \in Threads, AnswersNobody(t) PROVE RequestInv'
  <2>1. \A d \in Programs : Works(d)'
    BY <1>0, <1>2 DEF AnswersNobody, Works
  <2>2. ReplyIsDue /\ UNCHANGED client /\ Closes(t) /\ Quiet
    BY <1>0, <1>2 DEF AnswersNobody, Closes
  <2> QED BY <1>a, <2>1, <2>2, QuietRequest DEF ReplyIsDue
<1>3. ASSUME NEW t \in Threads, NEW c \in Programs, AsksToPut(t, c) PROVE RequestInv'
  <2>1. Quiet /\ Others(t) /\ ~Holds(t)'
    BY <1>0, <1>3 DEF AsksToPut, Opens, Quiet, Stays, Carries
  <2>2. Carries(t)'
    BY <1>3, <1>c, <2>1 DEF AsksToPut, Carries
  <2>3. Works(c)'
    BY <1>3, <1>p DEF AsksToPut, Opens, Works
  <2>4. \A d \in Programs : d # c => client'[d] = client[d]
    BY <1>3 DEF AsksToPut, Opens
  <2>5. \A d \in Programs : Works(d)'
    BY <1>0, <2>3, <2>4 DEF Works
  <2>6. client'["worker"].stage \in {"run", "reply", "sending"} => client'["worker"].msg \in settled
    <3>1. CASE c = "worker"
      BY <1>0, <1>3, <3>1 DEF AsksToPut, ReplyIsDue
    <3>2. CASE c # "worker"
      BY <1>0, <1>p, <2>4, <3>2 DEF ReplyIsDue
    <3> QED BY <3>1, <3>2
  <2> QED BY <1>o, <2>1, <2>2, <2>5, <2>6, QuietRequest
<1>4. ASSUME NEW t \in Threads, NEW c \in Programs, AsksToGet(t, c) PROVE RequestInv'
  <2>1. Quiet /\ Others(t) /\ ~Holds(t)'
    BY <1>0, <1>4 DEF AsksToGet, Opens, Quiet, Stays, Carries
  <2>2. Carries(t)'
    BY <1>4, <1>c, <2>1 DEF AsksToGet, Carries
  <2>3. Works(c)'
    BY <1>4, <1>p DEF AsksToGet, Opens, Works
  <2>4. \A d \in Programs : d # c => client'[d] = client[d]
    BY <1>4 DEF AsksToGet, Opens
  <2>5. \A d \in Programs : Works(d)'
    BY <1>0, <2>3, <2>4 DEF Works
  <2>6. client'["worker"].stage \in {"run", "reply", "sending"} => client'["worker"].msg \in settled
    <3>1. CASE c = "worker"
      BY <1>0, <1>4, <3>1 DEF AsksToGet, ReplyIsDue
    <3>2. CASE c # "worker"
      BY <1>0, <1>p, <2>4, <3>2 DEF ReplyIsDue
    <3> QED BY <3>1, <3>2
  <2> QED BY <1>o, <2>1, <2>2, <2>5, <2>6, QuietRequest
<1>5. ASSUME NEW t \in Threads, NEW c \in Programs, LearnsOfPut(t, c) \/ GetsNothing(t, c)
      PROVE  RequestInv'
  <2>1. Closes(t) /\ Quiet /\ client'[c] = Idle /\ \A d \in Programs : d # c => client'[d] = client[d]
    BY <1>5 DEF LearnsOfPut, GetsNothing, Closes
  <2> QED BY <1>a, <1>w, <2>1, QuietRequest
<1>6. ASSUME NEW t \in Threads, NEW c \in Programs, GetsMessage(t, c) PROVE RequestInv'
  <2>1. Closes(t) /\ Quiet /\ \A d \in Programs : d # c => client'[d] = client[d]
    BY <1>6 DEF GetsMessage, Closes
  <2>2. CASE client'[c] = Idle
    BY <1>a, <1>w, <2>1, <2>2, QuietRequest
  <2>3. CASE client'[c].thread = 0 /\ client'[c].msg = thread[t].msg
             /\ client'[c].stage \in {"run", "inject"}
    <3>1. thread[t].msg \in Ids /\ thread[t].msg \in settled
      BY <1>0, <1>6, <1>c DEF GetsMessage, Carries, HandInv
    <3>2. Works(c)'
      BY <2>3, <3>1 DEF Works
    <3>3. \A d \in Programs : Works(d)'
      BY <1>0, <2>1, <3>2 DEF Works
    <3>4. client'["worker"].stage \in {"run", "reply", "sending"} => client'["worker"].msg \in settled
      <4>1. CASE c = "worker"
        BY <2>3, <3>1, <4>1
      <4>2. CASE c # "worker"
        BY <1>0, <1>p, <2>1, <4>2 DEF ReplyIsDue
      <4> QED BY <4>1, <4>2
    <3> QED BY <1>a, <2>1, <3>3, <3>4, QuietRequest
  <2> QED BY <1>6, <2>2, <2>3 DEF GetsMessage
<1>7. CASE AsksAgent
  <2>1. Local /\ Quiet /\ \A d \in Programs : d # "worker" => client'[d] = client[d]
    BY <1>7 DEF AsksAgent, Local
  <2>2. /\ client["worker"].stage = "run" /\ client'["worker"].stage = "reply"
        /\ client'["worker"].thread = client["worker"].thread
        /\ client'["worker"].msg = client["worker"].msg
    BY <1>7 DEF AsksAgent, Stage
  <2>3. Works("worker")'
    BY <1>0, <1>p, <2>2 DEF Works
  <2>4. \A d \in Programs : Works(d)'
    BY <1>0, <2>1, <2>3 DEF Works
  <2> QED BY <1>0, <1>l, <2>1, <2>2, <2>4, QuietRequest DEF ReplyIsDue
<1>8. CASE Injects
  <2>1. Local /\ Quiet /\ \A d \in Programs : d # "injector" => client'[d] = client[d]
    BY <1>8 DEF Injects, Local
  <2>2. /\ client["injector"].stage \in {"inject", "notify", "give_up"}
        /\ client'["injector"].stage \in {"notify", "give_up"}
        /\ client'["injector"].thread = client["injector"].thread
        /\ client'["injector"].msg = client["injector"].msg
    BY <1>8 DEF Injects
  <2>3. Works("injector")'
    BY <1>0, <1>p, <2>2 DEF Works
  <2>4. \A d \in Programs : Works(d)'
    BY <1>0, <2>1, <2>3 DEF Works
  <2>5. client'["worker"] = client["worker"]
    BY <1>p, <2>1
  <2> QED BY <1>0, <1>l, <2>1, <2>4, <2>5, QuietRequest DEF ReplyIsDue
<1>9. ASSUME NEW c \in Programs, Stops(c) PROVE RequestInv'
  <2>1. Local /\ Quiet
    BY <1>9 DEF Stops, Local
  <2> QED BY <1>9, <1>l, <1>w, <2>1, QuietRequest DEF Stops
<1>10. CASE Stutters
  <2>1. Local /\ Quiet /\ client' = client
    BY <1>10 DEF Stutters, Local
  <2>2. \A d \in Programs : Works(d)'
    BY <1>0, <2>1 DEF Works
  <2> QED BY <1>0, <1>l, <2>1, <2>2, QuietRequest DEF ReplyIsDue
<1>11. CASE Crashes
  <2>1. \A u \in Threads : Carries(u)'
    BY <1>11, <1>c DEF Crashes, Carries
  <2>2. \A d \in Programs : Works(d)'
    BY <1>0, <1>11, IdleIsIdle DEF Crashes, Works
  <2>3. RowsAreComplete'
    BY <1>0, <1>11 DEF Crashes, RowsAreComplete, Placed
  <2>4. ReplyIsDue'
    BY <1>0, <1>11, <1>p, IdleIsIdle DEF Crashes, ReplyIsDue
  <2> QED BY <2>1, <2>2, <2>3, <2>4 DEF RequestInv, Carries, Works, RowsAreComplete, ReplyIsDue
<1> QED BY <1>1, <1>2, <1>3, <1>4, <1>5, <1>6, <1>7, <1>8, <1>9, <1>10, <1>11, NextCases

-----------------------------------------------------------------------------
(* A message is in one place.                                              *)

HeldOnce ==
    \A t, u \in Threads : Holds(t) /\ Holds(u) /\ Delivery(t).payload = Delivery(u).payload => t = u

OnePlace ==
    \A i \in Ids : ~(InQueue(i) /\ Held(i)) /\ (i \in settled => ~InQueue(i) /\ ~Held(i))

NowhereYet == \A t \in Threads : At(t, "publish") => ~Placed(thread[t].msg)

PublishedAlone ==
    \A t, u \in Threads :
        {thread[t].at, thread[u].at} \subseteq Publishing /\ thread[t].msg = thread[u].msg => t = u

LEMMA PlaceParts == PlaceInv <=> Distinct /\ HeldOnce /\ OnePlace /\ NowhereYet /\ PublishedAlone
BY DEF PlaceInv, HeldOnce, OnePlace, NowhereYet, PublishedAlone

\* No message moves, and no request is about to publish that was not before.
LEMMA PlaceStays ==
  ASSUME PlaceInv, Stays, UNCHANGED settled, RequestInv,
         \A t \in Threads : thread'[t].at \in Publishing =>
             thread[t].at = thread'[t].at /\ thread[t].msg = thread'[t].msg
  PROVE  PlaceInv'
<1>1. HeldOnce' /\ OnePlace' /\ Distinct'
  BY DEF PlaceInv, HeldOnce, OnePlace, Stays
<1>2. NowhereYet'
  <2> SUFFICES ASSUME NEW t \in Threads, thread'[t].at = "publish" PROVE ~Placed(thread[t].msg)' 
                      /\ thread'[t].msg = thread[t].msg
    BY DEF NowhereYet, At, Placed, InQueue, Held
  <2>1. thread[t].at = "publish" /\ thread'[t].msg = thread[t].msg
    BY DEF Publishing
  <2>2. thread[t].msg \in Ids /\ ~Placed(thread[t].msg)
    BY <2>1 DEF PlaceInv, At, RequestInv, Laden, PutPoints
  <2> QED BY <2>1, <2>2 DEF Stays, Placed
<1>3. PublishedAlone'
  BY DEF PlaceInv, PublishedAlone
<1> QED BY <1>1, <1>2, <1>3 DEF PlaceInv, HeldOnce, OnePlace, NowhereYet, PublishedAlone

LEMMA ServedPlace ==
  ASSUME TypeOK, RequestInv, PlaceInv, NEW t \in Threads, Served(t)
  PROVE  PlaceInv'
<1> USE DEF At
<1>0. Distinct /\ HeldOnce /\ OnePlace /\ NowhereYet /\ PublishedAlone
  BY PlaceParts
<1>i. PlaceInv' <=> Distinct' /\ HeldOnce' /\ OnePlace' /\ NowhereYet' /\ PublishedAlone'
  BY DEF PlaceInv, HeldOnce, OnePlace, NowhereYet, PublishedAlone
<1>o. \A u \in Threads : u # t =>
          thread'[u] = thread[u] /\ (Holds(u)' <=> Holds(u)) /\ Delivery(u)' = Delivery(u)
  BY DEF Served, Others
<1>m. \A u \in Threads : thread[u].at \in Laden => thread[u].msg \in Ids
  BY DEF RequestInv
<1>c. /\ \A p \in Publishing : p \in Laden
      /\ \A p \in {"refused", "error", "nothing", "accepted", "mark_delivered", "ack", "message"} : p \notin Publishing
      /\ "publish" \in Publishing /\ "mark_queued" \in Publishing /\ "mark_failed" \in Publishing
      /\ "insert" \in Laden /\ "mark_delivered" \in Laden /\ "ack" \in Laden
  BY DEF Laden, Publishing, PutPoints
<1>b. \A u \in Threads : thread[u].at \in Publishing => rows[thread[u].msg] # "absent"
  BY DEF RequestInv
<1>d. \A u \in Threads : Holds(u) =>
          Delivery(u).payload = thread[u].msg /\ thread[u].msg \in Ids /\ Held(thread[u].msg)
  BY HeldMessage
\* A step that does not begin to publish keeps publications apart.
<1>a. ASSUME thread'[t].at \in Publishing => thread[t].at \in Publishing /\ thread'[t].msg = thread[t].msg
      PROVE  PublishedAlone'
  BY <1>0, <1>a, <1>o DEF PublishedAlone
<1>n. ASSUME thread'[t].at # "publish",
             \A i \in Ids : (\E u \in Threads : u # t /\ thread[u].at = "publish" /\ thread[u].msg = i)
                            /\ ~Placed(i) => ~Placed(i)'
      PROVE  NowhereYet'
  <2> SUFFICES ASSUME NEW u \in Threads, thread'[u].at = "publish"
               PROVE  /\ thread'[u].msg \in Ids
                      /\ \A i \in Ids : i = thread'[u].msg => ~Placed(i)'
    BY DEF NowhereYet, Placed, InQueue, Held
  <2>1. u # t /\ thread'[u] = thread[u]
    BY <1>n, <1>o
  <2>2. thread[u].msg \in Ids /\ ~Placed(thread[u].msg)
    BY <1>0, <1>m, <1>c, <2>1 DEF NowhereYet
  <2> QED BY <1>n, <2>1, <2>2
<1>1. CASE Inserts(t)
  <2> DEFINE i == thread[t].msg
  <2>1. i \in Ids /\ ~Placed(i) /\ Stays /\ UNCHANGED settled /\ rows[i] = "absent"
    BY <1>1, <1>m, <1>c DEF Inserts, RequestInv
  <2>2. thread'[t].at = "publish" /\ thread'[t].msg = i
    BY <1>1 DEF Inserts, Passes
  <2>3. \A u \in Threads : thread[u].at \in Publishing => thread[u].msg # i
    BY <1>b, <2>1
  <2>4. Distinct' /\ HeldOnce' /\ OnePlace'
    BY <1>0, <2>1 DEF HeldOnce, OnePlace, Stays
  <2>5. \A j \in Ids : Placed(j)' <=> Placed(j)
    BY <2>1 DEF Stays, Placed
  <2>6. NowhereYet'
    <3> SUFFICES ASSUME NEW u \in Threads, thread'[u].at = "publish"
                 PROVE  thread'[u].msg \in Ids /\ ~Placed(thread'[u].msg)
      BY <2>5 DEF NowhereYet, Placed, InQueue, Held
    <3>1. CASE u = t
      BY <2>1, <2>2, <3>1
    <3>2. CASE u # t
      BY <1>0, <1>o, <1>m, <1>c, <3>2 DEF NowhereYet
    <3> QED BY <3>1, <3>2
  <2>7. PublishedAlone'
    <3> SUFFICES ASSUME NEW u \in Threads, NEW v \in Threads,
                        thread'[u].at \in Publishing, thread'[v].at \in Publishing,
                        thread'[u].msg = thread'[v].msg
                 PROVE  u = v
      BY DEF PublishedAlone
    <3>1. CASE u = t \/ v = t
      BY <1>o, <2>2, <2>3, <3>1
    <3>2. CASE u # t /\ v # t
      BY <1>0, <1>o, <3>2 DEF PublishedAlone
    <3> QED BY <3>1, <3>2
  <2> QED BY <1>i, <2>4, <2>6, <2>7
<1>2. CASE GivesUp(t) \/ Marks(t) \/ Delivers(t)
  <2>1. Stays /\ UNCHANGED settled
    BY <1>2 DEF GivesUp, Marks, Delivers
  <2>2. thread'[t].at \notin Publishing
    BY <1>2, <1>c DEF GivesUp, Marks, Delivers, Passes
  <2> QED BY <1>o, <2>1, <2>2, PlaceStays
<1>3. CASE Publishes(t)
  <2> DEFINE i == thread[t].msg
  <2>1. i \in Ids /\ ~Placed(i) /\ UNCHANGED settled /\ thread[t].at = "publish"
    BY <1>3, <1>0, <1>m, <1>c DEF Publishes, NowhereYet
  <2>2. \A u \in Threads : u # t /\ thread[u].at = "publish" => thread[u].msg # i
    BY <1>0, <1>c, <2>1 DEF PublishedAlone
  <2>3. Distinct' /\ HeldOnce'
    BY <1>0, <1>3 DEF Publishes, HeldOnce
  <2>4. \A j \in Ids : /\ Held(j)' <=> Held(j)
                       /\ InQueue(j)' => InQueue(j) \/ j = i
    BY <1>3 DEF Publishes
  <2>5. OnePlace'
    BY <1>0, <2>1, <2>4 DEF OnePlace, Placed
  <2>6. thread'[t].at # "publish" /\ thread'[t].msg = thread[t].msg
    BY <1>3 DEF Publishes, Passes
  <2>7. NowhereYet'
    BY <1>n, <2>1, <2>2, <2>4, <2>6 DEF Placed
  <2>8. PublishedAlone'
    BY <1>a, <1>c, <2>1, <2>6
  <2> QED BY <1>i, <2>3, <2>5, <2>7, <2>8
<1>4. CASE Takes(t)
  <2>1. PICK h \in Ids : h = thread'[t].msg
    BY <1>4 DEF Takes
  <2>2. /\ InQueue(h) /\ Distinct' /\ ~Holds(t) /\ Delivery(t)'.payload = h /\ UNCHANGED settled
        /\ \A i \in Ids : /\ InQueue(i)' <=> InQueue(i) /\ i # h
                          /\ Held(i)' <=> Held(i) \/ i = h
    BY <1>4, <2>1 DEF Takes
  <2>3. ~Held(h) /\ h \notin settled
    BY <1>0, <2>2 DEF OnePlace
  <2>4. HeldOnce'
    <3> SUFFICES ASSUME NEW u \in Threads, NEW v \in Threads, Holds(u)', Holds(v)',
                        Delivery(u)'.payload = Delivery(v)'.payload
                 PROVE  u = v
      BY DEF HeldOnce
    <3>1. \A w \in Threads : w # t /\ Holds(w) => Delivery(w).payload # h
      BY <1>d, <2>3
    <3> QED BY <1>0, <1>o, <2>2, <3>1 DEF HeldOnce
  <2>5. OnePlace'
    BY <1>0, <2>2, <2>3 DEF OnePlace
  <2>6. NowhereYet'
    <3>1. \A i \in Ids : Placed(i)' => Placed(i)
      BY <2>2 DEF Placed
    <3>2. thread'[t].at # "publish"
      BY <1>4 DEF Takes
    <3> QED BY <1>n, <3>1, <3>2
  <2>7. PublishedAlone'
    BY <1>a, <1>c, <1>4 DEF Takes
  <2> QED BY <1>i, <2>2, <2>4, <2>5, <2>6, <2>7
<1>5. CASE Returns(t)
  <2>1. PICK m \in Ids : m = thread[t].msg
    BY <1>5, <1>d DEF Returns
  <2>2. /\ Distinct' /\ Holds(t) /\ ~Holds(t)' /\ UNCHANGED settled
        /\ \A i \in Ids : /\ Held(i)' <=> Held(i) /\ i # m
                          /\ InQueue(i)' <=> InQueue(i) \/ i = m
    BY <1>5, <2>1 DEF Returns
  <2>3. Held(m) /\ m \notin settled
    BY <1>0, <1>d, <2>1, <2>2 DEF OnePlace
  <2>4. HeldOnce'
    BY <1>0, <1>o, <2>2 DEF HeldOnce
  <2>5. OnePlace'
    BY <1>0, <2>2, <2>3 DEF OnePlace
  <2>6. thread'[t].at \notin Publishing /\ thread'[t].at # "publish"
    BY <1>5, <1>c DEF Returns, Passes
  <2>7. NowhereYet'
    <3>1. \A i \in Ids : Placed(i)' => Placed(i)
      BY <2>2, <2>3 DEF Placed
    <3> QED BY <1>n, <2>6, <3>1
  <2>8. PublishedAlone'
    BY <1>a, <2>6
  <2> QED BY <1>i, <2>2, <2>4, <2>5, <2>7, <2>8
<1>6. CASE Settles(t)
  <2>1. PICK m \in Ids : m = thread[t].msg
    BY <1>6, <1>d DEF Settles
  <2>2. /\ Distinct' /\ Holds(t) /\ ~Holds(t)' /\ settled' = settled \union {m}
        /\ \A i \in Ids : /\ Held(i)' <=> Held(i) /\ i # m
                          /\ InQueue(i)' <=> InQueue(i)
    BY <1>6, <2>1 DEF Settles
  <2>3. Held(m) /\ ~InQueue(m)
    BY <1>0, <1>d, <2>1, <2>2 DEF OnePlace
  <2>4. HeldOnce'
    BY <1>0, <1>o, <2>2 DEF HeldOnce
  <2>5. OnePlace'
    BY <1>0, <2>2, <2>3 DEF OnePlace
  <2>6. thread'[t].at \notin Publishing /\ thread'[t].at # "publish"
    BY <1>6, <1>c DEF Settles, Passes
  <2>7. NowhereYet'
    <3>1. \A i \in Ids : Placed(i)' => Placed(i)
      BY <2>2, <2>3 DEF Placed
    <3> QED BY <1>n, <2>6, <3>1
  <2>8. PublishedAlone'
    BY <1>a, <2>6
  <2> QED BY <1>i, <2>2, <2>4, <2>5, <2>7, <2>8
<1> QED BY <1>1, <1>2, <1>3, <1>4, <1>5, <1>6 DEF Served

LEMMA PlaceNext ==
  ASSUME TypeOK, RequestInv, PlaceInv, [Next]_allVars
  PROVE  PlaceInv'
<1>1. ASSUME NEW t \in Threads, Others(t), Quiet, thread'[t].at \in {"idle", "insert", "fetch"}
      PROVE  PlaceInv'
  <2>1. thread'[t].at \notin Publishing
    BY <1>1 DEF Publishing
  <2> QED BY <1>1, <2>1, PlaceStays DEF Others, Quiet
<1>2. ASSUME Local PROVE PlaceInv'
  BY <1>2, PlaceStays DEF Local, Quiet
<1>3. CASE Crashes
  <2>1. HeldOnce' /\ Distinct' /\ PublishedAlone' /\ NowhereYet'
    BY <1>3 DEF Crashes, HeldOnce, PublishedAlone, NowhereYet, At, Publishing
  <2>2. OnePlace'
    BY <1>3 DEF Crashes, OnePlace, PlaceInv
  <2> QED BY <2>1, <2>2 DEF PlaceInv, HeldOnce, OnePlace, NowhereYet, PublishedAlone
<1>4. ASSUME NEW t \in Threads, Closes(t) PROVE PlaceInv'
  BY <1>1, <1>4 DEF Closes
<1>5. ASSUME NEW t \in Threads, NEW c \in Programs, AsksToPut(t, c) \/ AsksToGet(t, c) PROVE PlaceInv'
  BY <1>1, <1>5 DEF AsksToPut, AsksToGet, Opens
<1> QED BY <1>2, <1>3, <1>4, <1>5, NextCases, ServedPlace
    DEF AnswersNobody, LearnsOfPut, GetsNothing, GetsMessage, AsksAgent, Injects, Stops, Stutters

-----------------------------------------------------------------------------
(* A message is handed out once.                                           *)

LEMMA HandNext ==
  ASSUME TypeOK, RequestInv, PlaceInv, HandInv, [Next]_allVars
  PROVE  HandInv'
<1> USE DEF At
<1>0. /\ handed \in [Ids -> Nat] /\ settled \subseteq Ids
      /\ \A i \in Ids : handed[i] <= 1 /\ (handed[i] > 0 => i \in settled)
      /\ \A t \in Threads : thread[t].at = "message" =>
             /\ thread[t].msg \in Ids /\ thread[t].msg \in settled /\ handed[thread[t].msg] = 0
             /\ \A u \in Threads : thread[u].at = "message" /\ thread[u].msg = thread[t].msg => u = t
  BY TypeParts DEF HandInv, HandedOnce, RequestInv, Laden
\* Nobody is handed anything, and no request gets a message it did not have.
<1>f. ASSUME UNCHANGED handed, settled \subseteq settled',
             \A t \in Threads : thread'[t].at = "message" =>
                 thread[t].at = "message" /\ thread[t].msg = thread'[t].msg
      PROVE  HandInv'
  BY <1>0, <1>f DEF HandInv, HandedOnce
<1>1. ASSUME NEW t \in Threads, Served(t) PROVE HandInv'
  <2>o. UNCHANGED handed /\ \A u \in Threads : u # t => thread'[u] = thread[u]
    BY <1>1 DEF Served, Others
  <2>1. CASE Settles(t) /\ thread'[t].at = "message"
    <3> DEFINE m == thread[t].msg
    <3>1. m \in Ids /\ m \notin settled /\ settled' = settled \union {m} /\ thread'[t].msg = m
      BY <2>1, HeldMessage DEF Settles, Passes
    <3>2. handed[m] = 0
      BY <1>0, <3>1
    <3>3. \A u \in Threads : u # t /\ thread'[u].at = "message" => thread[u].at = "message" /\ thread'[u].msg # m
      BY <1>0, <2>o, <3>1
    <3>4. \A u \in Threads : thread'[u].at = "message" =>
              /\ thread'[u].msg \in settled' /\ handed[thread'[u].msg] = 0
              /\ \A v \in Threads : thread'[v].at = "message" /\ thread'[v].msg = thread'[u].msg => v = u
      BY <1>0, <2>o, <3>1, <3>2, <3>3
    <3>5. \A i \in Ids : handed[i] <= 1 /\ (handed[i] > 0 => i \in settled')
      BY <1>0, <3>1
    <3> QED BY <2>o, <3>4, <3>5 DEF HandInv, HandedOnce
  <2>2. CASE thread'[t].at # "message"
    <3>1. settled \subseteq settled'
      BY <1>1 DEF Served, Inserts, GivesUp, Publishes, Marks, Takes, Delivers, Returns, Settles
    <3> QED BY <1>f, <2>o, <2>2, <3>1
  <2>3. thread'[t].at = "message" => Settles(t)
    BY <1>1 DEF Served, Inserts, GivesUp, Publishes, Marks, Takes, Delivers, Returns, Passes
  <2> QED BY <2>1, <2>2, <2>3
<1>2. ASSUME NEW t \in Threads, NEW c \in Programs, GetsMessage(t, c) PROVE HandInv'
  <2> DEFINE m == thread[t].msg
  <2>1. /\ thread[t].at = "message" /\ thread'[t].at = "idle" /\ UNCHANGED settled
        /\ \A u \in Threads : u # t => thread'[u] = thread[u]
    BY <1>2 DEF GetsMessage, Closes, Quiet, Others
  <2>2. m \in Ids /\ m \in settled /\ handed[m] = 0
    BY <1>0, <2>1
  <2>3. handed'[m] = 1 /\ \A i \in Ids : i # m => handed'[i] = handed[i]
    BY <1>2, <2>2 DEF GetsMessage
  <2>4. \A i \in Ids : handed'[i] <= 1 /\ (handed'[i] > 0 => i \in settled)
    <3> TAKE i \in Ids
    <3>1. CASE i = m
      BY <2>2, <2>3, <3>1
    <3>2. CASE i # m
      BY <1>0, <2>3, <3>2
    <3> QED BY <3>1, <3>2
  <2>5. \A u \in Threads : thread'[u].at = "message" =>
            u # t /\ thread[u].at = "message" /\ thread'[u] = thread[u] /\ thread[u].msg # m
    BY <1>0, <2>1
  <2>6. \A u \in Threads : thread'[u].at = "message" =>
            /\ thread'[u].msg \in settled /\ handed'[thread'[u].msg] = 0
            /\ \A v \in Threads : thread'[v].at = "message" /\ thread'[v].msg = thread'[u].msg => v = u
    BY <1>0, <2>3, <2>5
  <2> QED BY <2>1, <2>4, <2>6 DEF HandInv, HandedOnce
<1>3. ASSUME NEW t \in Threads, Closes(t), UNCHANGED handed PROVE HandInv'
  BY <1>3, <1>f DEF Closes, Quiet, Others
<1>4. ASSUME NEW t \in Threads, NEW c \in Programs, AsksToPut(t, c) \/ AsksToGet(t, c) PROVE HandInv'
  BY <1>4, <1>f DEF AsksToPut, AsksToGet, Opens, Quiet, Others
<1>5. ASSUME Local, UNCHANGED handed PROVE HandInv'
  BY <1>5, <1>f DEF Local, Quiet
<1>6. CASE Crashes
  BY <1>6, <1>f DEF Crashes
<1> QED BY <1>1, <1>2, <1>3, <1>4, <1>5, <1>6, NextCases
    DEF AnswersNobody, LearnsOfPut, GetsNothing, AsksAgent, Injects, Stops, Stutters

-----------------------------------------------------------------------------
(* What was confirmed stays.                                               *)

\* A message that is in a queue, in a hand or settled never disappears.
LEMMA PlacedStays ==
  ASSUME TypeOK, RequestInv, PlaceInv, [Next]_allVars
  PROVE  \A i \in Ids : Placed(i) => Placed(i)'
<1>1. ASSUME Stays, UNCHANGED settled PROVE \A i \in Ids : Placed(i) => Placed(i)'
  BY <1>1 DEF Stays, Placed
<1>q. ASSUME Quiet PROVE \A i \in Ids : Placed(i) => Placed(i)'
  BY <1>1, <1>q DEF Quiet
<1>2. ASSUME NEW t \in Threads, Served(t) PROVE \A i \in Ids : Placed(i) => Placed(i)'
  <2>1. CASE Inserts(t) \/ GivesUp(t) \/ Marks(t) \/ Delivers(t)
    BY <1>1, <2>1 DEF Inserts, GivesUp, Marks, Delivers
  <2>2. CASE Publishes(t)
    BY <2>2 DEF Publishes, Placed
  <2>3. CASE Takes(t)
    BY <2>3 DEF Takes, Placed
  <2>4. CASE Returns(t)
    BY <2>4 DEF Returns, Placed
  <2>5. CASE Settles(t)
    BY <2>5 DEF Settles, Placed
  <2> QED BY <1>2, <2>1, <2>2, <2>3, <2>4, <2>5 DEF Served
<1>3. CASE Crashes
  BY <1>3 DEF Crashes, Placed
<1> QED BY <1>q, <1>2, <1>3, NextCases
    DEF AnswersNobody, LearnsOfPut, GetsNothing, GetsMessage, AsksAgent, Injects, Stops, Stutters,
        AsksToPut, AsksToGet, Opens, Closes, Local

IsFine(i) == Placed(i) /\ rows[i] \in {"queued", "delivered"}

LEMMA KeptParts ==
  KeptInv <=> /\ \A i \in accepted : IsFine(i)
              /\ \A t \in Threads : At(t, "mark_queued") => Placed(thread[t].msg)
              /\ \A t \in Threads : At(t, "accepted") => IsFine(thread[t].msg)
              /\ \A t, u \in Threads : thread[t].at \in Publishing /\ At(u, "accepted") =>
                     thread[t].msg # thread[u].msg
              /\ \A t \in Threads : thread[t].at \in Publishing => thread[t].msg \notin accepted
BY DEF KeptInv, AcceptedIsKept, IsFine, Placed, Held

\* Rows of confirmed messages stay as they are, and no request comes nearer to a confirmation.
LEMMA KeptStays ==
  ASSUME TypeOK, RequestInv, KeptInv, UNCHANGED accepted,
         \A i \in Ids : IsFine(i) => IsFine(i)', \A i \in Ids : Placed(i) => Placed(i)',
         \A t \in Threads : thread'[t].at \in Publishing \union {"accepted"} =>
             thread[t].at = thread'[t].at /\ thread[t].msg = thread'[t].msg
  PROVE  KeptInv'
<1> USE DEF At
<1>0. /\ \A i \in accepted : i \in Ids /\ IsFine(i)
      /\ \A t \in Threads : thread[t].at = "mark_queued" => Placed(thread[t].msg)
      /\ \A t \in Threads : thread[t].at = "accepted" => IsFine(thread[t].msg)
      /\ \A t, u \in Threads : thread[t].at \in Publishing /\ thread[u].at = "accepted" =>
             thread[t].msg # thread[u].msg
      /\ \A t \in Threads : thread[t].at \in Publishing => thread[t].msg \notin accepted
  BY KeptParts, TypeParts
<1>1. \A t \in Threads : thread[t].at \in Publishing \union {"accepted"} => thread[t].msg \in Ids
  BY DEF RequestInv, Laden, Publishing, PutPoints
<1>2. \A i \in accepted' : IsFine(i)'
  BY <1>0
<1>3. \A t \in Threads : thread'[t].at = "mark_queued" =>
          thread[t].at = "mark_queued" /\ thread'[t].msg \in Ids /\ \A i \in Ids : i = thread'[t].msg => Placed(i)'
  BY <1>0, <1>1 DEF Publishing
<1>4. \A t \in Threads : thread'[t].at = "accepted" =>
          thread'[t].msg \in Ids /\ \A i \in Ids : i = thread'[t].msg => IsFine(i)'
  BY <1>0, <1>1
<1>5. /\ \A t, u \in Threads : thread'[t].at \in Publishing /\ thread'[u].at = "accepted" =>
             thread'[t].msg # thread'[u].msg
      /\ \A t \in Threads : thread'[t].at \in Publishing => thread'[t].msg \notin accepted'
  BY <1>0
<1>6. \A t \in Threads : thread'[t].at = "mark_queued" => Placed(thread[t].msg)'
  BY <1>3 DEF Placed, InQueue, Held
<1>7. \A t \in Threads : thread'[t].at = "accepted" => IsFine(thread[t].msg)'
  BY <1>4 DEF IsFine, Placed, InQueue, Held
<1> QED BY <1>2, <1>5, <1>6, <1>7 DEF KeptInv, AcceptedIsKept, IsFine, Placed, Held

LEMMA KeptNext ==
  ASSUME TypeOK, RequestInv, PlaceInv, KeptInv, [Next]_allVars
  PROVE  KeptInv'
<1> USE DEF At
<1>0. /\ \A i \in accepted : i \in Ids /\ IsFine(i)
      /\ \A t \in Threads : thread[t].at = "mark_queued" => Placed(thread[t].msg)
      /\ \A t \in Threads : thread[t].at = "accepted" => IsFine(thread[t].msg)
      /\ \A t, u \in Threads : thread[t].at \in Publishing /\ thread[u].at = "accepted" =>
             thread[t].msg # thread[u].msg
      /\ \A t \in Threads : thread[t].at \in Publishing => thread[t].msg \notin accepted
  BY KeptParts, TypeParts
<1>1. \A t \in Threads : thread[t].at \in Publishing \union {"accepted"} => thread[t].msg \in Ids
  BY DEF RequestInv, Laden, Publishing, PutPoints
<1>p. \A i \in Ids : Placed(i) => Placed(i)'
  BY PlacedStays
<1>r. ASSUME UNCHANGED rows PROVE \A i \in Ids : IsFine(i) => IsFine(i)'
  BY <1>p, <1>r DEF IsFine
<1>k. KeptInv' <=>
          /\ \A i \in accepted' : IsFine(i)'
          /\ \A t \in Threads : thread'[t].at = "mark_queued" => Placed(thread[t].msg)'
          /\ \A t \in Threads : thread'[t].at = "accepted" => IsFine(thread[t].msg)'
          /\ \A t, u \in Threads : thread'[t].at \in Publishing /\ thread'[u].at = "accepted" =>
                 thread'[t].msg # thread'[u].msg
          /\ \A t \in Threads : thread'[t].at \in Publishing => thread'[t].msg \notin accepted'
  BY DEF KeptInv, AcceptedIsKept, IsFine, Placed, Held
<1>c. "publish" \in Publishing /\ "mark_queued" \in Publishing /\ "mark_failed" \in Publishing
      /\ \A p \in {"refused", "error", "nothing", "accepted", "mark_delivered", "ack", "message",
                   "idle", "insert", "fetch"} : p \notin Publishing
  BY DEF Publishing
<1>2. ASSUME NEW t \in Threads, Served(t) PROVE KeptInv'
  <2>o. UNCHANGED accepted /\ \A u \in Threads : u # t => thread'[u] = thread[u]
    BY <1>2 DEF Served, Others
  <2>1. CASE Inserts(t)
    <3>1. PICK m \in Ids : m = thread[t].msg
      BY <2>1 DEF Inserts, RequestInv, Laden, PutPoints
    <3>2. /\ rows[m] = "absent" /\ rows'[m] = "publishing" /\ \A j \in Ids : j # m => rows'[j] = rows[j]
          /\ thread'[t].at = "publish" /\ thread'[t].msg = m
      BY <2>1, <3>1 DEF Inserts, SetsRow, Passes
    <3>3. \A i \in Ids : IsFine(i) => i # m /\ IsFine(i)'
      BY <1>p, <3>2 DEF IsFine
    <3>4. \A i \in accepted' : IsFine(i)'
      BY <1>0, <2>o, <3>3
    <3>5. \A u \in Threads : thread'[u].at \in Publishing \union {"accepted"} /\ u # t =>
              thread'[u] = thread[u] /\ thread[u].msg \in Ids
      BY <1>1, <2>o
    <3>6. \A u \in Threads : thread'[u].at = "mark_queued" =>
              thread'[u].msg \in Ids /\ \A i \in Ids : i = thread'[u].msg => Placed(i)'
      BY <1>0, <1>c, <1>p, <3>2, <3>5
    <3>7. \A u \in Threads : thread'[u].at = "accepted" =>
              thread'[u].msg \in Ids /\ thread'[u].msg # m /\ \A i \in Ids : i = thread'[u].msg => IsFine(i)'
      BY <1>0, <3>2, <3>3, <3>5
    <3>8. \A u, v \in Threads : thread'[u].at \in Publishing /\ thread'[v].at = "accepted" =>
              thread'[u].msg # thread'[v].msg
      BY <1>0, <3>2, <3>5, <3>7
    <3>9. \A u \in Threads : thread'[u].at \in Publishing => thread'[u].msg \notin accepted'
      BY <1>0, <2>o, <3>2, <3>3, <3>5
    <3>10. \A u \in Threads : thread'[u].at = "mark_queued" => Placed(thread[u].msg)'
      BY <3>6 DEF Placed, InQueue, Held
    <3>11. \A u \in Threads : thread'[u].at = "accepted" => IsFine(thread[u].msg)'
      BY <3>7 DEF IsFine, Placed, InQueue, Held
    <3> QED BY <1>k, <3>4, <3>8, <3>9, <3>10, <3>11
  <2>2. CASE GivesUp(t) \/ Takes(t) \/ Returns(t) \/ Settles(t)
    <3>1. UNCHANGED rows
      BY <2>2 DEF GivesUp, Takes, Returns, Settles
    <3>2. thread'[t].at \notin Publishing \union {"accepted"}
      BY <2>2, <1>c DEF GivesUp, Takes, Returns, Settles, Passes
    <3> QED BY <1>p, <1>r, <2>o, <3>1, <3>2, KeptStays
  <2>3. CASE Publishes(t)
    <3>1. PICK m \in Ids : m = thread[t].msg
      BY <1>1, <1>c, <2>3 DEF Publishes
    <3>2. /\ UNCHANGED rows /\ thread[t].at = "publish" /\ thread'[t].msg = m
          /\ thread'[t].at \in {"mark_queued", "mark_failed", "error"}
          /\ (thread'[t].at = "mark_queued" => Placed(m)')
      BY <2>3, <3>1 DEF Publishes, Passes, Placed
    <3>3. \A i \in accepted' : IsFine(i)'
      BY <1>0, <1>r, <2>o, <3>2
    <3>5. \A u \in Threads : thread'[u].at \in Publishing \union {"accepted"} /\ u # t =>
              thread'[u] = thread[u] /\ thread[u].msg \in Ids
      BY <1>1, <2>o
    <3>6. \A u \in Threads : thread'[u].at = "mark_queued" =>
              thread'[u].msg \in Ids /\ \A i \in Ids : i = thread'[u].msg => Placed(i)'
      BY <1>0, <1>c, <1>p, <3>2, <3>5
    <3>7. \A u \in Threads : thread'[u].at = "accepted" =>
              u # t /\ thread'[u].msg \in Ids /\ \A i \in Ids : i = thread'[u].msg => IsFine(i)'
      BY <1>0, <1>r, <3>2, <3>5
    <3>8. \A u, v \in Threads : thread'[u].at \in Publishing /\ thread'[v].at = "accepted" =>
              thread'[u].msg # thread'[v].msg
      BY <1>0, <1>c, <3>1, <3>2, <3>5, <3>7
    <3>9. \A u \in Threads : thread'[u].at \in Publishing => thread'[u].msg \notin accepted'
      BY <1>0, <1>c, <2>o, <3>1, <3>2, <3>5
    <3>10. \A u \in Threads : thread'[u].at = "mark_queued" => Placed(thread[u].msg)'
      BY <3>6 DEF Placed, InQueue, Held
    <3>11. \A u \in Threads : thread'[u].at = "accepted" => IsFine(thread[u].msg)'
      BY <3>7 DEF IsFine, Placed, InQueue, Held
    <3> QED BY <1>k, <3>3, <3>8, <3>9, <3>10, <3>11
  <2>4. CASE Marks(t)
    <3>1. PICK m \in Ids : m = thread[t].msg
      BY <1>1, <1>c, <2>4 DEF Marks
    <3>2. /\ thread[t].at \in {"mark_queued", "mark_failed"} /\ thread'[t].msg = m
          /\ \A j \in Ids : j # m => rows'[j] = rows[j]
          /\ thread'[t].at \in {"accepted", "error"}
          /\ (thread'[t].at = "accepted" => thread[t].at = "mark_queued" /\ rows'[m] = "queued")
      BY <2>4, <3>1 DEF Marks, SetsRow, Passes
    <3>m. m \notin accepted /\ \A u \in Threads : thread[u].at = "accepted" => thread[u].msg # m
      BY <1>0, <1>c, <3>1, <3>2
    <3>3. \A i \in Ids : i # m /\ IsFine(i) => IsFine(i)'
      BY <1>p, <3>2 DEF IsFine
    <3>4. \A i \in accepted' : IsFine(i)'
      BY <1>0, <2>o, <3>3, <3>m
    <3>5. \A u \in Threads : thread'[u].at \in Publishing \union {"accepted"} /\ u # t =>
              thread'[u] = thread[u] /\ thread[u].msg \in Ids
      BY <1>1, <2>o
    <3>f. thread'[t].at = "accepted" => IsFine(m)'
      BY <1>0, <1>p, <3>1, <3>2 DEF IsFine
    <3>6. \A u \in Threads : thread'[u].at = "mark_queued" =>
              thread'[u].msg \in Ids /\ \A i \in Ids : i = thread'[u].msg => Placed(i)'
      BY <1>0, <1>c, <1>p, <3>2, <3>5
    <3>7. \A u \in Threads : thread'[u].at = "accepted" =>
              thread'[u].msg \in Ids /\ \A i \in Ids : i = thread'[u].msg => IsFine(i)'
      BY <1>0, <3>2, <3>3, <3>m, <3>5, <3>f
    <3>a. \A u \in Threads : u # t /\ thread[u].at \in Publishing => thread[u].msg # m
      BY <1>c, <3>1, <3>2 DEF PlaceInv
    <3>8. \A u, v \in Threads : thread'[u].at \in Publishing /\ thread'[v].at = "accepted" =>
              thread'[u].msg # thread'[v].msg
      BY <1>0, <1>c, <3>2, <3>5, <3>a
    <3>9. \A u \in Threads : thread'[u].at \in Publishing => thread'[u].msg \notin accepted'
      BY <1>0, <1>c, <2>o, <3>2, <3>5
    <3>10. \A u \in Threads : thread'[u].at = "mark_queued" => Placed(thread[u].msg)'
      BY <3>6 DEF Placed, InQueue, Held
    <3>11. \A u \in Threads : thread'[u].at = "accepted" => IsFine(thread[u].msg)'
      BY <3>7 DEF IsFine, Placed, InQueue, Held
    <3> QED BY <1>k, <3>4, <3>8, <3>9, <3>10, <3>11
  <2>5. CASE Delivers(t)
    <3>1. \A i \in Ids : IsFine(i) => IsFine(i)'
      BY <1>p, <2>5 DEF Delivers, SetsRow, IsFine
    <3>2. thread'[t].at \notin Publishing \union {"accepted"}
      BY <2>5, <1>c DEF Delivers, Passes
    <3> QED BY <1>p, <2>o, <3>1, <3>2, KeptStays
  <2> QED BY <1>2, <2>1, <2>2, <2>3, <2>4, <2>5 DEF Served
<1>3. ASSUME Quiet, UNCHANGED accepted,
             \A t \in Threads : thread'[t].at \in Publishing \union {"accepted"} => thread'[t] = thread[t]
      PROVE  KeptInv'
  BY <1>3, <1>p, <1>r, KeptStays DEF Quiet
<1>4. ASSUME NEW t \in Threads, NEW c \in Programs, LearnsOfPut(t, c) PROVE KeptInv'
  <2>1. /\ UNCHANGED rows /\ thread'[t].at = "idle" /\ \A u \in Threads : u # t => thread'[u] = thread[u]
        /\ accepted' = IF thread[t].at = "accepted" THEN accepted \union {thread[t].msg} ELSE accepted
    BY <1>4 DEF LearnsOfPut, Closes, Quiet, Others
  <2>2. CASE thread[t].at # "accepted"
    <3>1. Quiet /\ UNCHANGED accepted
      BY <1>4, <2>1, <2>2 DEF LearnsOfPut, Closes
    <3> QED BY <1>3, <1>c, <2>1, <3>1
  <2>3. CASE thread[t].at = "accepted"
    <3>1. PICK m \in Ids : m = thread[t].msg
      BY <1>1, <2>3
    <3>2. IsFine(m) /\ \A i \in Ids : IsFine(i) => IsFine(i)'
      BY <1>0, <1>r, <2>1, <2>3, <3>1
    <3>3. \A i \in accepted' : IsFine(i)'
      BY <1>0, <2>1, <2>3, <3>1, <3>2
    <3>5. \A u \in Threads : thread'[u].at \in Publishing \union {"accepted"} =>
              u # t /\ thread'[u] = thread[u] /\ thread[u].msg \in Ids
      BY <1>1, <1>c, <2>1
    <3>6. \A u \in Threads : thread'[u].at = "mark_queued" =>
              thread'[u].msg \in Ids /\ \A i \in Ids : i = thread'[u].msg => Placed(i)'
      BY <1>0, <1>c, <1>p, <3>5
    <3>7. \A u \in Threads : thread'[u].at = "accepted" =>
              thread'[u].msg \in Ids /\ \A i \in Ids : i = thread'[u].msg => IsFine(i)'
      BY <1>0, <3>2, <3>5
    <3>8. \A u, v \in Threads : thread'[u].at \in Publishing /\ thread'[v].at = "accepted" =>
              thread'[u].msg # thread'[v].msg
      BY <1>0, <3>5
    <3>9. \A u \in Threads : thread'[u].at \in Publishing => thread'[u].msg \notin accepted'
      BY <1>0, <2>1, <2>3, <3>5
    <3>10. \A u \in Threads : thread'[u].at = "mark_queued" => Placed(thread[u].msg)'
      BY <3>6 DEF Placed, InQueue, Held
    <3>11. \A u \in Threads : thread'[u].at = "accepted" => IsFine(thread[u].msg)'
      BY <3>7 DEF IsFine, Placed, InQueue, Held
    <3> QED BY <1>k, <3>3, <3>8, <3>9, <3>10, <3>11
  <2> QED BY <2>2, <2>3
<1>5. ASSUME NEW t \in Threads, Closes(t), UNCHANGED accepted PROVE KeptInv'
  BY <1>5, <1>3, <1>c DEF Closes, Others
<1>6. ASSUME NEW t \in Threads, NEW c \in Programs, AsksToPut(t, c) \/ AsksToGet(t, c) PROVE KeptInv'
  BY <1>6, <1>3, <1>c DEF AsksToPut, AsksToGet, Opens, Others
<1>7. ASSUME Local, UNCHANGED accepted PROVE KeptInv'
  BY <1>7, <1>3 DEF Local
<1>8. CASE Crashes
  BY <1>8, <1>c, <1>p, <1>r, KeptStays DEF Crashes
<1> QED BY <1>2, <1>4, <1>5, <1>6, <1>7, <1>8, NextCases
    DEF AnswersNobody, GetsNothing, GetsMessage, AsksAgent, Injects, Stops, Stutters

-----------------------------------------------------------------------------
(* A message is answered once.                                             *)

LEMMA ReplyNext ==
  ASSUME TypeOK, RequestInv, PlaceInv, HandInv, ReplyInv, [Next]_allVars
  PROVE  ReplyInv'
<1> USE DEF At
<1> DEFINE w == client["worker"]
<1>0. /\ \A i \in Ids : runs[i] \in Nat /\ runs[i] <= 1 /\ handed[i] \in Nat
      /\ \A i, j, k \in Ids : letter[j].re = i /\ letter[k].re = i => j = k
      /\ \A i \in Ids : runs[i] > 0 \/ Replying(i) \/ Replied(i) => handed[i] > 0
      /\ \A i \in Ids : ~(Replying(i) /\ Replied(i))
      /\ \A t, u \in Threads : (/\ thread[t].at = "insert" /\ thread[u].at = "insert"
                                /\ thread[t].mail.re = thread[u].mail.re /\ thread[t].mail.re # 0) => t = u
      /\ w.stage \in {"run", "reply"} =>
             handed[w.msg] > 0 /\ ~Replying(w.msg) /\ ~Replied(w.msg) /\ w.msg \in Ids
      /\ w.stage = "run" => runs[w.msg] = 0
  <2>1. w.stage \in {"run", "reply"} => w.msg \in Ids
    BY DEF RequestInv, Programs, Pollers
  <2>2. \A i \in Ids : runs[i] \in Nat /\ handed[i] \in Nat
    BY TypeParts
  <2>3. /\ \A i \in Ids : runs[i] <= 1
        /\ \A i, j, k \in Ids : letter[j].re = i /\ letter[k].re = i => j = k
    BY DEF ReplyInv, AnsweredOnce
  <2>4. \A i \in Ids : (runs[i] > 0 \/ Replying(i) \/ Replied(i) => handed[i] > 0) /\ ~(Replying(i) /\ Replied(i))
    BY DEF ReplyInv
  <2>5. \A t, u \in Threads : (/\ thread[t].at = "insert" /\ thread[u].at = "insert"
                               /\ thread[t].mail.re = thread[u].mail.re /\ thread[t].mail.re # 0) => t = u
    BY DEF ReplyInv
  <2>6. w.stage \in {"run", "reply"} => handed[w.msg] > 0 /\ ~Replying(w.msg) /\ ~Replied(w.msg)
    BY DEF ReplyInv
  <2>7. w.stage = "run" => runs[w.msg] = 0
    BY DEF ReplyInv, Stage
  <2> HIDE DEF w
  <2> QED BY <2>1, <2>2, <2>3, <2>4, <2>5, <2>6, <2>7
<1>n. 0 \notin Ids
  BY IdsAreNumbers
<1>k. ASSUME \A i \in Ids : runs'[i] <= 1,
             \A i, j, k \in Ids : letter'[j].re = i /\ letter'[k].re = i => j = k,
             \A i \in Ids : runs'[i] > 0 \/ Replying(i)' \/ Replied(i)' => handed'[i] > 0,
             \A i \in Ids : ~(Replying(i)' /\ Replied(i)'),
             \A t, u \in Threads : (/\ thread'[t].at = "insert" /\ thread'[u].at = "insert"
                                    /\ thread'[t].mail.re = thread'[u].mail.re /\ thread'[t].mail.re # 0)
                                   => t = u,
             w'.stage \in {"run", "reply"} => /\ w'.msg \in Ids /\ handed'[w'.msg] > 0
                                              /\ \A i \in Ids : i = w'.msg => ~Replying(i)' /\ ~Replied(i)',
             w'.stage = "run" => runs'[w'.msg] = 0
      PROVE  ReplyInv'
  <2>1. w'.stage \in {"run", "reply"} => ~Replying(w.msg)' /\ ~Replied(w.msg)'
    BY <1>k DEF Replying, Replied
  <2>2. AnsweredOnce'
    BY <1>k DEF AnsweredOnce
  <2> QED BY <1>k, <2>1, <2>2 DEF ReplyInv, Stage
\* Nothing is asked, sent or written down, and the worker does not begin anything.
<1>f. ASSUME UNCHANGED <<letter, runs>>, \A i \in Ids : handed'[i] \in Nat /\ handed'[i] >= handed[i],
             \A t \in Threads : thread'[t].at = "insert" =>
                 thread[t].at = "insert" /\ thread[t].mail = thread'[t].mail,
             w'.stage \in {"run", "reply"} => w' = w
      PROVE  ReplyInv'
  <2>1. \A i \in Ids : (Replying(i)' => Replying(i)) /\ (Replied(i)' <=> Replied(i))
    BY <1>f DEF Replying, Replied
  <2>2. \A i \in Ids : handed[i] > 0 => handed'[i] > 0
    BY <1>0, <1>f
  <2> HIDE DEF w
  <2>4. \A i \in Ids : runs'[i] <= 1
    BY <1>0, <1>f
  <2>5. \A i, j, k \in Ids : letter'[j].re = i /\ letter'[k].re = i => j = k
    BY <1>0, <1>f
  <2>6. \A i \in Ids : runs'[i] > 0 \/ Replying(i)' \/ Replied(i)' => handed'[i] > 0
    BY <1>0, <1>f, <2>1, <2>2
  <2>7. \A i \in Ids : ~(Replying(i)' /\ Replied(i)')
    BY <1>0, <2>1
  <2>8. \A t, u \in Threads : (/\ thread'[t].at = "insert" /\ thread'[u].at = "insert"
                               /\ thread'[t].mail.re = thread'[u].mail.re /\ thread'[t].mail.re # 0)
                              => t = u
    BY <1>0, <1>f
  <2>9. w'.stage \in {"run", "reply"} => /\ w'.msg \in Ids /\ handed'[w'.msg] > 0
                                         /\ \A i \in Ids : i = w'.msg => ~Replying(i)' /\ ~Replied(i)'
    BY <1>0, <1>f, <2>1, <2>2
  <2>10. w'.stage = "run" => runs'[w'.msg] = 0
    BY <1>0, <1>f
  <2> QED BY <1>k, <2>4, <2>5, <2>6, <2>7, <2>8, <2>9, <2>10
<1>h. \A i \in Ids : handed[i] >= handed[i]
  BY <1>0
<1>1. ASSUME NEW t \in Threads, Served(t) PROVE ReplyInv'
  <2>o. UNCHANGED <<handed, client, runs>> /\ \A u \in Threads : u # t => thread'[u] = thread[u]
    BY <1>1 DEF Served, Others
  <2>1. CASE ~Inserts(t)
    <3>1. UNCHANGED letter /\ thread'[t].at # "insert"
      BY <1>1, <2>1 DEF Served, GivesUp, Publishes, Marks, Takes, Delivers, Returns, Settles, Passes
    <3> QED BY <1>0, <1>f, <1>h, <2>o, <3>1
  <2>2. CASE Inserts(t)
    <3> DEFINE r == thread[t].mail.re
    <3>1. PICK m \in Ids : m = thread[t].msg
      BY <2>2 DEF Inserts, RequestInv, Laden, PutPoints
    <3>2. /\ thread[t].at = "insert" /\ thread'[t].at = "publish"
          /\ letter'[m] = thread[t].mail /\ \A j \in Ids : j # m => letter'[j] = letter[j]
      BY <2>2, <3>1 DEF Inserts, Passes
    <3>3. r \in Ids => Replying(r) /\ ~Replied(r) /\ handed[r] > 0
      BY <1>0, <3>2 DEF Replying
    <3>4. \A i \in Ids : /\ Replied(i)' => Replied(i) \/ i = r
                         /\ Replying(i)' => Replying(i) /\ i # r
      <4> TAKE i \in Ids
      <4>1. Replied(i)' => Replied(i) \/ i = r
        BY <3>2 DEF Replied
      <4>2. Replying(i)' => Replying(i) /\ i # r
        <5> SUFFICES ASSUME NEW u \in Threads, thread'[u].at = "insert", thread'[u].mail.re = i
                     PROVE  Replying(i) /\ i # r
          BY DEF Replying
        <5>1. u # t /\ thread'[u] = thread[u]
          BY <2>o, <3>2
        <5> QED BY <1>0, <1>n, <3>2, <5>1 DEF Replying
      <4> QED BY <4>1, <4>2
    <3> HIDE DEF w
    <3>w. w' = w
      BY <2>o DEF w
    <3>h. \A i \in Ids : handed'[i] = handed[i] /\ runs'[i] = runs[i]
      BY <2>o
    <3>5. \A i, j, k \in Ids : letter'[j].re = i /\ letter'[k].re = i => j = k
      <4> TAKE i, j, k \in Ids
      <4> HAVE letter'[j].re = i /\ letter'[k].re = i
      <4>1. CASE i = r
        <5>1. \A x \in Ids : letter[x].re # i
          BY <3>3, <4>1 DEF Replied
        <5> QED BY <3>2, <5>1
      <4>2. CASE i # r
        BY <1>0, <3>2, <4>2
      <4> QED BY <4>1, <4>2
    <3>6. \A i \in Ids : runs'[i] > 0 \/ Replying(i)' \/ Replied(i)' => handed'[i] > 0
      BY <1>0, <3>3, <3>4, <3>h
    <3>7. \A i \in Ids : ~(Replying(i)' /\ Replied(i)')
      BY <1>0, <3>4
    <3>8. \A u, v \in Threads : (/\ thread'[u].at = "insert" /\ thread'[v].at = "insert"
                                 /\ thread'[u].mail.re = thread'[v].mail.re /\ thread'[u].mail.re # 0)
                                => u = v
      BY <1>0, <2>o, <3>2
    <3>9. w'.stage \in {"run", "reply"} => /\ w'.msg \in Ids /\ handed'[w'.msg] > 0
                                           /\ \A i \in Ids : i = w'.msg => ~Replying(i)' /\ ~Replied(i)'
      BY <1>0, <3>3, <3>4, <3>h, <3>w
    <3>10. w'.stage = "run" => runs'[w'.msg] = 0
      BY <1>0, <3>h, <3>w
    <3>11. \A i \in Ids : runs'[i] <= 1
      BY <1>0, <3>h
    <3> QED BY <1>k, <3>5, <3>6, <3>7, <3>8, <3>9, <3>10, <3>11
  <2> QED BY <2>1, <2>2
<1>2. ASSUME NEW t \in Threads, NEW c \in Programs, AsksToPut(t, c) PROVE ReplyInv'
  <2>o. UNCHANGED <<letter, handed, runs>> /\ \A u \in Threads : u # t => thread'[u] = thread[u]
    BY <1>2 DEF AsksToPut, Opens, Quiet, Others
  <2>r. \A i \in Ids : Replied(i)' <=> Replied(i)
    BY <2>o DEF Replied
  <2>h. \A i \in Ids : handed'[i] = handed[i] /\ runs'[i] = runs[i]
    BY <2>o
  <2>d. \A d \in Programs : d # c => client'[d] = client[d]
    BY <1>2 DEF AsksToPut, Opens
  <2>l. \A i, j, k \in Ids : letter'[j].re = i /\ letter'[k].re = i => j = k
    BY <1>0, <2>o
  <2>n. \A i \in Ids : runs'[i] <= 1
    BY <1>0, <2>h
  <2>1. CASE thread'[t].mail.re = 0 /\ c = "sender"
    <3>1. \A i \in Ids : Replying(i)' => Replying(i)
      BY <1>n, <2>o, <2>1 DEF Replying
    <3>2. w' = w
      BY <2>d, <2>1 DEF Programs, Pollers
    <3> HIDE DEF w
    <3>6. \A i \in Ids : runs'[i] > 0 \/ Replying(i)' \/ Replied(i)' => handed'[i] > 0
      BY <1>0, <2>r, <2>h, <3>1
    <3>7. \A i \in Ids : ~(Replying(i)' /\ Replied(i)')
      BY <1>0, <2>r, <3>1
    <3>8. \A u, v \in Threads : (/\ thread'[u].at = "insert" /\ thread'[v].at = "insert"
                                 /\ thread'[u].mail.re = thread'[v].mail.re /\ thread'[u].mail.re # 0)
                                => u = v
      BY <1>0, <2>o, <2>1
    <3>9. w'.stage \in {"run", "reply"} => /\ w'.msg \in Ids /\ handed'[w'.msg] > 0
                                           /\ \A i \in Ids : i = w'.msg => ~Replying(i)' /\ ~Replied(i)'
      BY <1>0, <2>r, <2>h, <3>1, <3>2
    <3>10. w'.stage = "run" => runs'[w'.msg] = 0
      BY <1>0, <2>h, <3>2
    <3> QED BY <1>k, <2>l, <2>n, <3>6, <3>7, <3>8, <3>9, <3>10
  <2>2. CASE c = "worker" /\ w.stage = "reply" /\ thread'[t].mail.re = w.msg
    <3>1. PICK m \in Ids : m = w.msg /\ handed[m] > 0 /\ ~Replying(m) /\ ~Replied(m)
      BY <1>0, <2>2
    <3>2. \A i \in Ids : Replying(i)' => Replying(i) \/ i = m
      BY <2>o, <2>2, <3>1 DEF Replying
    <3>3. w'.stage = "sending"
      BY <1>2, <2>2 DEF AsksToPut
    <3>4. \A u \in Threads : thread[u].at = "insert" => thread[u].mail.re # m
      BY <3>1 DEF Replying
    <3> HIDE DEF w
    <3>6. \A i \in Ids : runs'[i] > 0 \/ Replying(i)' \/ Replied(i)' => handed'[i] > 0
      BY <1>0, <2>r, <2>h, <3>1, <3>2
    <3>7. \A i \in Ids : ~(Replying(i)' /\ Replied(i)')
      BY <1>0, <2>r, <3>1, <3>2
    <3>8. \A u, v \in Threads : (/\ thread'[u].at = "insert" /\ thread'[v].at = "insert"
                                 /\ thread'[u].mail.re = thread'[v].mail.re /\ thread'[u].mail.re # 0)
                                => u = v
      BY <1>0, <2>o, <2>2, <3>1, <3>4
    <3>9. w'.stage \notin {"run", "reply"}
      BY <3>3
    <3> QED BY <1>k, <2>l, <2>n, <3>6, <3>7, <3>8, <3>9
  <2> QED BY <1>2, <2>1, <2>2 DEF AsksToPut
<1>3. ASSUME NEW t \in Threads, NEW c \in Programs, GetsMessage(t, c) PROVE ReplyInv'
  <2>o. /\ UNCHANGED <<letter, runs>> /\ thread'[t].at = "idle" /\ thread[t].at = "message"
        /\ \A u \in Threads : u # t => thread'[u] = thread[u]
        /\ \A d \in Programs : d # c => client'[d] = client[d]
    BY <1>3 DEF GetsMessage, Closes, Quiet, Others
  <2>1. PICK m \in Ids : m = thread[t].msg /\ handed[m] = 0
    BY <2>o DEF HandInv, RequestInv, Laden
  <2>2. handed'[m] = 1 /\ \A i \in Ids : i # m => handed'[i] = handed[i]
    BY <1>3, <2>1 DEF GetsMessage
  <2>3. \A i \in Ids : handed'[i] \in Nat /\ handed'[i] >= handed[i]
    <3> TAKE i \in Ids
    <3>1. CASE i = m
      BY <2>1, <2>2, <3>1
    <3>2. CASE i # m
      BY <1>0, <2>2, <3>2
    <3> QED BY <3>1, <3>2
  <2>4. CASE ~(c = "worker" /\ w'.stage = "run")
    <3>1. w'.stage \in {"run", "reply"} => w' = w
      <4>1. CASE c = "worker"
        BY <1>3, <2>4, <4>1, IdleIsIdle DEF GetsMessage
      <4>2. CASE c # "worker"
        BY <2>o, <4>2 DEF Programs, Pollers
      <4> QED BY <4>1, <4>2
    <3> QED BY <1>f, <2>o, <2>3, <3>1
  <2>5. CASE c = "worker" /\ w'.stage = "run"
    <3>1. w'.msg = m
      BY <1>3, <2>1, <2>5, IdleIsIdle DEF GetsMessage
    <3>2. runs[m] = 0 /\ ~Replying(m) /\ ~Replied(m)
      BY <1>0, <2>1
    <3>3. \A i \in Ids : (Replying(i)' => Replying(i)) /\ (Replied(i)' <=> Replied(i))
      BY <2>o DEF Replying, Replied
    <3> HIDE DEF w
    <3>4. \A i \in Ids : runs'[i] <= 1 /\ runs'[i] = runs[i]
      BY <1>0, <2>o
    <3>5. \A i, j, k \in Ids : letter'[j].re = i /\ letter'[k].re = i => j = k
      BY <1>0, <2>o
    <3>6. \A i \in Ids : runs'[i] > 0 \/ Replying(i)' \/ Replied(i)' => handed'[i] > 0
      <4> TAKE i \in Ids
      <4> HAVE runs'[i] > 0 \/ Replying(i)' \/ Replied(i)'
      <4>1. handed[i] > 0
        BY <1>0, <3>3, <3>4
      <4> QED BY <2>1, <2>2, <4>1
    <3>7. \A i \in Ids : ~(Replying(i)' /\ Replied(i)')
      BY <1>0, <3>3
    <3>8. \A u, v \in Threads : (/\ thread'[u].at = "insert" /\ thread'[v].at = "insert"
                                 /\ thread'[u].mail.re = thread'[v].mail.re /\ thread'[u].mail.re # 0)
                                => u = v
      BY <1>0, <2>o
    <3>9. /\ w'.msg \in Ids /\ handed'[w'.msg] > 0
          /\ \A i \in Ids : i = w'.msg => ~Replying(i)' /\ ~Replied(i)'
      BY <2>2, <3>1, <3>2, <3>3
    <3>10. runs'[w'.msg] = 0
      BY <3>1, <3>2, <3>4
    <3> QED BY <1>k, <3>4, <3>5, <3>6, <3>7, <3>8, <3>9, <3>10
  <2> QED BY <2>4, <2>5
<1>4. CASE AsksAgent
  <2>o. UNCHANGED <<letter, handed, thread>>
    BY <1>4 DEF AsksAgent, Local, Quiet
  <2>1. PICK m \in Ids : m = w.msg /\ handed[m] > 0 /\ ~Replying(m) /\ ~Replied(m) /\ runs[m] = 0
    BY <1>0, <1>4 DEF AsksAgent, Stage
  <2>2. /\ w'.stage = "reply" /\ w'.msg = m
        /\ runs'[m] = 1 /\ \A i \in Ids : i # m => runs'[i] = runs[i]
    BY <1>4, <2>1 DEF AsksAgent
  <2>3. \A i \in Ids : (Replying(i)' <=> Replying(i)) /\ (Replied(i)' <=> Replied(i))
    BY <2>o DEF Replying, Replied
  <2> HIDE DEF w
  <2>h. \A i \in Ids : handed'[i] = handed[i]
    BY <2>o
  <2>4. \A i \in Ids : runs'[i] <= 1
    <3> TAKE i \in Ids
    <3>1. CASE i = m
      BY <2>2, <3>1
    <3>2. CASE i # m
      BY <1>0, <2>2, <3>2
    <3> QED BY <3>1, <3>2
  <2>5. \A i, j, k \in Ids : letter'[j].re = i /\ letter'[k].re = i => j = k
    BY <1>0, <2>o
  <2>6. \A i \in Ids : runs'[i] > 0 \/ Replying(i)' \/ Replied(i)' => handed'[i] > 0
    <3> TAKE i \in Ids
    <3>1. CASE i = m
      BY <2>1, <2>h, <3>1
    <3>2. CASE i # m
      BY <1>0, <2>2, <2>3, <2>h, <3>2
    <3> QED BY <3>1, <3>2
  <2>7. \A i \in Ids : ~(Replying(i)' /\ Replied(i)')
    BY <1>0, <2>3
  <2>8. \A u, v \in Threads : (/\ thread'[u].at = "insert" /\ thread'[v].at = "insert"
                               /\ thread'[u].mail.re = thread'[v].mail.re /\ thread'[u].mail.re # 0)
                              => u = v
    BY <1>0, <2>o
  <2>9. /\ w'.msg \in Ids /\ handed'[w'.msg] > 0
        /\ \A i \in Ids : i = w'.msg => ~Replying(i)' /\ ~Replied(i)'
    BY <2>1, <2>2, <2>3, <2>h
  <2>10. w'.stage # "run"
    BY <2>2
  <2> QED BY <1>k, <2>4, <2>5, <2>6, <2>7, <2>8, <2>9, <2>10
<1>p. {"sender", "worker", "injector"} \subseteq Programs
  BY DEF Programs, Pollers
<1>i. ASSUME NEW c \in Programs, client'[c] = Idle \/ client'[c].stage \notin {"run", "reply"},
             \A d \in Programs : d # c => client'[d] = client[d]
      PROVE  w'.stage \in {"run", "reply"} => w' = w
  BY <1>i, <1>p, IdleIsIdle
<1>5. ASSUME NEW t \in Threads, Closes(t), UNCHANGED <<handed, runs>>,
             w'.stage \in {"run", "reply"} => w' = w
      PROVE  ReplyInv'
  BY <1>0, <1>5, <1>f, <1>h DEF Closes, Quiet, Others
<1>6. ASSUME NEW t \in Threads, AnswersNobody(t) PROVE ReplyInv'
  BY <1>6, <1>5 DEF AnswersNobody
<1>7. ASSUME NEW t \in Threads, NEW c \in Programs, LearnsOfPut(t, c) \/ GetsNothing(t, c) PROVE ReplyInv'
  BY <1>7, <1>5, <1>i DEF LearnsOfPut, GetsNothing
<1>8. ASSUME NEW t \in Threads, NEW c \in Programs, AsksToGet(t, c) PROVE ReplyInv'
  BY <1>0, <1>8, <1>f, <1>h, <1>i DEF AsksToGet, Opens, Quiet, Others
<1>9. ASSUME Local, UNCHANGED <<handed, runs>>, w'.stage \in {"run", "reply"} => w' = w PROVE ReplyInv'
  BY <1>0, <1>9, <1>f, <1>h DEF Local, Quiet
<1>10. ASSUME Injects \/ (\E c \in Programs : Stops(c)) \/ Stutters PROVE ReplyInv'
  BY <1>10, <1>9, <1>i, <1>p DEF Injects, Stops, Stutters
<1>11. CASE Crashes
  <2>1. w'.stage \in {"run", "reply"} => w' = w
    BY <1>11, <1>p, IdleIsIdle DEF Crashes
  <2> QED BY <1>0, <1>11, <1>f, <1>h, <2>1 DEF Crashes
<1> QED BY <1>1, <1>2, <1>3, <1>4, <1>6, <1>7, <1>8, <1>10, <1>11, NextCases

-----------------------------------------------------------------------------
(* The theorems.                                                           *)

LEMMA InitInv ==
  ASSUME Init
  PROVE  IInv
<1> USE DEF Init, ServerInit, BrokerInit
<1>t. /\ Free \in Requests /\ Free.at = "idle"
      /\ Idle \in Hands /\ Idle.stage = "idle" /\ Idle.thread = 0
  BY DEF Free, Requests, Points, Idle, Hands, ClientStages
<1>1. TypeOK
  <2>1. rows \in [Ids -> RowStatuses] /\ letter \in [Ids -> Letters \union {NoLetter}]
    BY DEF RowStatuses
  <2>2. thread \in [Threads -> Requests] /\ client \in [Programs -> Hands]
    BY <1>t
  <2>3. BrokerTypeOK
    BY DEF BrokerTypeOK
  <2> QED BY <2>1, <2>2, <2>3, TypeParts
<1>2. /\ \A t \in Threads : thread[t].at = "idle" /\ ~Holds(t)
      /\ \A c \in Programs : client[c].stage = "idle" /\ client[c].thread = 0
      /\ \A i \in Ids : ~InQueue(i) /\ ~Held(i) /\ i \notin settled
  <2>1. \A t \in Threads : ~Holds(t)
    BY DEF Holds, Clients
  <2>2. \A i \in Ids : ~InQueue(i)
    BY DEF InQueue
  <2> QED BY <1>t, <2>1, <2>2 DEF Held
<1>3. RequestInv
  <2>1. {"sender", "worker", "injector"} \subseteq Programs /\ "idle" \notin Laden /\ "idle" \notin Publishing
    BY DEF Programs, Pollers, Laden, Publishing, PutPoints
  <2> QED BY <1>2, <2>1 DEF RequestInv, At, Placed
<1>4. PlaceInv
  BY <1>2 DEF PlaceInv, Distinct, At, Publishing
<1>5. HandInv
  BY <1>2 DEF HandInv, HandedOnce, At
<1>6. KeptInv
  BY <1>2 DEF KeptInv, AcceptedIsKept, At, Publishing
<1>7. ReplyInv
  <2>1. \A i \in Ids : ~Replying(i) /\ ~Replied(i) /\ runs[i] = 0
    BY <1>2, IdsAreNumbers DEF Replying, Replied, At, NoLetter
  <2>2. AnsweredOnce
    BY <2>1 DEF AnsweredOnce, Replied
  <2>3. client["worker"].stage = "idle"
    BY <1>2 DEF Programs, Pollers
  <2> QED BY <1>2, <2>1, <2>2, <2>3 DEF ReplyInv, At, Stage
<1> QED BY <1>1, <1>3, <1>4, <1>5, <1>6, <1>7 DEF IInv

\* Requests, rows, queues, deliveries and programs stay in step in every behaviour.
THEOREM Invariance == Spec => []IInv
<1>1. Init => IInv
  BY InitInv
<1>2. IInv /\ [Next]_allVars => IInv'
  BY TypeNext, RequestNext, PlaceNext, HandNext, KeptNext, ReplyNext DEF IInv
<1> QED BY <1>1, <1>2, PTL DEF Spec

\* Every variable keeps its type, for any number of mailboxes, messages, requests and failures.
THEOREM TypeCorrect == Spec => []TypeOK
<1>1. IInv => TypeOK
  BY DEF IInv
<1> QED BY <1>1, Invariance, PTL

\* No message is handed out twice, whatever is published without a confirm, sent
\* again, returned to its queue or answered to nobody.
THEOREM HandsOutOnce == Spec => []HandedOnce
<1>1. IInv => HandedOnce
  BY DEF IInv, HandInv
<1> QED BY <1>1, Invariance, PTL

\* What a PUT has confirmed stays where a GET finds it until it is settled.
THEOREM KeepsTheAccepted == Spec => []AcceptedIsKept
<1>1. IInv => AcceptedIsKept
  BY DEF IInv, KeptInv
<1> QED BY <1>1, Invariance, PTL

\* The agent is asked once about a message, and one reply is sent to it.
THEOREM AnswersOnce == Spec => []AnsweredOnce
<1>1. IInv => AnsweredOnce
  BY DEF IInv, ReplyInv
<1> QED BY <1>1, Invariance, PTL
=============================================================================
