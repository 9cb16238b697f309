--------------------------- MODULE MailboxLoss_proofs ---------------------------
(***************************************************************************)
(* Proof that failures bound what the mailbox and its clients lose         *)
(* (LossIsBounded of MailboxClients), when the two hosts have queues of    *)
(* their own.  Four invariants carry it: letters reach the host they are   *)
(* addressed to (RouteInv), the id of a reply is used by nobody else       *)
(* (FreshInv), a program waits for a request of its own (WaitInv), and     *)
(* what is gone, or an orphaned request may still take, was paid for       *)
(* (DebtInv).  EngagesNext is the heart: a program with a message keeps    *)
(* it, passes it on, or a failure is counted in the same step.  In the end *)
(* every lost message is mapped to itself or to its reply among those that *)
(* are gone, and no two to the same one.                                   *)
(***************************************************************************)
EXTENDS MailboxClients_proofs

-----------------------------------------------------------------------------
(* Where a message in a queue, or in a delivery, comes from.               *)

LEMMA PublishLies ==
  ASSUME BrokerTypeOK, NEW q \in Queues, NEW p \in Ids, Publish(q, p), NEW r \in Queues, NEW i \in Ids, Lies(r, i)'
  PROVE  Lies(r, i) \/ (r = q /\ i = p)
<1>t. ready \in [Queues -> Seq(Ids)]
  BY DEF BrokerTypeOK, Payloads
<1>1. /\ ready'[q] = Append(ready[q], p)
      /\ r # q => ready'[r] = ready[r]
  BY <1>t DEF Publish
<1>2. PICK k \in DOMAIN ready'[r] : ready'[r][k] = i
  BY DEF Lies
<1>3. CASE r # q
  BY <1>1, <1>2, <1>3 DEF Lies
<1>4. CASE r = q
  <2>1. DOMAIN ready'[q] = 1..(Len(ready[q]) + 1) /\ DOMAIN ready[q] = 1..Len(ready[q]) /\ Len(ready[q]) \in Nat
    BY <1>t, <1>1
  <2>2. ready'[q][Len(ready[q]) + 1] = p /\ \A l \in DOMAIN ready[q] : ready'[q][l] = ready[q][l]
    BY <1>t, <1>1
  <2> QED BY <1>2, <1>4, <2>1, <2>2 DEF Lies
<1> QED BY <1>3, <1>4

LEMMA FetchLies ==
  ASSUME BrokerTypeOK, NEW t \in Threads, NEW q \in Queues, Fetch(t, q)
  PROVE  /\ \A r \in Queues, i \in Ids : Lies(r, i)' => Lies(r, i)
         /\ Head(ready[q]) \in Ids /\ Lies(q, Head(ready[q]))
<1>t. ready \in [Queues -> Seq(Ids)] /\ ready[q] \in Seq(Ids) /\ ready[q] # <<>>
  BY DEF BrokerTypeOK, Payloads, Fetch
<1>1. /\ ready'[q] = Tail(ready[q])
      /\ \A r \in Queues : r # q => ready'[r] = ready[r]
  BY <1>t DEF Fetch
<1>2. /\ 1 \in DOMAIN ready[q] /\ ready[q][1] = Head(ready[q]) /\ Head(ready[q]) \in Ids
      /\ \A k \in DOMAIN Tail(ready[q]) : k + 1 \in DOMAIN ready[q] /\ Tail(ready[q])[k] = ready[q][k + 1]
  BY <1>t
<1>3. ASSUME NEW r \in Queues, NEW i \in Ids, Lies(r, i)' PROVE Lies(r, i)
  <2>1. PICK k \in DOMAIN ready'[r] : ready'[r][k] = i
    BY <1>3 DEF Lies
  <2>2. CASE r = q
    BY <1>1, <1>2, <2>1, <2>2 DEF Lies
  <2>3. CASE r # q
    BY <1>1, <2>1, <2>3 DEF Lies
  <2> QED BY <2>2, <2>3
<1> QED BY <1>2, <1>3 DEF Lies

LEMMA RequeueLies ==
  ASSUME BrokerTypeOK, NEW t \in Threads, Requeue(t), NEW r \in Queues, NEW i \in Ids, Lies(r, i)'
  PROVE  Lies(r, i) \/ HeldFrom(r, i)
<1> DEFINE q == Delivery(t).queue
           p == Delivery(t).payload
<1>t. ready \in [Queues -> Seq(Ids)] /\ q \in Queues /\ p \in Ids /\ Holds(t)
  <2>1. Holds(t) /\ held[t] \in {<<>>} \union {<<d>> : d \in Deliveries}
    BY DEF BrokerTypeOK, Clients, Requeue
  <2>2. PICK d \in Deliveries : held[t] = <<d>>
    BY <2>1 DEF Holds
  <2>3. Delivery(t) \in Deliveries
    BY <2>2 DEF Delivery
  <2> QED BY <2>1, <2>3 DEF BrokerTypeOK, Payloads, Deliveries
<1>1. ready' = [ready EXCEPT ![q] = <<p>> \o ready[q]]
  BY <1>t DEF Requeue
<1>2. PICK k \in DOMAIN ready'[r] : ready'[r][k] = i
  BY DEF Lies
<1> HIDE DEF q, p
<1>3. CASE r # q
  BY <1>t, <1>1, <1>2, <1>3 DEF Lies
<1>4. CASE r = q
  <2> DEFINE s == ready[q]
  <2>1. s \in Seq(Ids) /\ ready'[q] = <<p>> \o s
    BY <1>t, <1>1
  <2> HIDE DEF s
  <2>2. \A l \in DOMAIN (<<p>> \o s) : (<<p>> \o s)[l] = p \/ \E m \in DOMAIN s : s[m] = (<<p>> \o s)[l]
    <3>1. TAKE l \in DOMAIN (<<p>> \o s)
    <3>2. /\ Len(<<p>> \o s) = Len(s) + 1 /\ Len(s) \in Nat /\ DOMAIN s = 1..Len(s)
          /\ l \in 1..(Len(s) + 1)
          /\ (<<p>> \o s)[l] = IF l <= 1 THEN p ELSE s[l - 1]
      BY <1>t, <2>1
    <3>3. l = 1 \/ l - 1 \in DOMAIN s
      BY <3>2
    <3> QED BY <3>2, <3>3
  <2>3. i = p \/ Lies(r, i)
    BY <1>2, <1>4, <2>1, <2>2 DEF Lies, s
  <2> QED BY <1>t, <1>4, <2>3 DEF HeldFrom, q, p
<1> QED BY <1>3, <1>4

\* A message that comes into a queue was returned to it, or is being published there.
Arrives(q, i) ==
    \/ Lies(q, i) \/ HeldFrom(q, i)
    \/ \E t \in Threads : At(t, "publish") /\ thread[t].msg = i /\ q = QueueOf[letter[i].to]

\* A delivery stays with its request, or the request has fetched it.
Fetched(t) ==
    \/ Holds(t) /\ Delivery(t)' = Delivery(t)
    \/ /\ At(t, "fetch") /\ thread'[t].at = "mark_delivered"
       /\ Delivery(t)'.queue = QueueOf[thread[t].box]
       /\ thread'[t].msg = Delivery(t)'.payload
       /\ Lies(QueueOf[thread[t].box], thread'[t].msg)

LEMMA Arrivals ==
  ASSUME TypeOK, RequestInv, PlaceInv, [Next]_allVars
  PROVE  /\ \A q \in Queues, i \in Ids : Lies(q, i)' => Arrives(q, i)
         /\ \A t \in Threads : Holds(t)' => Fetched(t)
<1>0. BrokerTypeOK /\ Distinct /\ thread \in [Threads -> Requests]
  BY TypeParts DEF PlaceInv
<1>q. ASSUME UNCHANGED ready PROVE \A q \in Queues, i \in Ids : Lies(q, i)' => Arrives(q, i)
  BY <1>q DEF Lies, Arrives
<1>h. ASSUME UNCHANGED held PROVE \A t \in Threads : Holds(t)' => Fetched(t)
  BY <1>h DEF Holds, Delivery, Fetched
<1>b. ASSUME UNCHANGED <<ready, held>>
      PROVE  /\ \A q \in Queues, i \in Ids : Lies(q, i)' => Arrives(q, i)
             /\ \A t \in Threads : Holds(t)' => Fetched(t)
  BY <1>b, <1>q, <1>h
<1>r. ASSUME NEW t \in Threads, Requeue(t)
      PROVE  /\ \A q \in Queues, i \in Ids : Lies(q, i)' => Arrives(q, i)
             /\ \A u \in Threads : Holds(u)' => Fetched(u)
  <2>1. \A q \in Queues, i \in Ids : Lies(q, i)' => Arrives(q, i)
    BY <1>0, <1>r, RequeueLies DEF Arrives
  <2>2. ~Holds(t)' /\ \A u \in Threads : u # t => (Holds(u)' <=> Holds(u)) /\ Delivery(u)' = Delivery(u)
    BY <1>r, ReturnEffect
  <2> QED BY <2>1, <2>2 DEF Fetched
<1>s. ASSUME NEW t \in Threads, Serve(t) \/ ServerFails(t)
      PROVE  /\ \A q \in Queues, i \in Ids : Lies(q, i)' => Arrives(q, i)
             /\ \A u \in Threads : Holds(u)' => Fetched(u)
  <2>1. CASE InsertRow(t) \/ MarkPublished(t) \/ PutFails(t)
    <3>1. UNCHANGED <<ready, held>>
      BY <2>1 DEF InsertRow, MarkPublished, PutFails
    <3> QED BY <1>b, <3>1
  <2>2. CASE PublishRow(t)
    <3> DEFINE p == thread[t].msg
               r == QueueOf[letter[p].to]
    <3>1. At(t, "publish") /\ p \in Ids /\ r \in Queues
      <4>1. At(t, "publish")
        BY <2>2 DEF PublishRow
      <4>2. p \in Ids /\ rows[p] # "absent"
        BY <4>1 DEF RequestInv, Laden, PutPoints, Publishing, At
      <4>3. letter[p] \in Letters
        BY <4>2 DEF RequestInv
      <4> QED BY <4>1, <4>2, <4>3, LettersAddressBoxes
    <3>2. Publish(r, p) \/ UNCHANGED <<ready, held>>
      BY <2>2 DEF PublishRow, PublishUnconfirmed
    <3>3. CASE Publish(r, p)
      <4>1. \A q \in Queues, i \in Ids : Lies(q, i)' => Lies(q, i) \/ (q = r /\ i = p)
        BY <1>0, <3>1, <3>3, PublishLies
      <4>2. \A q \in Queues, i \in Ids : Lies(q, i)' => Arrives(q, i)
        BY <3>1, <4>1 DEF Arrives
      <4>3. UNCHANGED held
        BY <3>3 DEF Publish
      <4> QED BY <1>h, <4>2, <4>3
    <3> QED BY <1>b, <3>2, <3>3
  <2>3. CASE FetchMessage(t)
    <3> DEFINE q == QueueOf[thread[t].box]
    <3>1. At(t, "fetch") /\ q \in Queues
      BY <2>3 DEF FetchMessage, RequestInv, Queues, At
    <3>2. CASE Fetch(t, q) /\ thread' = [thread EXCEPT ![t].at = "mark_delivered", ![t].msg = Head(ready[q])]
      <4>1. /\ \A r \in Queues, i \in Ids : Lies(r, i)' => Lies(r, i)
            /\ Head(ready[q]) \in Ids /\ Lies(q, Head(ready[q]))
        BY <1>0, <3>1, <3>2, FetchLies
      <4>2. held' = [held EXCEPT ![t] = <<[queue |-> q, payload |-> Head(ready[q])]>>] /\ t \in DOMAIN held
        BY <1>0, <3>2 DEF Fetch, BrokerTypeOK, Clients
      <4>3. /\ Delivery(t)'.queue = q /\ Delivery(t)'.payload = Head(ready[q])
            /\ \A u \in Threads : u # t => held'[u] = held[u]
        BY <4>2 DEF Delivery
      <4>4. thread'[t].at = "mark_delivered" /\ thread'[t].msg = Head(ready[q])
        BY <1>0, <3>2, <4>1, FetchedEffect
      <4>5. ASSUME NEW u \in Threads, Holds(u)' PROVE Fetched(u)
        <5>1. CASE u = t
          BY <3>1, <4>1, <4>3, <4>4, <5>1 DEF Fetched
        <5>2. CASE u # t
          BY <4>3, <4>5, <5>2 DEF Fetched, Holds, Delivery
        <5> QED BY <5>1, <5>2
      <4> QED BY <4>1, <4>5 DEF Arrives
    <3> QED BY <2>3, <1>b, <3>2 DEF FetchMessage
  <2>4. CASE MarkDelivered(t)
    BY <2>4, <1>b, <1>r DEF MarkDelivered, RequeueIfHeld
  <2>5. CASE AckMessage(t)
    <3>1. ASSUME Settle(t) PROVE UNCHANGED ready /\ \A u \in Threads : Holds(u)' => Fetched(u)
      <4>1. Holds(t) /\ held' = [held EXCEPT ![t] = <<>>] /\ ready' = ready
        BY <1>0, <3>1, SettleEffect
      <4>2. ~Holds(t)' /\ \A u \in Threads : u # t => (Holds(u)' <=> Holds(u)) /\ Delivery(u)' = Delivery(u)
        BY <4>1, ReleaseEffect
      <4> QED BY <4>1, <4>2 DEF Fetched
    <3>2. CASE Settle(t)
      BY <1>q, <3>1, <3>2
    <3> QED BY <2>5, <1>b, <1>r, <3>2 DEF AckMessage
  <2>6. CASE LoseConnection(t)
    BY <2>6, <1>r DEF LoseConnection
  <2> QED BY <1>s, <2>1, <2>2, <2>3, <2>4, <2>5, <2>6 DEF Serve, PutMessage, GetMessage, ServerFails
<1>1. ASSUME NEW t \in Threads, Served(t)
      PROVE  /\ \A q \in Queues, i \in Ids : Lies(q, i)' => Arrives(q, i)
             /\ \A u \in Threads : Holds(u)' => Fetched(u)
  BY <1>1, <1>s DEF Served
<1>2. ASSUME Quiet
      PROVE  /\ \A q \in Queues, i \in Ids : Lies(q, i)' => Arrives(q, i)
             /\ \A u \in Threads : Holds(u)' => Fetched(u)
  BY <1>2, <1>b DEF Quiet
<1>3. CASE Crashes
  <2>1. \A q \in Queues, i \in Ids : Lies(q, i)' => Lies(q, i) \/ HeldFrom(q, i)
    BY <1>0, <1>3, RequeueAllEffect, MailboxAssumption DEF Crashes, PlaceInv
  <2> QED BY <1>3, <2>1 DEF Crashes, Arrives
<1> QED BY <1>1, <1>2, <1>3, NextCases
    DEF AnswersNobody, AsksToPut, AsksToGet, LearnsOfPut, GetsNothing, GetsMessage, Opens, Closes,
        AsksAgent, Injects, Stops, Stutters, Local

-----------------------------------------------------------------------------
(* Letters reach the host they are addressed to.                           *)

\* A row does not disappear, and its letter is the one it was inserted with.
LEMMA RowEffect ==
  ASSUME TypeOK, RequestInv, PlaceInv, [Next]_allVars
  PROVE  \A i \in Ids :
             /\ rows[i] # "absent" => rows'[i] # "absent" /\ letter'[i] = letter[i]
             /\ rows[i] = "absent" =>
                    \/ rows'[i] = "absent" /\ letter'[i] = letter[i]
                    \/ \E t \in Threads : At(t, "insert") /\ thread[t].msg = i /\ letter'[i] = thread[t].mail
<1> DEFINE Kept == UNCHANGED <<rows, letter>>
<1> USE DEF At
<1>1. ASSUME NEW t \in Threads, Served(t), ~Kept
      PROVE  \A i \in Ids :
                 /\ rows[i] # "absent" => rows'[i] # "absent" /\ letter'[i] = letter[i]
                 /\ rows[i] = "absent" =>
                        \/ rows'[i] = "absent" /\ letter'[i] = letter[i]
                        \/ thread[t].at = "insert" /\ thread[t].msg = i /\ letter'[i] = thread[t].mail
  <2>0. thread[t].at \in Publishing \union {"mark_delivered"} => rows[thread[t].msg] # "absent"
    BY DEF RequestInv
  <2>a. thread[t].at = "ack" \/ thread[t].at # "ack"
    OBVIOUS
  <2>1. CASE Inserts(t)
    BY <2>1 DEF Inserts, SetsRow
  <2>2. CASE Marks(t)
    BY <2>0, <2>2 DEF Marks, SetsRow, Publishing
  <2>3. CASE Delivers(t)
    BY <2>0, <2>3 DEF Delivers, SetsRow
  <2> QED BY <1>1, <2>1, <2>2, <2>3 DEF Served, GivesUp, Publishes, Takes, Returns, Settles
<1>2. CASE Kept
  BY <1>2
<1>3. ASSUME ~Kept PROVE \E t \in Threads : Served(t)
  BY <1>3, NextCases
     DEF AnswersNobody, AsksToPut, AsksToGet, LearnsOfPut, GetsNothing, GetsMessage, Opens, Closes,
         AsksAgent, Injects, Stops, Stutters, Local, Quiet, Crashes
<1> HIDE DEF Kept
<1>4. CASE ~Kept
  <2>1. PICK t \in Threads : Served(t)
    BY <1>3, <1>4
  <2> QED BY <1>1, <1>4, <2>1
<1> QED BY <1>2, <1>4 DEF Kept

\* A request goes on as it is, ends, is served or begins.
LEMMA ThreadCases ==
  ASSUME TypeOK, RequestInv, PlaceInv, [Next]_allVars, NEW u \in Threads
  PROVE  \/ thread'[u] = thread[u] \/ thread'[u].at = "idle" \/ Served(u)
         \/ \E c \in Programs : AsksToPut(u, c) \/ AsksToGet(u, c)
<1>1. ASSUME NEW t \in Threads, Others(t), u # t PROVE thread'[u] = thread[u]
  BY <1>1 DEF Others
<1>2. ASSUME NEW t \in Threads, Closes(t) PROVE thread'[u] = thread[u] \/ thread'[u].at = "idle"
  BY <1>1, <1>2 DEF Closes
<1>3. ASSUME NEW t \in Threads, Served(t) PROVE thread'[u] = thread[u] \/ Served(u)
  <2>1. Others(t)
    BY <1>3 DEF Served
  <2> QED BY <1>1, <1>3, <2>1
<1>4. ASSUME NEW t \in Threads, NEW c \in Programs, AsksToPut(t, c) \/ AsksToGet(t, c)
      PROVE  thread'[u] = thread[u] \/ AsksToPut(u, c) \/ AsksToGet(u, c)
  <2>1. Others(t)
    BY <1>4 DEF AsksToPut, AsksToGet, Opens
  <2> QED BY <1>1, <1>4, <2>1
<1>5. ASSUME Local \/ Crashes PROVE thread'[u] = thread[u] \/ thread'[u].at = "idle"
  BY <1>5 DEF Local, Crashes
<1> QED BY <1>2, <1>3, <1>4, <1>5, NextCases
    DEF AnswersNobody, LearnsOfPut, GetsNothing, GetsMessage, AsksAgent, Injects, Stops, Stutters

RowsRouted ==
    \A i \in Ids : rows[i] # "absent" =>
        IsRouted(letter[i]) /\ (letter[i].re # 0 => IsLetter(letter[i].re))

PutRouted(t) ==
    At(t, "insert") => IsRouted(thread[t].mail) /\ (thread[t].mail.re # 0 => IsLetter(thread[t].mail.re))

GetRouted(t) ==
    thread[t].at \in {"mark_delivered", "ack", "message"} =>
        /\ thread[t].box \in Boxes /\ rows[thread[t].msg] # "absent"
        /\ QueueOf[letter[thread[t].msg].to] = QueueOf[thread[t].box]

QueuesRouted == \A q \in Queues, i \in Ids : Lies(q, i) => QueueOf[letter[i].to] = q

HandRouted(t) == Holds(t) => QueueOf[letter[Delivery(t).payload].to] = Delivery(t).queue

WorkerRouted ==
    client["worker"].stage \in {"run", "reply"} =>
        IsLetter(client["worker"].msg) /\ letter[client["worker"].msg].from = HumanBox

LEMMA RouteParts ==
  RouteInv <=> /\ RowsRouted /\ QueuesRouted /\ WorkerRouted
               /\ \A i \in Ids : rows[i] = "absent" => letter[i] = NoLetter
               /\ \A t \in Threads : PutRouted(t) /\ GetRouted(t) /\ HandRouted(t)
BY DEF RouteInv, RowsRouted, QueuesRouted, WorkerRouted, PutRouted, GetRouted, HandRouted

LEMMA RouteNext ==
  ASSUME OwnQueues, TypeOK, RequestInv, PlaceInv, RouteInv, WaitInv, [Next]_allVars
  PROVE  RouteInv'
<1> USE DEF At
<1>0. /\ RowsRouted /\ QueuesRouted /\ WorkerRouted
      /\ \A i \in Ids : rows[i] = "absent" => letter[i] = NoLetter
      /\ \A t \in Threads : PutRouted(t) /\ GetRouted(t) /\ HandRouted(t)
  BY RouteParts
<1>r. \A i \in Ids :
          /\ rows[i] # "absent" => rows'[i] # "absent" /\ letter'[i] = letter[i]
          /\ rows[i] = "absent" =>
                 \/ rows'[i] = "absent" /\ letter'[i] = letter[i]
                 \/ \E t \in Threads : thread[t].at = "insert" /\ thread[t].msg = i /\ letter'[i] = thread[t].mail
  BY RowEffect
<1>n. 0 \notin Ids
  BY IdsAreNumbers
<1>w. "worker" \in Programs
  BY DEF Programs, Pollers
<1>t. \A t \in Threads : /\ thread[t].at \in Laden => thread[t].msg \in Ids
                         /\ thread[t].at = "insert" => thread[t].mail \in Letters
  BY DEF RequestInv
<1>l. \A l \in Letters : l.re \in Ids \union {0}
  BY DEF Letters
<1> DEFINE Stamped(j) == rows'[j] # "absent" /\ letter'[j].re = 0
<1>i. \A i \in Ids : IsLetter(i) => Stamped(i)
  BY <1>r DEF IsLetter
<1>p. \A i \in Ids : (\E q \in Queues : Lies(q, i)) \/ Held(i) => rows[i] # "absent"
  BY DEF RequestInv, Placed, InQueue, Lies
<1>1. RowsRouted'
  <2> SUFFICES ASSUME NEW i \in Ids, rows'[i] # "absent"
               PROVE  IsRouted(letter'[i]) /\ (letter'[i].re # 0 => Stamped(letter'[i].re))
    BY DEF RowsRouted, IsRouted, IsLetter
  <2>1. CASE rows[i] # "absent"
    <3>1. letter'[i] = letter[i] /\ letter[i] \in Letters
      BY <1>r, <2>1 DEF RequestInv
    <3>2. letter[i].re # 0 => letter[i].re \in Ids /\ IsLetter(letter[i].re)
      BY <1>0, <1>l, <2>1, <3>1 DEF RowsRouted
    <3>3. letter[i].re # 0 => Stamped(letter[i].re)
      BY <1>i, <3>2
    <3> QED BY <1>0, <2>1, <3>1, <3>3 DEF RowsRouted
  <2>2. CASE rows[i] = "absent"
    <3>1. PICK t \in Threads : thread[t].at = "insert" /\ thread[t].msg = i /\ letter'[i] = thread[t].mail
      BY <1>r, <2>2
    <3>2. /\ thread[t].mail \in Letters /\ IsRouted(thread[t].mail)
          /\ thread[t].mail.re # 0 => thread[t].mail.re \in Ids /\ IsLetter(thread[t].mail.re)
      BY <1>0, <1>t, <1>l, <3>1 DEF PutRouted
    <3> QED BY <1>i, <3>1, <3>2
  <2> QED BY <2>1, <2>2
<1>2. \A i \in Ids : rows'[i] = "absent" => letter'[i] = NoLetter
  <2> SUFFICES ASSUME NEW i \in Ids, rows'[i] = "absent" PROVE letter'[i] = NoLetter
    OBVIOUS
  <2>1. rows[i] = "absent" /\ letter[i] = NoLetter
    BY <1>0, <1>r
  <2>2. letter'[i] = letter[i]
    <3>1. UNCHANGED letter \/ \E t \in Threads : Served(t) /\ Inserts(t)
      BY NextCases
      DEF Served, GivesUp, Publishes, Marks, Takes, Delivers, Returns, Settles,
          AnswersNobody, AsksToPut, AsksToGet, LearnsOfPut, GetsNothing, GetsMessage, Opens, Closes,
          AsksAgent, Injects, Stops, Stutters, Local, Quiet, Crashes
    <3>2. ASSUME NEW t \in Threads, Inserts(t) PROVE letter'[i] = letter[i]
      BY <3>2 DEF Inserts, SetsRow
    <3> QED BY <3>1, <3>2
  <2> QED BY <2>1, <2>2
<1>3. QueuesRouted'
  <2> SUFFICES ASSUME NEW q \in Queues, NEW i \in Ids, Lies(q, i)' PROVE QueueOf[letter'[i].to] = q
    BY DEF QueuesRouted
  <2>1. Arrives(q, i)
    BY Arrivals
  <2>2. rows[i] # "absent" /\ QueueOf[letter[i].to] = q
    <3>1. CASE Lies(q, i)
      BY <1>0, <1>p, <3>1 DEF QueuesRouted
    <3>2. CASE HeldFrom(q, i)
      <4>1. PICK t \in Threads : Holds(t) /\ Delivery(t).queue = q /\ Delivery(t).payload = i
        BY <3>2 DEF HeldFrom
      <4> QED BY <1>0, <1>p, <4>1 DEF HandRouted, Held
    <3>3. CASE \E t \in Threads : thread[t].at = "publish" /\ thread[t].msg = i /\ q = QueueOf[letter[i].to]
      BY <3>3 DEF RequestInv, Publishing
    <3> QED BY <2>1, <3>1, <3>2, <3>3 DEF Arrives
  <2> QED BY <1>r, <2>2
<1>4. ASSUME NEW t \in Threads PROVE HandRouted(t)'
  <2> SUFFICES ASSUME Holds(t)' PROVE QueueOf[letter'[Delivery(t)'.payload].to] = Delivery(t)'.queue
    BY DEF HandRouted
  <2>1. Fetched(t)
    BY Arrivals
  <2>2. CASE Holds(t) /\ Delivery(t)' = Delivery(t)
    <3>1. Delivery(t).payload \in Ids /\ rows[Delivery(t).payload] # "absent"
      <4>1. Delivery(t).payload \in Ids
        BY <2>2, HeldMessage
      <4> QED BY <1>p, <2>2, <4>1 DEF Held
    <3> QED BY <1>0, <1>r, <2>2, <3>1 DEF HandRouted
  <2>3. CASE /\ thread[t].at = "fetch" /\ thread'[t].at = "mark_delivered"
             /\ Delivery(t)'.queue = QueueOf[thread[t].box]
             /\ thread'[t].msg = Delivery(t)'.payload
             /\ Lies(QueueOf[thread[t].box], thread'[t].msg)
    <3>1. QueueOf[thread[t].box] \in Queues
      BY <2>3 DEF RequestInv, Queues
    <3>2. thread'[t].msg \in Ids
      <4>1. TypeOK'
        BY TypeNext
      <4>2. Delivery(t)' \in Deliveries
        <5>1. held'[t] \in {<<>>} \union {<<d>> : d \in Deliveries}
          BY <4>1, TypeParts DEF BrokerTypeOK, Clients, TypeOK, ServerTypeOK
        <5>2. held'[t] # <<>>
          BY DEF Holds
        <5>3. PICK d \in Deliveries : held'[t] = <<d>>
          BY <5>1, <5>2
        <5> QED BY <5>3 DEF Delivery
      <4> QED BY <2>3, <4>2 DEF Deliveries, Payloads
    <3>3. rows[thread'[t].msg] # "absent" /\ QueueOf[letter[thread'[t].msg].to] = QueueOf[thread[t].box]
      BY <1>0, <1>p, <2>3, <3>1, <3>2 DEF QueuesRouted
    <3> QED BY <1>r, <2>3, <3>2, <3>3
  <2> QED BY <2>1, <2>2, <2>3 DEF Fetched
<1>5. ASSUME NEW t \in Threads PROVE GetRouted(t)'
  <2> SUFFICES ASSUME thread'[t].at \in {"mark_delivered", "ack", "message"}
               PROVE  /\ thread'[t].box \in Boxes /\ rows'[thread'[t].msg] # "absent"
                      /\ QueueOf[letter'[thread'[t].msg].to] = QueueOf[thread'[t].box]
    BY DEF GetRouted
  <2>1. ASSUME thread[t].at \in {"mark_delivered", "ack", "message"},
               thread'[t].msg = thread[t].msg, thread'[t].box = thread[t].box
        PROVE  /\ thread'[t].box \in Boxes /\ rows'[thread'[t].msg] # "absent"
               /\ QueueOf[letter'[thread'[t].msg].to] = QueueOf[thread'[t].box]
    <3>1. thread[t].msg \in Ids
      BY <1>t, <2>1 DEF Laden
    <3> QED BY <1>0, <1>r, <2>1, <3>1 DEF GetRouted
  <2>2. CASE thread'[t] = thread[t]
    BY <2>1, <2>2
  <2>3. CASE Served(t)
    <3>1. CASE Takes(t)
      <4>1. /\ thread'[t].msg \in Ids /\ thread'[t].box = thread[t].box /\ thread[t].box \in Boxes
            /\ ~Holds(t) /\ Holds(t)'
        BY <3>1 DEF Takes, RequestInv
      <4>2. Lies(QueueOf[thread[t].box], thread'[t].msg)
        BY <4>1, Arrivals DEF Fetched
      <4>3. QueueOf[thread[t].box] \in Queues
        BY <4>1 DEF Queues
      <4>4. rows[thread'[t].msg] # "absent" /\ QueueOf[letter[thread'[t].msg].to] = QueueOf[thread[t].box]
        BY <1>0, <1>p, <4>1, <4>2, <4>3 DEF QueuesRouted
      <4> QED BY <1>r, <4>1, <4>4
    <3>2. CASE Delivers(t) \/ Returns(t) \/ Settles(t)
      BY <2>1, <3>2 DEF Delivers, Returns, Settles, Passes
    <3>3. CASE Inserts(t) \/ GivesUp(t) \/ Publishes(t) \/ Marks(t)
      BY <3>3 DEF Inserts, GivesUp, Publishes, Marks, Passes
    <3> QED BY <2>3, <3>1, <3>2, <3>3 DEF Served
  <2>4. ASSUME NEW c \in Programs, AsksToPut(t, c) \/ AsksToGet(t, c) PROVE FALSE
    BY <2>4 DEF AsksToPut, AsksToGet
  <2> QED BY <2>2, <2>3, <2>4, ThreadCases
<1>6. ASSUME NEW t \in Threads PROVE PutRouted(t)'
  <2> SUFFICES ASSUME thread'[t].at = "insert"
               PROVE  IsRouted(thread'[t].mail) /\ (thread'[t].mail.re # 0 => Stamped(thread'[t].mail.re))
    BY DEF PutRouted, IsRouted, IsLetter
  <2>2. CASE thread'[t] = thread[t]
    <3>1. /\ IsRouted(thread[t].mail)
          /\ thread[t].mail.re # 0 => thread[t].mail.re \in Ids /\ IsLetter(thread[t].mail.re)
      BY <1>0, <1>t, <1>l, <2>2 DEF PutRouted
    <3> QED BY <1>i, <2>2, <3>1
  <2>3. CASE Served(t)
    BY <2>3 DEF Served, Inserts, GivesUp, Publishes, Marks, Takes, Delivers, Returns, Settles, Passes
  <2>4. ASSUME NEW c \in Programs, AsksToGet(t, c) PROVE FALSE
    BY <2>4 DEF AsksToGet
  <2>5. ASSUME AsksToPut(t, "sender") PROVE IsRouted(thread'[t].mail) /\ thread'[t].mail.re = 0
    BY <2>5 DEF AsksToPut, IsRouted
  <2>6. ASSUME AsksToPut(t, "worker") PROVE IsRouted(thread'[t].mail) /\ Stamped(thread'[t].mail.re)
    <3> DEFINE m == client["worker"].msg
    <3>1. client["worker"].stage = "reply" /\ thread'[t].mail = ReplyTo(m)
      BY <2>6 DEF AsksToPut
    <3>2. m \in Ids
      BY <1>w, <3>1 DEF RequestInv
    <3>3. IsLetter(m) /\ letter[m].from = HumanBox
      BY <1>0, <3>1 DEF WorkerRouted
    <3>4. thread'[t].mail.re = m /\ thread'[t].mail.from = WorkerBox /\ thread'[t].mail.to = HumanBox
      BY <3>1, <3>3 DEF ReplyTo
    <3> QED BY <1>n, <1>i, <3>2, <3>3, <3>4 DEF IsRouted
  <2>7. ASSUME NEW c \in Programs, AsksToPut(t, c) PROVE c \in {"sender", "worker"}
    BY <2>7 DEF AsksToPut
  <2> QED BY <2>2, <2>3, <2>4, <2>5, <2>6, <2>7, ThreadCases
<1>7. WorkerRouted'
  <2> DEFINE w == client["worker"]
  <2> SUFFICES ASSUME client'["worker"].stage \in {"run", "reply"}
               PROVE  Stamped(client'["worker"].msg) /\ letter'[client'["worker"].msg].from = HumanBox
    BY DEF WorkerRouted, IsLetter
  <2>1. ASSUME w.stage \in {"run", "reply"}, client'["worker"].msg = w.msg
        PROVE  Stamped(client'["worker"].msg) /\ letter'[client'["worker"].msg].from = HumanBox
    <3>0. w.msg \in Ids
      BY <1>w, <2>1 DEF RequestInv
    <3>1. IsLetter(w.msg) /\ letter[w.msg].from = HumanBox
      BY <1>0, <2>1 DEF WorkerRouted
    <3> QED BY <1>r, <2>1, <3>0, <3>1 DEF IsLetter
  <2>2. ASSUME NEW t \in Threads, GetsMessage(t, "worker")
        PROVE  Stamped(client'["worker"].msg) /\ letter'[client'["worker"].msg].from = HumanBox
    <3>1. /\ w.stage = "receiving" /\ w.thread = t /\ thread[t].at = "message"
          /\ client'["worker"].msg = thread[t].msg /\ ~IsSelfAddressed(thread[t].msg)
      BY <2>2 DEF GetsMessage, Idle
    <3>2. thread[t].box = WorkerBox /\ thread[t].msg \in Ids
      <4>1. thread[t].box = WorkerBox
        BY <1>w, <3>1 DEF WaitInv, Stage
      <4> QED BY <1>t, <3>1, <4>1 DEF Laden
    <3>3. rows[thread[t].msg] # "absent" /\ QueueOf[letter[thread[t].msg].to] = QueueOf[WorkerBox]
      BY <1>0, <3>1, <3>2 DEF GetRouted
    <3>4. IsRouted(letter[thread[t].msg])
      BY <1>0, <3>2, <3>3 DEF RowsRouted
    <3>5. IsLetter(thread[t].msg) /\ letter[thread[t].msg].from = HumanBox
      BY <3>1, <3>3, <3>4 DEF IsRouted, OwnQueues, IsSelfAddressed, IsLetter
    <3> QED BY <1>r, <3>1, <3>2, <3>5 DEF IsLetter
  <2>3. \/ client'["worker"] = w
        \/ client'["worker"].stage \in {"idle", "receiving", "sending"}
        \/ AsksAgent
        \/ \E t \in Threads : GetsMessage(t, "worker")
    BY NextCases
    DEF Served, AnswersNobody, AsksToPut, AsksToGet, LearnsOfPut, GetsNothing, GetsMessage, Opens,
        Injects, Stops, Stutters, Crashes, Idle, Programs, Pollers
  <2> QED BY <2>1, <2>2, <2>3 DEF AsksAgent, Stage
<1> QED
  <2>1. \A t \in Threads : (PutRouted(t) /\ GetRouted(t) /\ HandRouted(t))'
    BY <1>4, <1>5, <1>6
  <2> QED BY <1>1, <1>2, <1>3, <1>7, <2>1 DEF RouteInv, RowsRouted, QueuesRouted, WorkerRouted, PutRouted, GetRouted, HandRouted

-----------------------------------------------------------------------------
(* The id the service generates for a reply is used by nobody else.        *)

LEMMA FreshNext ==
  ASSUME TypeOK, RequestInv, PlaceInv, FreshInv, [Next]_allVars
  PROVE  FreshInv'
<1> USE DEF At
<1>g. Given \intersect Generated = {}
  BY MailboxAssumption
<1>0. /\ \A t \in Threads : thread[t].at = "insert" /\ thread[t].msg \in Generated => rows[thread[t].msg] = "absent"
      /\ \A t, u \in Threads : thread[t].at = "insert" /\ thread[u].at = "insert" /\ thread[t].msg \in Generated
                               /\ thread[t].msg = thread[u].msg => t = u
  BY DEF FreshInv
<1>m. \A t \in Threads :
          /\ thread[t].at = "insert" => thread[t].msg \in Ids
          /\ thread[t].at \in Publishing \union {"mark_delivered"} => thread[t].msg \in Ids /\ rows[thread[t].msg] # "absent"
  <2> TAKE t \in Threads
  <2>1. thread[t].at \in Laden => thread[t].msg \in Ids
    BY DEF RequestInv
  <2>2. thread[t].at \in Publishing \union {"mark_delivered"} => rows[thread[t].msg] # "absent"
    BY DEF RequestInv
  <2> QED BY <2>1, <2>2 DEF Laden, PutPoints, Publishing
\* Where a PUT begins: an id that is nobody else's, or one the sender gave.
<1>a. ASSUME NEW u \in Threads, NEW c \in Programs, AsksToPut(u, c) \/ AsksToGet(u, c),
             thread'[u].at = "insert", thread'[u].msg \in Generated
      PROVE  /\ rows[thread'[u].msg] = "absent" /\ UNCHANGED rows
             /\ \A t \in Threads : t # u => thread'[t] = thread[t] /\ thread[t].msg # thread'[u].msg
  <2>1. AsksToPut(u, c)
    BY <1>a DEF AsksToGet
  <2>2. IsFresh(thread'[u].msg)
    BY <1>a, <1>g, <2>1 DEF AsksToPut
  <2> QED BY <2>1, <2>2 DEF IsFresh, AsksToPut, Opens, Others, Quiet
\* What a PUT that has not begun its insertion may rely on.
<1>s. ASSUME NEW u \in Threads, thread[u].at = "insert", thread'[u] = thread[u], thread[u].msg \in Generated
      PROVE  rows'[thread[u].msg] = "absent"
  <2>1. rows[thread[u].msg] = "absent" /\ thread[u].msg \in Ids
    BY <1>0, <1>m, <1>s
  <2>2. ASSUME NEW t \in Threads, Served(t) PROVE rows'[thread[u].msg] = "absent"
    <3>1. CASE Inserts(t)
      <4>1. t # u
        BY <1>s, <3>1 DEF Inserts, Passes
      <4>2. thread[t].msg # thread[u].msg
        BY <1>0, <1>s, <3>1, <4>1 DEF Inserts
      <4> QED BY <2>1, <3>1, <4>2 DEF Inserts, SetsRow
    <3>2. CASE Marks(t) \/ Delivers(t)
      <4>1. thread[t].msg # thread[u].msg
        BY <1>m, <2>1, <3>2 DEF Marks, Delivers, Publishing
      <4> QED BY <2>1, <3>2, <4>1 DEF Marks, Delivers, SetsRow
    <3> QED BY <2>1, <2>2, <3>1, <3>2 DEF Served, GivesUp, Publishes, Takes, Returns, Settles
  <2>3. ASSUME UNCHANGED rows PROVE rows'[thread[u].msg] = "absent"
    BY <2>1, <2>3
  <2> QED BY <2>2, <2>3, NextCases
      DEF AnswersNobody, AsksToPut, AsksToGet, LearnsOfPut, GetsNothing, GetsMessage, Opens, Closes,
          AsksAgent, Injects, Stops, Stutters, Local, Quiet, Crashes
<1>c. ASSUME NEW u \in Threads, thread'[u].at = "insert"
      PROVE  \/ thread'[u] = thread[u]
             \/ \E c \in Programs : AsksToPut(u, c) \/ AsksToGet(u, c)
  <2>1. ASSUME Served(u) PROVE FALSE
    BY <1>c, <2>1 DEF Served, Inserts, GivesUp, Publishes, Marks, Takes, Delivers, Returns, Settles, Passes
  <2> QED BY <1>c, <2>1, ThreadCases
<1>1. ASSUME NEW u \in Threads, thread'[u].at = "insert", thread'[u].msg \in Generated
      PROVE  rows'[thread'[u].msg] = "absent"
  BY <1>1, <1>a, <1>c, <1>s
<1>2. ASSUME NEW t \in Threads, NEW u \in Threads, thread'[t].at = "insert", thread'[u].at = "insert",
             thread'[t].msg \in Generated, thread'[t].msg = thread'[u].msg
      PROVE  t = u
  BY <1>2, <1>0, <1>a, <1>c
<1> QED BY <1>1, <1>2 DEF FreshInv

-----------------------------------------------------------------------------
(* A program waits for a request of its own.                               *)

WaitsAlone ==
    \A c, d \in Programs : client[c].thread # 0 /\ client[c].thread = client[d].thread => c = d

Awaits(c) ==
    LET t == client[c].thread IN
    /\ client[c].stage = "receiving" =>
           /\ thread[t].at \in GetPoints \union {"message", "nothing", "error"}
           /\ thread[t].box = BoxOf(c)
           /\ c # "sender"
    /\ client[c].stage = "sending" => thread[t].at \in PutPoints \union {"accepted", "refused", "error"} /\ c # "injector"
    /\ client[c].stage \in {"idle", "receiving"} => client[c].msg = 0

SendsReply ==
    client["worker"].stage = "sending" =>
        LET t == client["worker"].thread
            i == client["worker"].msg
        IN  /\ thread[t].at # "refused"
            /\ thread[t].at = "insert" => thread[t].mail.re = i /\ thread[t].msg \in Generated
            /\ thread[t].at \in Publishing \union {"accepted"} => letter[thread[t].msg].re = i

PlaysItsPart ==
    /\ client["worker"].stage \in {"idle", "receiving", "run", "reply", "sending"}
    /\ client["sender"].stage \in {"idle", "sending"}
    /\ client["injector"].stage \in {"idle", "receiving", "inject", "notify", "give_up"}
    /\ client["injector"].stage = "notify" => client["injector"].msg \in injected

LEMMA WaitParts ==
  WaitInv <=> /\ WaitsAlone /\ SendsReply /\ PlaysItsPart
              /\ \A c \in Programs : Awaits(c)
BY DEF WaitInv, WaitsAlone, SendsReply, PlaysItsPart, Awaits, BoxOf, Stage, At

Attended(c) == \E t \in Threads : t = client[c].thread /\ Served(t)

\* A program that waits has just asked, or goes on waiting for the same request.
LEMMA WaiterCases ==
  ASSUME TypeOK, RequestInv, PlaceInv, WaitInv, [Next]_allVars,
         NEW c \in Programs, client'[c].thread # 0
  PROVE  \/ \E t \in Threads : AsksToPut(t, c) \/ AsksToGet(t, c)
         \/ /\ client'[c] = client[c] /\ client[c].stage \in {"receiving", "sending"}
            /\ client[c].thread \in Threads
            /\ \/ thread'[client[c].thread] = thread[client[c].thread]
               \/ Attended(c)
<1> USE DEF At
<1>0. WaitsAlone /\ \A d \in Programs : Awaits(d)
  BY WaitParts
<1>1. ASSUME client[c].thread # 0
      PROVE  client[c].stage \in {"receiving", "sending"} /\ client[c].thread \in Threads
  BY <1>1, Waiting DEF RequestInv
<1>2. \/ \E t \in Threads : AsksToPut(t, c) \/ AsksToGet(t, c)
      \/ client'[c] = client[c] /\ client[c].thread # 0
         /\ \A t \in Threads, d \in Programs : LearnsOfPut(t, d) \/ GetsNothing(t, d) \/ GetsMessage(t, d) => d # c
  <2>i. Idle.thread = 0
    BY IdleIsIdle
  <2>1. ASSUME NEW t \in Threads, NEW d \in Programs, LearnsOfPut(t, d) \/ GetsNothing(t, d) \/ GetsMessage(t, d)
        PROVE  d # c
    BY <2>i, <2>1 DEF LearnsOfPut, GetsNothing, GetsMessage
  <2>2. ASSUME NEW d \in Programs, Stops(d) PROVE client'[c] = client[c]
    BY <2>i, <2>2 DEF Stops
  <2>3. ASSUME Crashes PROVE FALSE
    BY <2>i, <2>3 DEF Crashes
  <2>4. ASSUME Injects \/ AsksAgent PROVE client'[c] = client[c]
    <3>1. \/ c = "injector" /\ client[c].stage \in {"inject", "notify", "give_up"} /\ client'[c].thread = client[c].thread
          \/ c = "worker" /\ client[c].stage = "run" /\ client'[c].thread = client[c].thread
          \/ client'[c] = client[c]
      BY <2>4 DEF Injects, AsksAgent, Stage
    <3> QED BY <1>1, <3>1
  <2>5. ASSUME NEW t \in Threads, NEW d \in Programs, AsksToPut(t, d) \/ AsksToGet(t, d), d # c
        PROVE  client'[c] = client[c]
    BY <2>5 DEF AsksToPut, AsksToGet, Opens
  <2>6. ASSUME NEW t \in Threads, NEW d \in Programs, LearnsOfPut(t, d) \/ GetsNothing(t, d) \/ GetsMessage(t, d)
        PROVE  client'[c] = client[c]
    BY <2>1, <2>6 DEF LearnsOfPut, GetsNothing, GetsMessage
  <2>7. \/ client'[c] = client[c]
        \/ \E t \in Threads : AsksToPut(t, c) \/ AsksToGet(t, c)
    BY <2>2, <2>3, <2>4, <2>5, <2>6, NextCases DEF Served, AnswersNobody, Stutters
  <2> QED BY <2>1, <2>7
<1>3. ASSUME client'[c] = client[c], client[c].thread \in Threads,
             \A t \in Threads, d \in Programs : LearnsOfPut(t, d) \/ GetsNothing(t, d) \/ GetsMessage(t, d) => d # c
      PROVE  thread'[client[c].thread] = thread[client[c].thread] \/ Attended(c)
  <2> DEFINE u == client[c].thread
  <2>0. u \in Threads /\ u # 0 /\ thread[u].at # "idle"
    <3>1. u # 0
      BY <1>3, IdsAreNumbers
    <3>2. thread[u].at \in GetPoints \union {"message", "nothing", "error"} \/ thread[u].at \in PutPoints \union {"accepted", "refused", "error"}
      BY <1>0, <1>1, <3>1 DEF Awaits
    <3> QED BY <1>3, <3>1, <3>2 DEF GetPoints, PutPoints
  <2>1. ASSUME NEW t \in Threads, Served(t) PROVE thread'[u] = thread[u] \/ Attended(c)
    <3>1. Others(t)
      BY <2>1 DEF Served
    <3> QED BY <2>0, <2>1, <3>1 DEF Others, Attended
  <2>2. ASSUME NEW t \in Threads, AnswersNobody(t) PROVE thread'[u] = thread[u]
    BY <2>0, <2>2 DEF AnswersNobody, Closes, Others
  <2>3. ASSUME NEW t \in Threads, NEW d \in Programs, LearnsOfPut(t, d) \/ GetsNothing(t, d) \/ GetsMessage(t, d)
        PROVE  thread'[u] = thread[u]
    <3>1. client[d].thread = t /\ Others(t)
      BY <2>3 DEF LearnsOfPut, GetsNothing, GetsMessage, Closes
    <3>2. d # c
      BY <1>3, <2>3
    <3>3. u # t
      BY <1>0, <2>0, <3>1, <3>2 DEF WaitsAlone
    <3> QED BY <2>0, <3>1, <3>3 DEF Others
  <2>4. ASSUME NEW t \in Threads, NEW d \in Programs, AsksToPut(t, d) \/ AsksToGet(t, d)
        PROVE  thread'[u] = thread[u]
    BY <2>0, <2>4 DEF AsksToPut, AsksToGet, Opens, Others
  <2>5. ASSUME Crashes PROVE FALSE
    BY <1>3, <2>0, <2>5, IdleIsIdle DEF Crashes
  <2>6. ASSUME Local PROVE thread'[u] = thread[u]
    BY <2>6 DEF Local
  <2> QED BY <2>1, <2>2, <2>3, <2>4, <2>5, <2>6, NextCases DEF AsksAgent, Injects, Stops, Stutters
<1> QED BY <1>1, <1>2, <1>3

LEMMA WaitNext ==
  ASSUME TypeOK, RequestInv, PlaceInv, HandInv, KeptInv, FreshInv, WaitInv, [Next]_allVars
  PROVE  WaitInv'
<1> USE DEF At
<1>0. WaitsAlone /\ SendsReply /\ PlaysItsPart /\ \A c \in Programs : Awaits(c)
  BY WaitParts
<1>p. "worker" \in Programs /\ "sender" \in Programs /\ "injector" \in Programs
  BY DEF Programs, Pollers
<1>w. \A c \in Programs : /\ client[c].thread # 0 <=> client[c].stage \in {"receiving", "sending"}
                          /\ client'[c].thread # 0 <=> client'[c].stage \in {"receiving", "sending"}
  <2>1. RequestInv'
    BY RequestNext
  <2> QED BY <2>1 DEF RequestInv
<1>b. \A c \in Programs : client[c].thread \in Threads => thread[client[c].thread].at # "idle"
  <2> SUFFICES ASSUME NEW c \in Programs, client[c].thread \in Threads PROVE thread[client[c].thread].at # "idle"
    OBVIOUS
  <2>1. client[c].stage \in {"receiving", "sending"}
    BY <1>w, IdsAreNumbers
  <2>2. \/ thread[client[c].thread].at \in GetPoints \union {"message", "nothing", "error"}
        \/ thread[client[c].thread].at \in PutPoints \union {"accepted", "refused", "error"}
    BY <1>0, <2>1 DEF Awaits
  <2> QED BY <2>2 DEF GetPoints, PutPoints
<1>1. WaitsAlone'
  <2> SUFFICES ASSUME NEW c \in Programs, NEW d \in Programs,
                      client'[c].thread # 0, client'[c].thread = client'[d].thread
               PROVE  c = d
    BY DEF WaitsAlone
  <2>1. ASSUME NEW a \in Programs, NEW e \in Programs, NEW t \in Threads,
               AsksToPut(t, a) \/ AsksToGet(t, a), client'[e].thread = t, e # a
        PROVE  FALSE
    <3>1. client'[e] = client[e] /\ thread[t].at = "idle"
      BY <2>1 DEF AsksToPut, AsksToGet, Opens
    <3> QED BY <1>b, <2>1, <3>1
  <2>2. \A a \in Programs, t \in Threads : AsksToPut(t, a) \/ AsksToGet(t, a) => client'[a].thread = t
    BY DEF AsksToPut, AsksToGet, Opens
  <2>3. ASSUME client'[c] = client[c], client'[d] = client[d] PROVE c = d
    BY <1>0, <2>3 DEF WaitsAlone
  <2> QED BY <2>1, <2>2, <2>3, WaiterCases
\* A request that is served goes on to what it was asked for.
<1>s. ASSUME NEW t \in Threads, Served(t)
      PROVE  /\ thread[t].at \in PutPoints \union {"accepted"} =>
                    /\ thread'[t].at \in PutPoints \union {"accepted", "refused", "error"}
                    /\ thread'[t].msg = thread[t].msg /\ thread'[t].mail = thread[t].mail
             /\ thread[t].at \in GetPoints => thread'[t].at \in GetPoints \union {"message", "nothing", "error"}
             /\ thread'[t].box = thread[t].box
             /\ thread[t].at \in PutPoints \union GetPoints \union {"accepted"}
             /\ thread'[t].at # "insert"
             /\ thread'[t].at = "refused" => thread[t].at = "insert" /\ rows[thread[t].msg] # "absent"
             /\ thread'[t].at \in Publishing \union {"accepted"} =>
                    \/ thread[t].at \in Publishing
                    \/ thread[t].at = "insert" /\ letter'[thread[t].msg] = thread[t].mail
  <2> USE DEF PutPoints, GetPoints, Publishing, Passes
  <2>1. CASE Inserts(t)
    BY <2>1 DEF Inserts
  <2>2. CASE GivesUp(t)
    BY <2>2 DEF GivesUp
  <2>3. CASE Publishes(t)
    BY <2>3 DEF Publishes
  <2>4. CASE Marks(t)
    BY <2>4 DEF Marks
  <2>5. CASE Takes(t)
    BY <2>5 DEF Takes
  <2>6. CASE Delivers(t)
    BY <2>6 DEF Delivers
  <2>7. CASE Returns(t)
    BY <2>7 DEF Returns
  <2>8. CASE Settles(t)
    BY <2>8 DEF Settles
  <2> QED BY <1>s, <2>1, <2>2, <2>3, <2>4, <2>5, <2>6, <2>7, <2>8 DEF Served
<1>2. ASSUME NEW c \in Programs PROVE Awaits(c)'
  <2> DEFINE t == client[c].thread
  <2>1. ASSUME client'[c].stage = "receiving"
        PROVE  /\ thread'[client'[c].thread].at \in GetPoints \union {"message", "nothing", "error"}
               /\ thread'[client'[c].thread].box = BoxOf(c)
               /\ c # "sender" /\ client'[c].msg = 0
    <3>0. client'[c].thread # 0
      BY <1>w, <2>1
    <3>1. ASSUME NEW u \in Threads, AsksToGet(u, c)
          PROVE  /\ thread'[client'[c].thread].at \in GetPoints \union {"message", "nothing", "error"}
                 /\ thread'[client'[c].thread].box = BoxOf(c)
                 /\ c # "sender" /\ client'[c].msg = 0
      BY <1>0, <3>1 DEF AsksToGet, Opens, GetPoints, Awaits, Pollers
    <3>2. ASSUME NEW u \in Threads, AsksToPut(u, c) PROVE FALSE
      BY <2>1, <3>2 DEF AsksToPut
    <3>3. ASSUME client'[c] = client[c]
          PROVE  /\ thread[t].at \in GetPoints \union {"message", "nothing", "error"}
                 /\ thread[t].box = BoxOf(c) /\ c # "sender" /\ client'[c].msg = 0
      BY <1>0, <2>1, <3>3 DEF Awaits
    <3>4. ASSUME client'[c] = client[c], thread'[t] = thread[t]
          PROVE  /\ thread'[client'[c].thread].at \in GetPoints \union {"message", "nothing", "error"}
                 /\ thread'[client'[c].thread].box = BoxOf(c)
      BY <3>3, <3>4
    <3>5. ASSUME client'[c] = client[c], Attended(c)
          PROVE  /\ thread'[client'[c].thread].at \in GetPoints \union {"message", "nothing", "error"}
                 /\ thread'[client'[c].thread].box = BoxOf(c)
      <4>0. PICK s \in Threads : s = t /\ Served(s)
        BY <3>5 DEF Attended
      <4>1. thread[t].at \in GetPoints
        <5>1. thread[s].at \in PutPoints \union GetPoints \union {"accepted"}
          BY <1>s, <4>0
        <5> QED BY <3>3, <3>5, <4>0, <5>1 DEF PutPoints, GetPoints
      <4>2. thread'[t].at \in GetPoints \union {"message", "nothing", "error"} /\ thread'[t].box = thread[t].box
        BY <1>s, <4>0, <4>1
      <4> QED BY <3>3, <3>5, <4>2
    <3> QED BY <3>0, <3>1, <3>2, <3>3, <3>4, <3>5, WaiterCases
  <2>2. ASSUME client'[c].stage = "sending"
        PROVE  /\ thread'[client'[c].thread].at \in PutPoints \union {"accepted", "refused", "error"}
               /\ c # "injector"
    <3>0. client'[c].thread # 0
      BY <1>w, <2>2
    <3>1. ASSUME NEW u \in Threads, AsksToPut(u, c)
          PROVE  /\ thread'[client'[c].thread].at \in PutPoints \union {"accepted", "refused", "error"}
                 /\ c # "injector"
      BY <3>1 DEF AsksToPut, Opens, PutPoints
    <3>2. ASSUME NEW u \in Threads, AsksToGet(u, c) PROVE FALSE
      BY <2>2, <3>2 DEF AsksToGet
    <3>3. ASSUME client'[c] = client[c]
          PROVE  thread[t].at \in PutPoints \union {"accepted", "refused", "error"} /\ c # "injector"
      BY <1>0, <2>2, <3>3 DEF Awaits
    <3>5. ASSUME client'[c] = client[c], Attended(c)
          PROVE  thread'[client'[c].thread].at \in PutPoints \union {"accepted", "refused", "error"}
      <4>0. PICK s \in Threads : s = t /\ Served(s)
        BY <3>5 DEF Attended
      <4>1. thread[t].at \in PutPoints \union {"accepted"}
        <5>1. thread[s].at \in PutPoints \union GetPoints \union {"accepted"}
          BY <1>s, <4>0
        <5> QED BY <3>3, <3>5, <4>0, <5>1 DEF PutPoints, GetPoints
      <4> QED BY <1>s, <3>5, <4>0, <4>1
    <3> QED BY <3>0, <3>1, <3>2, <3>3, <3>5, WaiterCases
  <2>3. ASSUME client'[c].stage = "idle" PROVE client'[c].msg = 0
    <3>1. client'[c] = Idle \/ client'[c] = client[c]
      BY <2>3, NextCases
      DEF Served, AnswersNobody, AsksToPut, AsksToGet, Opens, LearnsOfPut, GetsNothing, GetsMessage,
          AsksAgent, Injects, Stops, Stutters, Crashes
    <3> QED BY <1>0, <2>3, <3>1, IdleIsIdle DEF Awaits
  <2> QED BY <2>1, <2>2, <2>3 DEF Awaits, BoxOf
<1>3. SendsReply'
  <2> DEFINE u == client'["worker"].thread
             i == client'["worker"].msg
  <2> SUFFICES ASSUME client'["worker"].stage = "sending"
               PROVE  /\ thread'[u].at # "refused"
                      /\ thread'[u].at = "insert" => thread'[u].mail.re = i /\ thread'[u].msg \in Generated
                      /\ thread'[u].at \in Publishing \union {"accepted"} => letter'[thread'[u].msg].re = i
    BY DEF SendsReply
  <2>0. client'["worker"].thread # 0
    BY <1>p, <1>w
  <2>1. ASSUME NEW t \in Threads, AsksToPut(t, "worker")
        PROVE  /\ thread'[u].at = "insert" /\ thread'[u].mail.re = i /\ thread'[u].msg \in Generated
    <3>1. IsFresh(thread'[t].msg)
      BY <2>1 DEF AsksToPut
    <3> QED BY <2>1, <3>1 DEF AsksToPut, Opens, IsFresh
  <2>2. ASSUME NEW t \in Threads, AsksToGet(t, "worker") PROVE FALSE
    BY <2>2 DEF AsksToGet
  <2>3. ASSUME client'["worker"] = client["worker"], u \in Threads
        PROVE  /\ thread[u].at # "refused"
               /\ thread[u].at = "insert" => thread[u].mail.re = i /\ thread[u].msg \in Generated
               /\ thread[u].at \in Publishing \union {"accepted"} =>
                      letter[thread[u].msg].re = i /\ letter'[thread[u].msg] = letter[thread[u].msg]
    <3>1. /\ thread[u].at # "refused"
          /\ thread[u].at = "insert" => thread[u].mail.re = i /\ thread[u].msg \in Generated
          /\ thread[u].at \in Publishing \union {"accepted"} => letter[thread[u].msg].re = i
      BY <1>0, <2>3 DEF SendsReply
    <3>2. thread[u].at \in Publishing \union {"accepted"} => thread[u].msg \in Ids /\ rows[thread[u].msg] # "absent"
      <4>1. thread[u].at \in Laden => thread[u].msg \in Ids
        BY <2>3 DEF RequestInv
      <4>2. thread[u].at \in Publishing => rows[thread[u].msg] # "absent"
        BY <2>3 DEF RequestInv
      <4>3. thread[u].at = "accepted" => rows[thread[u].msg] \in {"queued", "delivered"}
        BY <2>3 DEF KeptInv
      <4> QED BY <4>1, <4>2, <4>3 DEF Laden, Publishing, PutPoints
    <3> QED BY <3>1, <3>2, RowEffect
  <2>4. ASSUME client'["worker"] = client["worker"], u \in Threads, Attended("worker")
        PROVE  /\ thread'[u].at # "refused"
               /\ thread'[u].at = "insert" => thread'[u].mail.re = i /\ thread'[u].msg \in Generated
               /\ thread'[u].at \in Publishing \union {"accepted"} => letter'[thread'[u].msg].re = i
    <3>s. PICK s \in Threads : s = u /\ Served(s)
      BY <2>4 DEF Attended
    <3>0. thread[u].at \in PutPoints \union {"accepted", "refused", "error"}
      BY <1>0, <1>p, <2>4 DEF Awaits
    <3>1. thread[u].at \in PutPoints \union {"accepted"} /\ thread'[u].msg = thread[u].msg
      BY <1>s, <3>s, <3>0 DEF PutPoints, GetPoints
    <3>2. thread'[u].at # "insert"
      BY <1>s, <3>s
    <3>3. thread'[u].at # "refused"
      BY <1>s, <2>3, <2>4, <3>s DEF FreshInv
    <3>4. thread'[u].at \in Publishing \union {"accepted"} => letter'[thread'[u].msg].re = i
      BY <1>s, <2>3, <2>4, <3>s, <3>1
    <3> QED BY <3>2, <3>3, <3>4
  <2>5. ASSUME client'["worker"] = client["worker"], u \in Threads, thread'[u] = thread[u]
        PROVE  /\ thread'[u].at # "refused"
               /\ thread'[u].at = "insert" => thread'[u].mail.re = i /\ thread'[u].msg \in Generated
               /\ thread'[u].at \in Publishing \union {"accepted"} => letter'[thread'[u].msg].re = i
    BY <2>3, <2>5
  <2>6. \/ \E t \in Threads : AsksToPut(t, "worker") \/ AsksToGet(t, "worker")
        \/ /\ client'["worker"] = client["worker"] /\ u \in Threads
           /\ thread'[u] = thread[u] \/ Attended("worker")
    BY <1>p, <2>0, WaiterCases
  <2> QED BY <2>1, <2>2, <2>4, <2>5, <2>6 DEF Publishing
<1>4. PlaysItsPart'
  <2>0. \A c \in Programs : c \in {"worker", "sender", "injector"}
    BY DEF Programs, Pollers
  <2>1. \A c \in Programs : client'[c].stage \in {"idle", "receiving", "sending"} \/ client'[c] = client[c]
            \/ (\E t \in Threads : GetsMessage(t, c)) \/ (c = "worker" /\ AsksAgent) \/ (c = "injector" /\ Injects)
    <3> TAKE c \in Programs
    <3> USE IdleIsIdle
    <3>1. ASSUME NEW t \in Threads, NEW d \in Programs, AsksToPut(t, d) \/ AsksToGet(t, d)
          PROVE  client'[c] = client[c] \/ client'[c].stage \in {"receiving", "sending"}
      BY <3>1 DEF AsksToPut, AsksToGet, Opens
    <3>2. ASSUME NEW t \in Threads, NEW d \in Programs, LearnsOfPut(t, d) \/ GetsNothing(t, d)
          PROVE  client'[c] = client[c] \/ client'[c].stage = "idle"
      BY <3>2 DEF LearnsOfPut, GetsNothing
    <3>3. ASSUME NEW t \in Threads, NEW d \in Programs, GetsMessage(t, d)
          PROVE  client'[c] = client[c] \/ c = d
      BY <3>3 DEF GetsMessage
    <3>4. ASSUME AsksAgent \/ Injects
          PROVE  client'[c] = client[c] \/ (c = "worker" /\ AsksAgent) \/ (c = "injector" /\ Injects)
      BY <3>4 DEF AsksAgent, Injects
    <3>5. ASSUME (\E d \in Programs : Stops(d)) \/ Crashes
          PROVE  client'[c] = client[c] \/ client'[c].stage = "idle"
      BY <3>5 DEF Stops, Crashes
    <3> QED BY <3>1, <3>2, <3>3, <3>4, <3>5, NextCases DEF Served, AnswersNobody, Stutters
  <2>2. injected \subseteq injected'
    BY NextCases
    DEF Served, AnswersNobody, AsksToPut, AsksToGet, Opens, Closes, LearnsOfPut, GetsNothing, GetsMessage,
        AsksAgent, Injects, Stops, Stutters, Calm, Crashes
  <2>3. \A c \in Programs : /\ client'[c].stage = "receiving" => c # "sender"
                            /\ client'[c].stage = "sending" => c # "injector"
    BY <1>2 DEF Awaits
  <2>4. client'["worker"].stage \in {"idle", "receiving", "run", "reply", "sending"}
    BY <1>0, <1>p, <2>1 DEF PlaysItsPart, GetsMessage, AsksAgent, Injects, Idle
  <2>5. client'["sender"].stage \in {"idle", "sending"}
    BY <1>0, <1>p, <2>1, <2>3 DEF PlaysItsPart, GetsMessage, AsksAgent, Injects, Idle
  <2>6. /\ client'["injector"].stage \in {"idle", "receiving", "inject", "notify", "give_up"}
        /\ client'["injector"].stage = "notify" => client'["injector"].msg \in injected'
    BY <1>0, <1>p, <2>1, <2>2, <2>3 DEF PlaysItsPart, GetsMessage, AsksAgent, Injects, Idle
  <2> QED BY <2>4, <2>5, <2>6 DEF PlaysItsPart
<1> QED
  <2>1. WaitInv' <=> (/\ WaitsAlone' /\ SendsReply' /\ PlaysItsPart' /\ \A c \in Programs : Awaits(c)')
    BY DEF WaitInv, WaitsAlone, SendsReply, PlaysItsPart, Awaits, BoxOf, Stage
  <2> QED BY <1>1, <1>2, <1>3, <1>4, <2>1

-----------------------------------------------------------------------------
(* What a failure costs.                                                   *)

Sound == TypeOK /\ RequestInv /\ PlaceInv /\ HandInv /\ KeptInv /\ FreshInv /\ WaitInv

LEMMA SoundParts ==
  ASSUME Sound
  PROVE  /\ TypeOK /\ RequestInv /\ PlaceInv /\ HandInv /\ KeptInv /\ FreshInv /\ WaitInv
         /\ WaitsAlone /\ SendsReply /\ PlaysItsPart /\ \A c \in Programs : Awaits(c)
         /\ \A c \in Programs : client[c].thread # 0 <=> client[c].stage \in {"receiving", "sending"}
         /\ \A c \in Programs : client[c].thread \in Threads \union {0}
         /\ {"worker", "sender", "injector"} \subseteq Programs
BY WaitParts DEF Sound, RequestInv, TypeOK, Programs, Pollers

\* A program has the answer of its request, or the message in its hands.
Answering(c, i) ==
    client[c].thread \in Threads /\ thread[client[c].thread].at = "message" /\ thread[client[c].thread].msg = i

WorkingOn(c, i) == client[c].msg = i /\ (c = "injector" \/ (c = "worker" /\ ~ReplyFailed))

Engages(c, i) == Answering(c, i) \/ WorkingOn(c, i)

Used(i) == (\E c \in Programs : Engages(c, i)) \/ Arrived(i) \/ Discarded(i) \/ HasReply(i)

LEMMA GoneIsUnused == Gone = {i \in settled : ~Used(i)}
<1>1. ASSUME NEW i \in settled
      PROVE  (\E c \in Programs : Engages(c, i)) <=> InAnswer(i) \/ WorkedOn(i)
  BY DEF Engages, Answering, WorkingOn, InAnswer, WorkedOn, Programs, Pollers, At
<1> QED BY <1>1 DEF Gone, Used

\* The message a program is engaged on.
Task(c) == IF client[c].stage = "receiving" THEN thread[client[c].thread].msg ELSE client[c].msg

LEMMA EngagedOnTask ==
  ASSUME Sound, NEW c \in Programs, NEW i \in Ids, Engages(c, i)
  PROVE  /\ i = Task(c) /\ c # "sender"
         /\ client[c].stage = "receiving" => thread[client[c].thread].at = "message"
<1>n. i # 0
  BY IdsAreNumbers
<1>1. Awaits(c)
  BY SoundParts
<1>2. ASSUME WorkingOn(c, i) PROVE client[c].stage # "receiving" /\ i = client[c].msg /\ c # "sender"
  BY <1>n, <1>1, <1>2 DEF WorkingOn, Awaits
<1>3. ASSUME Answering(c, i) PROVE client[c].stage = "receiving" /\ c # "sender"
  <2>1. client[c].stage \in {"receiving", "sending"}
    BY <1>3, SoundParts, IdsAreNumbers DEF Answering
  <2>2. client[c].stage # "sending"
    BY <1>1, <1>3 DEF Awaits, Answering, PutPoints
  <2> QED BY <1>1, <2>1, <2>2 DEF Awaits
<1> QED BY <1>2, <1>3 DEF Engages, Answering, Task

\* What a message came to stays true.
LEMMA EndsStay ==
  ASSUME Sound, [Next]_allVars, NEW i \in settled
  PROVE  /\ Arrived(i) => Arrived(i)'
         /\ Discarded(i) => Discarded(i)'
         /\ HasReply(i) => HasReply(i)'
<1> USE DEF At
<1>0. /\ TypeOK /\ RequestInv /\ PlaceInv /\ HandInv /\ i \in Ids
      /\ \A j \in Ids : Placed(j) => rows[j] # "absent"
      /\ rows[i] # "absent"
  BY SoundParts DEF RequestInv, TypeOK, ServerTypeOK, Placed
<1>1. Arrived(i) => Arrived(i)'
  <2>1. injected \subseteq injected' /\ deadlettered \subseteq deadlettered'
    BY <1>0, NextCases
    DEF Served, AnswersNobody, AsksToPut, AsksToGet, Opens, Closes, LearnsOfPut, GetsNothing, GetsMessage,
        AsksAgent, Injects, Stops, Concludes, Stutters, Calm, Crashes
  <2> QED BY <2>1 DEF Arrived
<1>2. Discarded(i) => Discarded(i)'
  <2>1. letter'[i] = letter[i]
    BY <1>0, RowEffect
  <2>2. handed[i] = 1 => handed'[i] = 1
    <3>1. handed'[i] = handed[i] \/ \E t \in Threads : thread[t].at = "message" /\ thread[t].msg = i
      BY <1>0, NextCases
      DEF Served, AnswersNobody, AsksToPut, AsksToGet, Opens, LearnsOfPut, GetsNothing, GetsMessage,
          AsksAgent, Injects, Stops, Stutters, Crashes
    <3>2. ASSUME NEW t \in Threads, thread[t].at = "message", thread[t].msg = i PROVE handed[i] = 0
      BY <1>0, <3>2 DEF HandInv
    <3> QED BY <3>1, <3>2
  <2> QED BY <2>1, <2>2 DEF Discarded
<1>3. HasReply(i) => HasReply(i)'
  <2>1. \A j \in Ids : Placed(j) => Placed(j)' /\ letter'[j] = letter[j]
    BY <1>0, RowEffect, PlacedStays
  <2> QED BY <2>1 DEF HasReply
<1> QED BY <1>1, <1>2, <1>3

\* Steps of requests that fail.
LEMMA ServedPays ==
  ASSUME Sound, NEW t \in Threads, Served(t)
  PROVE  /\ crashes' = crashes
         /\ faults' = faults \/ faults' = faults + 1
         /\ thread[t].at \in {"insert", "publish", "mark_queued"} /\ thread'[t].at \in {"mark_failed", "error"}
                => faults' = faults + 1
         /\ Settles(t) /\ thread'[t].at = "error" => faults' = faults + 1
<1> USE DEF At
<1>0. TypeOK /\ RequestInv /\ PlaceInv /\ thread \in [Threads -> Requests]
  BY SoundParts, TypeParts
<1>g. \A p \in Points : Goto(t, p) => thread'[t].at = p
  BY <1>0, GotoEffect
<1>p. {"publish", "refused", "mark_queued", "accepted", "message", "error", "mark_failed"} \subseteq Points
  BY DEF Points, PutPoints, Answers
<1>1. Serve(t) \/ ServerFails(t)
  BY DEF Served
<1>2. ASSUME InsertRow(t) PROVE faults' = faults /\ crashes' = crashes /\ thread[t].at = "insert" /\ thread'[t].at \in {"publish", "refused"}
  BY <1>g, <1>p, <1>2 DEF InsertRow
<1>3. ASSUME PublishRow(t)
      PROVE  /\ crashes' = crashes /\ thread[t].at = "publish"
             /\ faults' = faults + 1 \/ (faults' = faults /\ thread'[t].at = "mark_queued")
  BY <1>g, <1>p, <1>3 DEF PublishRow, Fault
<1>4. ASSUME MarkPublished(t)
      PROVE  /\ crashes' = crashes /\ faults' = faults
             /\ (thread[t].at = "mark_queued" /\ thread'[t].at = "accepted") \/ thread[t].at = "mark_failed"
  BY <1>g, <1>p, <1>4 DEF MarkPublished
<1>5. ASSUME PutFails(t) PROVE faults' = faults + 1 /\ crashes' = crashes
  BY <1>5 DEF PutFails, Fault
<1>6. ASSUME FetchMessage(t) \/ MarkDelivered(t)
      PROVE  crashes' = crashes /\ (faults' = faults \/ faults' = faults + 1) /\ thread[t].at \in {"fetch", "mark_delivered"}
  BY <1>6 DEF FetchMessage, MarkDelivered, Fault
<1>7. ASSUME LoseConnection(t) PROVE crashes' = crashes /\ faults' = faults + 1
  BY <1>7 DEF LoseConnection, Fault
<1>8. ASSUME AckMessage(t)
      PROVE  /\ crashes' = crashes /\ thread[t].at = "ack"
             /\ \/ faults' = faults + 1
                \/ faults' = faults /\ thread'[t].at = "message"
                \/ faults' = faults /\ ~Holds(t)
  BY <1>g, <1>p, <1>8 DEF AckMessage, Fault
<1>9. Settles(t) => thread[t].at = "ack" /\ Holds(t)
  BY DEF Settles
<1> QED BY <1>1, <1>2, <1>3, <1>4, <1>5, <1>6, <1>7, <1>8, <1>9
    DEF Serve, PutMessage, GetMessage, ServerFails

\* How a program can lose the message it is engaged on.
LosesReply(c) ==
    /\ c = "worker" /\ client[c].thread \in Threads /\ faults' = faults + 1
    /\ Attended(c) /\ thread'[client[c].thread] # thread[client[c].thread]
    /\ thread[client[c].thread].at \in {"insert", "publish", "mark_queued"}

Dies(c) == Stops(c) /\ faults' = faults + 1

\* A program with a message keeps it, passes it on or pays for it.
LEMMA EngagesNext ==
  ASSUME Sound, [Next]_allVars, NEW c \in Programs, NEW i \in settled, Engages(c, i)
  PROVE  Used(i)' \/ LosesReply(c) \/ Dies(c) \/ (Crashes /\ client[c].thread # 0)
<1> USE DEF At
<1>0. /\ TypeOK /\ RequestInv /\ PlaceInv /\ HandInv /\ KeptInv /\ FreshInv /\ WaitInv
      /\ WaitsAlone /\ SendsReply /\ PlaysItsPart /\ Awaits(c)
      /\ client[c].thread # 0 <=> client[c].stage \in {"receiving", "sending"}
      /\ client[c].thread \in Threads \union {0}
      /\ i \in Ids /\ i # 0
  <2>1. i \in Ids
    BY SoundParts DEF TypeOK, ServerTypeOK
  <2> QED BY <2>1, SoundParts, IdsAreNumbers
<1>i. Idle.stage = "idle" /\ Idle.thread = 0 /\ Idle.msg = 0
  BY IdleIsIdle
<1>e. /\ i = Task(c) /\ c # "sender"
      /\ client[c].stage = "receiving" => thread[client[c].thread].at = "message"
  BY <1>0, EngagedOnTask
<1>u. Engages(c, i)' => Used(i)'
  BY DEF Used
\* Nobody touches the program.
<1>1. ASSUME client'[c] = client[c] PROVE Engages(c, i)' \/ Used(i)' \/ LosesReply(c)
  <2>1. CASE client[c].thread = 0
    <3>1. client[c].msg = i /\ c \in {"worker", "injector"} /\ client[c].stage \notin {"receiving", "sending"}
      BY <1>0, <1>e, <2>1, IdsAreNumbers DEF Task, Engages, WorkingOn, Answering
    <3> QED BY <1>1, <3>1 DEF Engages, WorkingOn, ReplyFailed, Stage
  <2>2. CASE client[c].thread # 0
    <3> DEFINE t == client[c].thread
    <3>0. t \in Threads
      BY <1>0, <2>2
    <3>1. thread'[t] = thread[t] \/ Attended(c)
      <4>1. ASSUME NEW u \in Threads, AsksToPut(u, c) \/ AsksToGet(u, c) PROVE FALSE
        <5>1. client[c].stage \in {"idle", "reply"}
          BY <4>1 DEF AsksToPut, AsksToGet
        <5> QED BY <1>0, <2>2, <5>1
      <4> QED BY <1>0, <1>1, <2>2, <4>1, WaiterCases
    <3>2. CASE thread'[t] = thread[t]
      <4>1. Answering(c, i) => Answering(c, i)'
        BY <1>1, <3>2 DEF Answering
      <4>2. WorkingOn(c, i) => WorkingOn(c, i)'
        BY <1>1, <3>2 DEF WorkingOn, ReplyFailed, Stage
      <4> QED BY <4>1, <4>2 DEF Engages
    <3>3. CASE Attended(c) /\ thread'[t] # thread[t]
      <4>0. PICK s \in Threads : s = t /\ Served(s)
        BY <3>3 DEF Attended
      <4>1. thread[t].at \in PutPoints \union GetPoints \union {"accepted"}
        BY <4>0 DEF Served, Inserts, GivesUp, Publishes, Marks, Takes, Delivers, Returns, Settles, PutPoints, GetPoints
      <4>2. client[c].stage = "sending" /\ thread[t].at \in PutPoints \union {"accepted"}
        <5>1. client[c].stage # "receiving"
          BY <1>e, <4>1 DEF PutPoints, GetPoints
        <5>2. client[c].stage = "sending"
          BY <1>0, <2>2, <5>1
        <5> QED BY <1>0, <4>1, <5>2 DEF Awaits, PutPoints, GetPoints
      <4>3. c = "worker" /\ client[c].msg = i
        BY <1>0, <1>e, <4>2 DEF Awaits, Task, Programs, Pollers
      <4>4. WorkingOn(c, i) /\ thread[t].at \notin {"mark_failed", "error"}
        BY <1>e, <4>2, <4>3 DEF Engages, Answering, WorkingOn, ReplyFailed, Stage, PutPoints
      <4>5. CASE thread'[t].at \in {"mark_failed", "error"}
        <5>1. CASE thread[t].at = "accepted"
          <6>1. letter[thread[t].msg].re = i /\ thread[t].msg \in Ids /\ Placed(thread[t].msg)
            BY <1>0, <3>0, <4>2, <4>3, <5>1 DEF SendsReply, KeptInv, RequestInv, Laden
          <6>2. HasReply(i)
            BY <6>1 DEF HasReply
          <6> QED BY <6>2, EndsStay DEF Used
        <5>2. CASE thread[t].at # "accepted"
          <6>1. thread[t].at \in {"insert", "publish", "mark_queued"}
            BY <4>2, <4>4, <5>2 DEF PutPoints
          <6>2. faults' = faults + 1
            BY <4>0, <4>5, <6>1, ServedPays
          <6> QED BY <3>0, <3>3, <4>3, <6>1, <6>2 DEF LosesReply
        <5> QED BY <5>1, <5>2
      <4>6. CASE thread'[t].at \notin {"mark_failed", "error"}
        BY <1>1, <4>3, <4>6 DEF Engages, WorkingOn, ReplyFailed, Stage
      <4> QED BY <4>5, <4>6
    <3> QED BY <3>1, <3>2, <3>3
  <2> QED BY <2>1, <2>2
\* It asks.
<1>2. ASSUME NEW t \in Threads, AsksToPut(t, c) PROVE Used(i)'
  <2>1. c = "worker" /\ client[c].stage = "reply"
    BY <1>2, <1>e DEF AsksToPut
  <2>2. client[c].msg = i
    BY <1>e, <2>1 DEF Task
  <2>3. /\ client'[c].msg = i /\ client'[c].thread = t /\ thread'[t].at = "insert"
    BY <1>2, <2>1, <2>2 DEF AsksToPut, Opens
  <2> QED BY <1>u, <2>1, <2>3 DEF Engages, WorkingOn, ReplyFailed
<1>3. ASSUME NEW t \in Threads, AsksToGet(t, c) PROVE FALSE
  <2>1. client[c].stage = "idle" /\ client[c].msg = 0
    BY <1>0, <1>3 DEF AsksToGet, Awaits
  <2> QED BY <1>0, <1>e, <2>1 DEF Task
\* It is answered.
<1>4. ASSUME NEW t \in Threads, LearnsOfPut(t, c) PROVE Used(i)'
  <2>1. /\ client[c].stage = "sending" /\ client[c].thread = t
        /\ thread[t].at \in {"accepted", "refused", "error"}
    BY <1>4 DEF LearnsOfPut
  <2>2. c = "worker" /\ client[c].msg = i
    BY <1>0, <1>e, <2>1 DEF Awaits, Task, Programs, Pollers
  <2>3. thread[t].at # "error"
    BY <2>1, <2>2 DEF Engages, Answering, WorkingOn, ReplyFailed, Stage
  <2>4. thread[t].at = "accepted" /\ letter[thread[t].msg].re = i
    BY <1>0, <2>1, <2>2, <2>3 DEF SendsReply
  <2>5. thread[t].msg \in Ids /\ Placed(thread[t].msg)
    BY <1>0, <2>4 DEF KeptInv, RequestInv, Laden
  <2>6. HasReply(i)
    BY <2>4, <2>5 DEF HasReply
  <2> QED BY <2>6, EndsStay DEF Used
<1>5. ASSUME NEW t \in Threads, GetsNothing(t, c) PROVE FALSE
  BY <1>e, <1>5 DEF GetsNothing
<1>6. ASSUME NEW t \in Threads, GetsMessage(t, c) PROVE Used(i)'
  <2>1. client[c].stage = "receiving" /\ client[c].thread = t /\ thread[t].at = "message"
    BY <1>6 DEF GetsMessage
  <2>2. i = thread[t].msg
    BY <1>e, <2>1 DEF Task
  <2>3. CASE client'[c] = Idle /\ c = "worker" /\ IsSelfAddressed(thread[t].msg)
    <3>1. handed[i] = 0 /\ handed'[i] = handed[i] + 1
      BY <1>0, <1>6, <2>1, <2>2 DEF HandInv, GetsMessage
    <3>2. letter' = letter
      BY <1>6 DEF GetsMessage, Closes, Quiet
    <3>3. handed'[i] = 1
      BY <3>1
    <3>4. Discarded(i)'
      BY <2>2, <2>3, <3>2, <3>3 DEF Discarded, IsSelfAddressed
    <3> QED BY <3>4 DEF Used
  <2>4. CASE /\ client'[c].thread = 0 /\ client'[c].msg = thread[t].msg
             /\ \/ c = "worker" /\ client'[c].stage = "run"
                \/ c = "injector" /\ client'[c].stage = "inject"
    BY <1>u, <2>2, <2>4 DEF Engages, WorkingOn, ReplyFailed, Stage
  <2> QED BY <1>6, <2>3, <2>4 DEF GetsMessage
\* It works.
<1>7. ASSUME AsksAgent, c = "worker" PROVE Used(i)'
  <2>1. client[c].msg = i
    BY <1>7, <1>e DEF AsksAgent, Stage, Task
  <2> QED BY <1>u, <1>7, <2>1 DEF AsksAgent, Engages, WorkingOn, ReplyFailed, Stage
<1>8. ASSUME Injects, c = "injector" PROVE Used(i)'
  <2>1. client[c].msg = i
    BY <1>8, <1>e DEF Injects, Task
  <2> QED BY <1>u, <1>8, <2>1 DEF Injects, Engages, WorkingOn
<1>9. ASSUME Stops(c) PROVE Used(i)' \/ Dies(c)
  <2>1. CASE faults' = faults + 1
    BY <1>9, <2>1 DEF Dies
  <2>2. CASE Concludes(c) /\ UNCHANGED injected
    <3>1. /\ c = "injector"
          /\ \/ client[c].stage = "notify"
             \/ client[c].stage = "give_up" /\ deadlettered' = deadlettered \union {client[c].msg}
      BY <2>2 DEF Concludes, Stage
    <3>2. client[c].msg = i
      BY <1>e, <3>1 DEF Task
    <3>3. client[c].stage = "notify" => i \in injected
      BY <1>0, <3>1, <3>2 DEF PlaysItsPart
    <3>4. Arrived(i)'
      BY <2>2, <3>1, <3>2, <3>3 DEF Arrived
    <3> QED BY <3>4 DEF Used
  <2> QED BY <1>9, <2>1, <2>2 DEF Stops
\* One of these is the case.
<1>10. \/ client'[c] = client[c]
       \/ \E t \in Threads : \/ AsksToPut(t, c) \/ AsksToGet(t, c)
                             \/ LearnsOfPut(t, c) \/ GetsNothing(t, c) \/ GetsMessage(t, c)
       \/ (AsksAgent /\ c = "worker") \/ (Injects /\ c = "injector") \/ Stops(c)
       \/ Crashes /\ client[c].thread # 0
  <2>1. ASSUME NEW t \in Threads, NEW d \in Programs, d # c,
               \/ AsksToPut(t, d) \/ AsksToGet(t, d)
               \/ LearnsOfPut(t, d) \/ GetsNothing(t, d) \/ GetsMessage(t, d)
        PROVE  client'[c] = client[c]
    BY <2>1 DEF AsksToPut, AsksToGet, Opens, LearnsOfPut, GetsNothing, GetsMessage
  <2>2. ASSUME NEW d \in Programs, Stops(d), d # c PROVE client'[c] = client[c]
    BY <2>2 DEF Stops
  <2>3. AsksAgent => c = "worker" \/ client'[c] = client[c]
    BY DEF AsksAgent
  <2>4. Injects => c = "injector" \/ client'[c] = client[c]
    BY DEF Injects
  <2>5. Crashes => client[c].thread # 0 \/ client'[c] = client[c]
    BY DEF Crashes
  <2> QED BY <1>0, <2>1, <2>2, <2>3, <2>4, <2>5, NextCases DEF Served, AnswersNobody, Stutters
<1> QED BY <1>u, <1>1, <1>2, <1>3, <1>4, <1>5, <1>6, <1>7, <1>8, <1>9, <1>10

\* A request becomes an orphan when its program dies, and no other way.
LEMMA OrphansNext ==
  ASSUME Sound, [Next]_allVars, NEW u \in Orphans', u \notin Orphans
  PROVE  \E c \in Programs : Dies(c) /\ client[c].thread = u /\ thread[u].at \in GetPoints
<1> USE DEF At
<1>0. /\ u \in Threads /\ thread'[u].at \in GetPoints
      /\ \A c \in Programs : client'[c].thread # u
      /\ u # 0
  BY IdsAreNumbers DEF Orphans
<1>t. TypeOK /\ RequestInv /\ PlaceInv
  BY SoundParts
<1>1. thread[u].at \in GetPoints
  <2>1. ASSUME Served(u) PROVE thread[u].at \in GetPoints
    BY <1>0, <2>1 DEF Served, Inserts, GivesUp, Publishes, Marks, Takes, Delivers, Returns, Settles, Passes, GetPoints
  <2>2. ASSUME NEW c \in Programs, AsksToPut(u, c) \/ AsksToGet(u, c) PROVE FALSE
    BY <1>0, <2>2 DEF AsksToPut, AsksToGet, Opens
  <2>3. "idle" \notin GetPoints
    BY DEF GetPoints
  <2> QED BY <1>0, <1>t, <2>1, <2>2, <2>3, ThreadCases
<1>2. PICK c \in Programs : client[c].thread = u
  BY <1>0, <1>1 DEF Orphans
<1>3. client'[c].thread # client[c].thread /\ client[c].stage \in {"receiving", "sending"}
  BY <1>0, <1>2, SoundParts
<1>4. ASSUME NEW t \in Threads, NEW d \in Programs,
             \/ AsksToPut(t, d) \/ AsksToGet(t, d)
             \/ LearnsOfPut(t, d) \/ GetsNothing(t, d) \/ GetsMessage(t, d)
      PROVE  FALSE
  <2>1. d = c
    BY <1>3, <1>4 DEF AsksToPut, AsksToGet, Opens, LearnsOfPut, GetsNothing, GetsMessage
  <2>2. client[c].stage \in {"idle", "reply"} \/ (t = u /\ thread[t].at \in Answers)
    BY <1>2, <1>4, <2>1 DEF AsksToPut, AsksToGet, LearnsOfPut, GetsNothing, GetsMessage, Closes
  <2> QED BY <1>1, <1>3, <2>2 DEF Answers, GetPoints
<1>5. ASSUME AsksAgent \/ Injects PROVE FALSE
  BY <1>3, <1>5 DEF AsksAgent, Injects
<1>6. ASSUME NEW d \in Programs, Stops(d) PROVE Dies(c)
  <2>1. d = c
    BY <1>3, <1>6 DEF Stops
  <2>2. ~Concludes(c)
    BY <1>3 DEF Concludes, Stage
  <2> QED BY <1>6, <2>1, <2>2 DEF Stops, Dies
<1>7. ASSUME Crashes PROVE FALSE
  BY <1>0, <1>7 DEF Crashes, GetPoints
<1> QED BY <1>t, <1>1, <1>2, <1>3, <1>4, <1>5, <1>6, <1>7, NextCases DEF Served, AnswersNobody, Stutters

\* What a step does to the count of failures.
LEMMA FailuresNext ==
  ASSUME Sound, [Next]_allVars
  PROVE  \/ UNCHANGED <<faults, crashes>>
         \/ faults' = faults + 1 /\ crashes' = crashes
         \/ Crashes /\ faults' = faults /\ crashes' = crashes + 1
<1>1. ASSUME NEW t \in Threads, Served(t) PROVE (faults' = faults \/ faults' = faults + 1) /\ crashes' = crashes
  BY <1>1, ServedPays
<1> QED BY <1>1, NextCases, SoundParts
    DEF AnswersNobody, AsksToPut, AsksToGet, Opens, Closes, LearnsOfPut, GetsNothing, GetsMessage,
        AsksAgent, Injects, Stops, Stutters, Calm, Crashes

LEMMA SettledNext ==
  ASSUME Sound, [Next]_allVars
  PROVE  settled' = settled \/ \E t \in Threads : Served(t) /\ Settles(t)
<1>1. ASSUME NEW t \in Threads, Served(t), ~Settles(t) PROVE settled' = settled
  BY <1>1 DEF Served, Inserts, GivesUp, Publishes, Marks, Takes, Delivers, Returns
<1> QED BY <1>1, NextCases, SoundParts
    DEF AnswersNobody, AsksToPut, AsksToGet, Opens, Closes, LearnsOfPut, GetsNothing, GetsMessage,
        AsksAgent, Injects, Stops, Stutters, Local, Quiet, Crashes

\* Messages are gone that were gone before, or that a program has lost.
LEMMA GoneGrows ==
  ASSUME Sound, [Next]_allVars, NEW S,
         \A i \in settled' : i \in settled \/ i \in S \/ Used(i)',
         \A c \in Programs, i \in settled : Engages(c, i) => Used(i)' \/ i \in S
  PROVE  Gone' \subseteq Gone \union S
<1>1. Gone' = {i \in settled' : ~Used(i)'}
  <2>1. ASSUME NEW i \in settled'
        PROVE  (\E c \in Programs : Engages(c, i)') <=> InAnswer(i)' \/ WorkedOn(i)'
    <3>1. {"worker", "injector"} \subseteq Programs /\ \A c \in Programs : c \in {"worker", "injector", "sender"}
      BY DEF Programs, Pollers
    <3>2. (\E c \in Programs : Answering(c, i)') <=> InAnswer(i)'
      BY DEF Answering, InAnswer, At
    <3>3. (\E c \in Programs : WorkingOn(c, i)') <=> WorkedOn(i)'
      BY <3>1 DEF WorkingOn, WorkedOn
    <3> QED BY <3>2, <3>3 DEF Engages
  <2> QED BY <2>1 DEF Gone, Used
<1>2. ASSUME NEW i \in settled, Used(i), i \notin S PROVE Used(i)'
  BY <1>2, EndsStay DEF Used
<1> QED BY <1>1, <1>2, GoneIsUnused

\* Every step leaves the debt as it is or pays for what it adds.
LEMMA DebtCases ==
  ASSUME Sound, [Next]_allVars
  PROVE  \/ /\ Gone' \subseteq Gone /\ Orphans' \subseteq Orphans
         \/ /\ UNCHANGED <<faults, crashes>>
            /\ \E x, t : t \in Orphans /\ Gone' \subseteq Gone \union {x} /\ Orphans' \subseteq Orphans \ {t}
         \/ /\ faults' = faults + 1 /\ crashes' = crashes
            /\ \/ \E x : Gone' \subseteq Gone \union {x} /\ Orphans' \subseteq Orphans
               \/ \E t : Gone' \subseteq Gone /\ Orphans' \subseteq Orphans \union {t}
         \/ /\ faults' = faults /\ crashes' = crashes + 1
            /\ \E x, y : Gone' \subseteq Gone \union {x, y} /\ Orphans' \subseteq Orphans
<1> USE DEF At
<1>t. /\ TypeOK /\ RequestInv /\ PlaceInv /\ faults \in Nat /\ crashes \in Nat
      /\ settled \subseteq Ids
      /\ faults + 1 # faults /\ crashes + 1 # crashes
  <2>1. TypeOK /\ RequestInv /\ PlaceInv
    BY SoundParts
  <2>2. faults \in Nat /\ crashes \in Nat /\ settled \subseteq Ids
    BY <2>1, TypeParts
  <2>3. \A n \in Nat : n + 1 # n
    OBVIOUS
  <2> QED BY <2>1, <2>2, <2>3
<1>o. ASSUME ~ \E c \in Programs : Dies(c) PROVE Orphans' \subseteq Orphans
  BY <1>o, OrphansNext
\* A delivery is settled.
<1>1. ASSUME NEW t \in Threads, Served(t), Settles(t)
      PROVE  \/ Gone' \subseteq Gone /\ Orphans' \subseteq Orphans
             \/ UNCHANGED <<faults, crashes>> /\ t \in Orphans
                /\ Gone' \subseteq Gone \union {thread[t].msg} /\ Orphans' \subseteq Orphans \ {t}
             \/ faults' = faults + 1 /\ crashes' = crashes
                /\ Gone' \subseteq Gone \union {thread[t].msg} /\ Orphans' \subseteq Orphans
  <2> DEFINE m == thread[t].msg
  <2>0. /\ thread[t].at = "ack" /\ thread'[t].at \in {"message", "error"} /\ thread'[t].msg = m
        /\ settled' = settled \union {m}
        /\ client' = client
        /\ thread'[t] # thread[t]
        /\ m \in Ids
    BY <1>1, <1>t DEF Settles, Passes, Served, RequestInv, Laden
  <2>1. \A c \in Programs : ~Stops(c)
    BY <2>0 DEF Stops, Local
  <2>2. \A c \in Programs : ~LosesReply(c)
    <3> SUFFICES ASSUME NEW c \in Programs, LosesReply(c) PROVE FALSE
      OBVIOUS
    <3>1. client[c].thread \in Threads /\ client[c].thread # t /\ thread'[client[c].thread] # thread[client[c].thread]
      BY <2>0 DEF LosesReply
    <3> QED BY <1>1, <3>1 DEF Served, Others
  <2>3. ~Crashes
    BY <2>0 DEF Crashes
  <2>4. \A c \in Programs, i \in settled : Engages(c, i) => Used(i)'
    BY <2>1, <2>2, <2>3, EngagesNext DEF Dies
  <2>5. Gone' \subseteq Gone \union {m}
    BY <2>0, <2>4, GoneGrows
  <2>6. Orphans' \subseteq Orphans
    BY <1>o, <2>1 DEF Dies
  <2>7. CASE faults' = faults + 1
    BY <1>1, <2>5, <2>6, <2>7, ServedPays
  <2>8. CASE faults' # faults + 1
    <3>1. UNCHANGED <<faults, crashes>> /\ thread'[t].at = "message"
      BY <1>1, <2>0, <2>8, ServedPays
    <3>2. CASE t \in Orphans
      <4>1. t \notin Orphans'
        BY <3>1 DEF Orphans, GetPoints
      <4> QED BY <2>5, <2>6, <3>1, <3>2, <4>1
    <3>3. CASE t \notin Orphans
      <4>1. PICK c \in Programs : client[c].thread = t
        BY <2>0, <3>3 DEF Orphans, GetPoints
      <4>2. Answering(c, m)'
        BY <2>0, <3>1, <4>1 DEF Answering
      <4>3. Used(m)'
        BY <4>2 DEF Used, Engages
      <4>4. Gone' \subseteq Gone \union {}
        BY <2>0, <2>4, <4>3, GoneGrows
      <4> QED BY <2>6, <4>4
    <3> QED BY <3>2, <3>3
  <2> QED BY <2>7, <2>8
\* Nothing fails.
<1>2. ASSUME settled' = settled, UNCHANGED <<faults, crashes>>
      PROVE  Gone' \subseteq Gone /\ Orphans' \subseteq Orphans
  <2>1. \A c \in Programs : ~LosesReply(c) /\ ~Dies(c)
    BY <1>2, <1>t DEF LosesReply, Dies
  <2>2. ~Crashes
    BY <1>2, <1>t DEF Crashes
  <2>3. \A c \in Programs, i \in settled : Engages(c, i) => Used(i)'
    BY <2>1, <2>2, EngagesNext
  <2>4. Gone' \subseteq Gone \union {}
    BY <1>2, <2>3, GoneGrows
  <2> QED BY <1>o, <2>1, <2>4
\* A program dies.
<1>3. ASSUME NEW c \in Programs, Dies(c), settled' = settled
      PROVE  \/ Gone' \subseteq Gone \union {Task(c)} /\ Orphans' \subseteq Orphans
             \/ Gone' \subseteq Gone /\ Orphans' \subseteq Orphans \union {client[c].thread}
                /\ client[c].thread \in Threads
  <2>0. UNCHANGED thread /\ client'[c] = Idle
        /\ \A d \in Programs : d # c => client'[d] = client[d]
    BY <1>3 DEF Dies, Stops, Local
  <2>1. \A d \in Programs : ~LosesReply(d)
    BY <2>0 DEF LosesReply
  <2>2. ~Crashes
    BY <1>3, <1>t DEF Dies, Crashes
  <2>3. ASSUME NEW d \in Programs, NEW i \in settled, Engages(d, i), ~Used(i)' PROVE d = c /\ i = Task(c)
    <3>1. Dies(d)
      BY <2>1, <2>2, <2>3, EngagesNext
    <3>2. ASSUME d # c PROVE FALSE
      <4>1. Engages(d, i)'
        BY <2>0, <2>3, <3>2 DEF Engages, Answering, WorkingOn, ReplyFailed, Stage
      <4> QED BY <2>3, <4>1 DEF Used
    <3> QED BY <1>t, <2>3, <3>2, EngagedOnTask
  <2>4. Gone' \subseteq Gone \union {Task(c)}
    BY <1>3, <2>3, GoneGrows
  <2>5. CASE Orphans' \subseteq Orphans
    BY <2>4, <2>5
  <2>6. ASSUME NEW u \in Orphans', u \notin Orphans
        PROVE  Gone' \subseteq Gone /\ u = client[c].thread
    <3>1. PICK d \in Programs : Dies(d) /\ client[d].thread = u /\ thread[u].at \in GetPoints
      BY <2>6, OrphansNext
    <3>2. d = c
      <4>1. client'[d].thread # u
        BY <2>6 DEF Orphans
      <4> QED BY <2>0, <3>1, <4>1
    <3>3. client[c].stage = "receiving"
      <4>1. u # 0
        BY <2>6, IdsAreNumbers DEF Orphans
      <4> QED BY <3>1, <3>2, <4>1, SoundParts DEF Awaits, GetPoints, PutPoints
    <3>4. ASSUME NEW i \in settled, Engages(c, i) PROVE FALSE
      BY <1>t, <3>1, <3>2, <3>3, <3>4, EngagedOnTask DEF GetPoints
    <3>5. Gone' \subseteq Gone \union {}
      BY <1>3, <2>3, <3>4, GoneGrows
    <3> QED BY <3>1, <3>2, <3>5
  <2>7. \A u \in Orphans' : u \in Threads
    BY DEF Orphans
  <2> QED BY <2>5, <2>6, <2>7
\* A request fails, and perhaps the reply of the worker with it.
<1>4. ASSUME faults' = faults + 1, crashes' = crashes, settled' = settled, ~ \E c \in Programs : Dies(c)
      PROVE  Gone' \subseteq Gone \union {Task("worker")} /\ Orphans' \subseteq Orphans
  <2>1. ~Crashes
    BY <1>4, <1>t DEF Crashes
  <2>2. ASSUME NEW c \in Programs, NEW i \in settled, Engages(c, i), ~Used(i)' PROVE i = Task("worker")
    <3>1. LosesReply(c)
      BY <1>4, <2>1, <2>2, EngagesNext
    <3> QED BY <1>t, <2>2, <3>1, EngagedOnTask DEF LosesReply
  <2>3. Gone' \subseteq Gone \union {Task("worker")}
    BY <1>4, <2>2, GoneGrows
  <2> QED BY <1>4, <1>o, <2>3
\* The relay dies.
<1>5. ASSUME Crashes
      PROVE  /\ Gone' \subseteq Gone \union {Task("worker"), Task("injector")} /\ Orphans' \subseteq Orphans
             /\ faults' = faults /\ crashes' = crashes + 1
  <2>0. settled' = settled /\ faults' = faults /\ crashes' = crashes + 1
    BY <1>5 DEF Crashes
  <2>1. ASSUME NEW c \in Programs, NEW i \in settled, Engages(c, i)
        PROVE  i \in {Task("worker"), Task("injector")}
    BY <1>t, <2>1, EngagedOnTask DEF Programs, Pollers
  <2>2. Gone' \subseteq Gone \union {Task("worker"), Task("injector")}
    BY <2>0, <2>1, GoneGrows
  <2>3. Orphans' = {}
    BY <1>5 DEF Crashes, Orphans, GetPoints
  <2> QED BY <2>0, <2>2, <2>3
<1> QED
  <2>1. CASE \E t \in Threads : Served(t) /\ Settles(t)
    BY <1>1, <2>1
  <2>2. CASE settled' = settled
    <3>1. CASE UNCHANGED <<faults, crashes>>
      BY <1>2, <2>2, <3>1
    <3>2. CASE faults' = faults + 1 /\ crashes' = crashes
      <4>1. CASE \E c \in Programs : Dies(c)
        <5>1. PICK c \in Programs : Dies(c)
          BY <4>1
        <5> QED BY <1>3, <2>2, <3>2, <5>1
      <4>2. CASE ~ \E c \in Programs : Dies(c)
        BY <1>4, <2>2, <3>2, <4>2
      <4> QED BY <4>1, <4>2
    <3>3. CASE Crashes
      BY <1>5, <3>3
    <3> QED BY <3>1, <3>2, <3>3, FailuresNext
  <2> QED BY <2>1, <2>2, SettledNext

-----------------------------------------------------------------------------
(* Counting.                                                               *)

LEMMA OneMore ==
  ASSUME NEW A, IsFiniteSet(A), NEW x, NEW B, B \subseteq A \union {x}
  PROVE  IsFiniteSet(B) /\ Cardinality(B) <= Cardinality(A) + 1
<1>1. /\ IsFiniteSet(A \union {x}) /\ Cardinality(A) \in Nat
      /\ Cardinality(A \union {x}) = Cardinality(A) \/ Cardinality(A \union {x}) = Cardinality(A) + 1
  BY FS_AddElement, FS_CardinalityType
<1>2. /\ IsFiniteSet(B) /\ Cardinality(B) <= Cardinality(A \union {x})
      /\ Cardinality(B) \in Nat /\ Cardinality(A \union {x}) \in Nat
  BY <1>1, FS_Subset, FS_CardinalityType
<1> QED BY <1>1, <1>2

LEMMA OneLess ==
  ASSUME NEW A, IsFiniteSet(A), NEW x \in A, NEW B, B \subseteq A \ {x}
  PROVE  IsFiniteSet(B) /\ Cardinality(B) + 1 <= Cardinality(A)
<1>1. /\ IsFiniteSet(A \ {x}) /\ Cardinality(A) \in Nat
      /\ Cardinality(A \ {x}) = Cardinality(A) - 1
  BY FS_RemoveElement, FS_CardinalityType
<1>2. /\ IsFiniteSet(B) /\ Cardinality(B) <= Cardinality(A \ {x})
      /\ Cardinality(B) \in Nat
  BY <1>1, FS_Subset, FS_CardinalityType
<1> QED BY <1>1, <1>2

LEMMA TwoPollers == Cardinality(Pollers) = 2
<1>1. IsFiniteSet({"worker"}) /\ Cardinality({"worker"}) = 1
  BY FS_Singleton
<1>2. "injector" \notin {"worker"}
  OBVIOUS
<1>3. Cardinality({"worker"} \union {"injector"}) = Cardinality({"worker"}) + 1
  BY <1>1, <1>2, FS_AddElement
<1>4. Pollers = {"worker"} \union {"injector"}
  BY DEF Pollers
<1> QED BY <1>1, <1>3, <1>4

\* g messages are gone and o requests are orphans, for f faults and c crashes; h, p, e
\* and d are what the next step makes of these numbers.
Pays(g, o, f, c, h, p, e, d) ==
    \/ h <= g /\ p <= o /\ ((e = f /\ d = c) \/ (e = f + 1 /\ d = c) \/ (e = f /\ d = c + 1))
    \/ h <= g + 1 /\ p + 1 <= o /\ e = f /\ d = c
    \/ h + p <= g + o + 1 /\ e = f + 1 /\ d = c
    \/ h <= g + 2 /\ p <= o /\ e = f /\ d = c + 1

LEMMA DebtIsPaid ==
  \A g, o, f, c, h, p, e, d \in Nat :
      Pays(g, o, f, c, h, p, e, d) /\ g + o <= f + c * 2 => h + p <= e + d * 2
BY DEF Pays

LEMMA DebtNext ==
  ASSUME Sound, DebtInv, [Next]_allVars
  PROVE  DebtInv'
<1>t. /\ faults \in Nat /\ crashes \in Nat /\ faults' \in Nat /\ crashes' \in Nat
  <2>1. TypeOK /\ TypeOK'
    BY SoundParts, TypeNext
  <2> QED BY <2>1, TypeParts DEF TypeOK, ServerTypeOK
<1>1. IsFiniteSet(settled) /\ IsFiniteSet(settled')
  <2>1. IsFiniteSet(settled)
    BY DEF DebtInv
  <2>2. settled' = settled \/ \E x : settled' = settled \union {x}
    BY SettledNext DEF Settles
  <2> QED BY <2>1, <2>2, FS_AddElement
<1>2. /\ IsFiniteSet(Gone) /\ IsFiniteSet(Gone')
      /\ IsFiniteSet(Orphans) /\ IsFiniteSet(Orphans')
  <2>1. Gone \subseteq settled /\ Gone' \subseteq settled' /\ Orphans \subseteq Threads /\ Orphans' \subseteq Threads
    BY DEF Gone, Orphans
  <2>2. IsFiniteSet(Threads)
    BY MailboxAssumption, FS_Interval DEF Threads
  <2> QED BY <1>1, <2>1, <2>2, FS_Subset
<1>3. /\ Cardinality(Gone) \in Nat /\ Cardinality(Gone') \in Nat
      /\ Cardinality(Orphans) \in Nat /\ Cardinality(Orphans') \in Nat
  BY <1>2, FS_CardinalityType
<1> DEFINE g == Cardinality(Gone)
           o == Cardinality(Orphans)
           h == Cardinality(Gone')
           p == Cardinality(Orphans')
<1>4. Pays(g, o, faults, crashes, h, p, faults', crashes')
  <2>g. Gone' \subseteq Gone => h <= g
    BY <1>2, FS_Subset
  <2>o. Orphans' \subseteq Orphans => p <= o
    BY <1>2, FS_Subset
  <2>s. \A x : Gone' \subseteq Gone \union {x} => h <= g + 1
    BY <1>2, OneMore
  <2>q. \A x : Orphans' \subseteq Orphans \union {x} => p <= o + 1
    BY <1>2, OneMore
  <2>l. \A x : x \in Orphans /\ Orphans' \subseteq Orphans \ {x} => p + 1 <= o
    BY <1>2, OneLess
  <2>d. \A x, y : Gone' \subseteq Gone \union {x, y} => h <= g + 2
    <3> SUFFICES ASSUME NEW x, NEW y, Gone' \subseteq Gone \union {x, y} PROVE h <= g + 2
      OBVIOUS
    <3>1. IsFiniteSet(Gone \union {x}) /\ Cardinality(Gone \union {x}) <= g + 1
      BY <1>2, OneMore
    <3>2. h <= Cardinality(Gone \union {x}) + 1
      BY <3>1, OneMore
    <3>3. Cardinality(Gone \union {x}) \in Nat
      BY <3>1, FS_CardinalityType
    <3>4. \A a, b, c \in Nat : a <= b + 1 /\ b <= c + 1 => a <= c + 2
      OBVIOUS
    <3> QED BY <1>3, <3>1, <3>2, <3>3, <3>4
  <2>a. \A a, b, c, d \in Nat : /\ a <= c + 1 /\ b <= d => a + b <= c + d + 1
                                /\ a <= c /\ b <= d + 1 => a + b <= c + d + 1
    OBVIOUS
  <2> DEFINE M == h + p <= g + o + 1
  <2>m. /\ h <= g + 1 /\ p <= o => M
        /\ h <= g /\ p <= o + 1 => M
    BY <1>3, <2>a, Zenon
  <2> HIDE DEF g, o, h, p, M
  <2>c. Pays(g, o, faults, crashes, h, p, faults', crashes')
             <=> \/ h <= g /\ p <= o
                       /\ \/ faults' = faults /\ crashes' = crashes
                          \/ faults' = faults + 1 /\ crashes' = crashes
                          \/ faults' = faults /\ crashes' = crashes + 1
                 \/ h <= g + 1 /\ p + 1 <= o /\ faults' = faults /\ crashes' = crashes
                 \/ M /\ faults' = faults + 1 /\ crashes' = crashes
                 \/ h <= g + 2 /\ p <= o /\ faults' = faults /\ crashes' = crashes + 1
    BY Zenon DEF M, Pays
  <2>1. CASE Gone' \subseteq Gone /\ Orphans' \subseteq Orphans
    <3>1. \/ faults' = faults /\ crashes' = crashes
          \/ faults' = faults + 1 /\ crashes' = crashes
          \/ faults' = faults /\ crashes' = crashes + 1
      BY FailuresNext
    <3> QED BY <2>g, <2>o, <2>c, <2>1, <3>1, Zenon
  <2>2. CASE /\ UNCHANGED <<faults, crashes>>
             /\ \E x, t : t \in Orphans /\ Gone' \subseteq Gone \union {x} /\ Orphans' \subseteq Orphans \ {t}
    <3>1. faults' = faults /\ crashes' = crashes
      BY <2>2
    <3> QED BY <2>s, <2>l, <2>c, <2>2, <3>1, Zenon
  <2>3. CASE /\ faults' = faults + 1 /\ crashes' = crashes
             /\ \/ \E x : Gone' \subseteq Gone \union {x} /\ Orphans' \subseteq Orphans
                \/ \E t : Gone' \subseteq Gone /\ Orphans' \subseteq Orphans \union {t}
    BY <2>s, <2>q, <2>g, <2>o, <2>m, <2>c, <2>3, Zenon
  <2>4. CASE /\ faults' = faults /\ crashes' = crashes + 1
             /\ \E x, y : Gone' \subseteq Gone \union {x, y} /\ Orphans' \subseteq Orphans
    BY <2>d, <2>o, <2>c, <2>4, Zenon
  <2> QED BY <2>1, <2>2, <2>3, <2>4, DebtCases
<1>5. g + o <= faults + crashes * 2
  BY TwoPollers DEF DebtInv
<1> HIDE DEF g, o, h, p
<1>6. h + p <= faults' + crashes' * 2
  <2>1. g \in Nat /\ o \in Nat /\ h \in Nat /\ p \in Nat
    BY <1>3 DEF g, o, h, p
  <2> QED BY <1>t, <1>4, <1>5, <2>1, DebtIsPaid, Zenon
<1> QED BY <1>1, <1>6, TwoPollers DEF DebtInv, h, p

-----------------------------------------------------------------------------
(* Every lost message is gone itself, or has a reply that is gone.         *)

LEMMA LostToGone ==
  ASSUME IInv, RouteInv, NEW i \in Lost
  PROVE  i \in Gone \/ \E j \in Gone : letter[j].re = i /\ j \notin accepted
<1>1. /\ RequestInv /\ AcceptedIsKept /\ accepted \subseteq Ids /\ settled \subseteq Ids
      /\ RowsRouted
  BY RouteParts, TypeParts DEF IInv, KeptInv, TypeOK
<1>2. /\ i \in accepted /\ i \in Ids /\ i # 0
      /\ ~UnderWay(i) /\ ~Arrived(i) /\ ~Discarded(i) /\ ~Answered(i)
  BY <1>1, IdsAreNumbers DEF Lost
<1>u. ASSUME NEW k \in Ids, ~UnderWay(k)
      PROVE  ~InQueue(k) /\ ~Held(k) /\ ~InAnswer(k) /\ ~WorkedOn(k)
  BY <1>u DEF UnderWay, InHand, Held, InAnswer, WorkedOn, Pollers
<1>3. i \in settled
  BY <1>1, <1>2, <1>u DEF AcceptedIsKept, Held
<1>4. CASE ~HasReply(i)
  BY <1>2, <1>3, <1>4, <1>u DEF Gone
<1>5. CASE HasReply(i)
  <2>1. PICK j \in Ids : letter[j].re = i /\ Placed(j)
    BY <1>5 DEF HasReply
  <2>2. j \notin accepted /\ ~UnderWay(j) /\ ~Arrived(j)
    BY <1>2, <2>1 DEF Answered
  <2>3. j \in settled /\ rows[j] # "absent"
    BY <1>1, <1>u, <2>1, <2>2 DEF Placed, RequestInv
  <2>4. ~Discarded(j)
    BY <1>1, <1>2, <2>1, <2>3, ClientAssumption DEF RowsRouted, IsRouted, Discarded
  <2>5. ~HasReply(j)
    <3> SUFFICES ASSUME NEW k \in Ids, letter[k].re = j, Placed(k) PROVE FALSE
      BY DEF HasReply
    <3>1. rows[k] # "absent" /\ j # 0
      BY <1>1, IdsAreNumbers DEF RequestInv
    <3>2. IsLetter(j)
      BY <1>1, <3>1 DEF RowsRouted
    <3> QED BY <1>2, <2>1, <3>2 DEF IsLetter
  <2>6. j \in Gone
    BY <1>u, <2>2, <2>3, <2>4, <2>5 DEF Gone
  <2> QED BY <2>1, <2>2, <2>6
<1> QED BY <1>4, <1>5

LEMMA LossesArePaid ==
  ASSUME IInv, LossInv
  PROVE  LossIsBounded
<1> DEFINE gone(i) == CHOOSE j \in Gone : letter[j].re = i /\ j \notin accepted
           f == [i \in Lost |-> IF i \in Gone THEN i ELSE gone(i)]
<1>1. /\ IsFiniteSet(settled)
      /\ Cardinality(Gone) + Cardinality(Orphans) <= faults + crashes * Cardinality(Pollers)
  BY DEF LossInv, DebtInv
<1>2. IsFiniteSet(Gone) /\ IsFiniteSet(Orphans)
  <2>1. Gone \subseteq settled /\ Orphans \subseteq Threads
    BY DEF Gone, Orphans
  <2>2. IsFiniteSet(Threads)
    BY MailboxAssumption, FS_Interval DEF Threads
  <2> QED BY <1>1, <2>1, <2>2, FS_Subset
<1>3. \A i \in Lost : i \notin Gone => gone(i) \in Gone /\ letter[gone(i)].re = i /\ gone(i) \notin accepted
  <2> TAKE i \in Lost
  <2>1. i \notin Gone => \E j \in Gone : letter[j].re = i /\ j \notin accepted
    BY LostToGone DEF LossInv
  <2> QED BY <2>1
<1>4. Lost \subseteq accepted
  BY DEF Lost
<1> HIDE DEF gone
<1>5. f \in Injection(Lost, Gone)
  <2>1. f \in [Lost -> Gone]
    BY <1>3
  <2>2. \A i, k \in Lost : f[i] = f[k] => i = k
    BY <1>3, <1>4
  <2> HIDE DEF f
  <2> QED BY <2>1, <2>2 DEF Injection, IsInjective
<1> HIDE DEF f
<1>6. IsFiniteSet(Lost) /\ Cardinality(Lost) <= Cardinality(Gone)
  BY <1>2, <1>5, FS_Injection
<1>7. /\ Cardinality(Lost) \in Nat /\ Cardinality(Gone) \in Nat /\ Cardinality(Orphans) \in Nat
      /\ faults \in Nat /\ crashes \in Nat
  BY <1>2, <1>6, FS_CardinalityType, TypeParts DEF IInv
<1> QED BY <1>1, <1>6, <1>7, TwoPollers DEF LossIsBounded

LEMMA LossInit ==
  ASSUME Init
  PROVE  LossInv
<1>1. IInv
  BY InitInv
<1>2. /\ \A t \in Threads : thread[t].at = "idle" /\ ~Holds(t)
      /\ \A i \in Ids : rows[i] = "absent" /\ letter[i] = NoLetter
      /\ \A q \in Queues, i \in Ids : ~Lies(q, i)
      /\ \A c \in Programs : client[c].stage = "idle" /\ client[c].thread = 0 /\ client[c].msg = 0
      /\ settled = {} /\ faults = 0 /\ crashes = 0
      /\ {"worker", "sender", "injector"} \subseteq Programs
  <2>1. \A t \in Threads : thread[t].at = "idle" /\ ~Holds(t)
    BY DEF Init, ServerInit, BrokerInit, Free, Holds, Clients
  <2>2. /\ \A i \in Ids : rows[i] = "absent" /\ letter[i] = NoLetter
        /\ settled = {} /\ faults = 0 /\ crashes = 0
    BY DEF Init, ServerInit
  <2>3. \A q \in Queues, i \in Ids : ~Lies(q, i)
    BY DEF Init, ServerInit, BrokerInit, Lies
  <2>4. \A c \in Programs : client[c].stage = "idle" /\ client[c].thread = 0 /\ client[c].msg = 0
    BY IdleIsIdle DEF Init
  <2>5. {"worker", "sender", "injector"} \subseteq Programs
    BY DEF Programs, Pollers
  <2> QED BY <2>1, <2>2, <2>3, <2>4, <2>5
<1>3. RouteInv
  BY <1>2 DEF RouteInv, At
<1>4. FreshInv
  BY <1>2 DEF FreshInv, At
<1>5. WaitInv
  BY <1>2 DEF WaitInv, At, Stage
<1>6. DebtInv
  <2>1. Gone = {} /\ Orphans = {}
    BY <1>2 DEF Gone, Orphans, GetPoints
  <2> QED BY <1>2, <2>1, TwoPollers, FS_EmptySet DEF DebtInv
<1> QED BY <1>3, <1>4, <1>5, <1>6 DEF LossInv

\* Whatever fails, and however often, an accepted message disappears only with a
\* failure that accounts for it.
THEOREM LossesAreBounded ==
  ASSUME OwnQueues
  PROVE  Spec => []LossIsBounded
<1>1. Init => LossInv
  BY LossInit
<1>2. IInv /\ LossInv /\ [Next]_allVars => LossInv'
  BY RouteNext, FreshNext, WaitNext, DebtNext DEF IInv, LossInv, Sound
<1>3. IInv /\ LossInv => LossIsBounded
  BY LossesArePaid
<1> QED BY <1>1, <1>2, <1>3, Invariance, PTL DEF Spec
=============================================================================
