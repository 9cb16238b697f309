-------------------------- MODULE RelayRabbit_proofs --------------------------
(***************************************************************************)
(* What holds of the relay with transport "rabbitmq" for any number of     *)
(* operators, limits and faults: its types; a stored reply has an origin,   *)
(* only delivered rows are DONE; what waits in QUEUED_B is carried by      *)
(* something.  The parts of IInv follow one another, each with a lemma for *)
(* a step of the relay, the adapter, the consumer, a death or the world.   *)
(***************************************************************************)
EXTENDS RelayRabbit, SequenceTheorems, TLAPS

-----------------------------------------------------------------------------
(* What the operations of the broker do to the contents of its queues.     *)

Content(q) == {ready[q][i] : i \in DOMAIN ready[q]}

\* A delivery a client holds is a delivery.
LEMMA HeldDelivery ==
  ASSUME BrokerTypeOK, NEW c \in Clients, Holds(c)
  PROVE  /\ Delivery(c) \in Deliveries /\ held[c] = <<Delivery(c)>>
         /\ Delivery(c).queue \in Queues /\ Delivery(c).payload \in Payloads
<1>1. PICK d \in Deliveries : held[c] = <<d>>
  BY DEF BrokerTypeOK, Holds
<1>2. Delivery(c) = d
  BY <1>1 DEF Delivery
<1> QED BY <1>1, <1>2 DEF Deliveries

\* A confirmed publication adds its message to one queue (broker.py, publish).
LEMMA PublishEffect ==
  ASSUME BrokerTypeOK, NEW q \in Queues, NEW p \in Payloads, Publish(q, p)
  PROVE  /\ BrokerTypeOK' /\ UNCHANGED held
         /\ \A r \in Queues : Content(r)' = IF r = q THEN Content(r) \union {p} ELSE Content(r)
<1>1. /\ ready' = [ready EXCEPT ![q] = Append(ready[q], p)] /\ UNCHANGED held
  BY DEF Publish
<1>2. ready[q] \in Seq(Payloads) /\ ready \in [Queues -> Seq(Payloads)]
  BY DEF BrokerTypeOK
<1>3. Append(ready[q], p) \in Seq(Payloads)
  BY <1>2
<1>4. {Append(ready[q], p)[i] : i \in DOMAIN Append(ready[q], p)} = Content(q) \union {p}
  BY <1>2, AppendProperties DEF Content
<1>5. BrokerTypeOK'
  BY <1>1, <1>2, <1>3 DEF BrokerTypeOK
<1>6. ASSUME NEW r \in Queues
      PROVE  Content(r)' = IF r = q THEN Content(r) \union {p} ELSE Content(r)
  BY <1>1, <1>2, <1>4 DEF Content
<1> QED BY <1>1, <1>5, <1>6

\* A delivery takes the oldest message of a queue into the hands of one client
\* (broker.py, consume_one).
LEMMA FetchEffect ==
  ASSUME BrokerTypeOK, NEW c \in Clients, NEW q \in Queues, Fetch(c, q)
  PROVE  /\ BrokerTypeOK'
         /\ Head(ready[q]) \in Content(q) /\ Head(ready[q]) \in Payloads
         /\ Holds(c)' /\ Delivery(c)' = [queue |-> q, payload |-> Head(ready[q])]
         /\ \A d \in Clients : d # c => held'[d] = held[d]
         /\ \A r \in Queues : /\ Content(r)' \subseteq Content(r)
                              /\ Content(r) \subseteq Content(r)' \union {Head(ready[q])}
                              /\ r # q => Content(r)' = Content(r)
<1> DEFINE h == Head(ready[q])
           d0 == [queue |-> q, payload |-> h]
<1>1. /\ ready' = [ready EXCEPT ![q] = Tail(ready[q])] /\ held' = [held EXCEPT ![c] = <<d0>>]
      /\ ready[q] # <<>>
  BY DEF Fetch
<1>2. ready[q] \in Seq(Payloads) /\ ready \in [Queues -> Seq(Payloads)]
  BY DEF BrokerTypeOK
<1>3. h \in Payloads /\ Tail(ready[q]) \in Seq(Payloads) /\ h = ready[q][1] /\ 1 \in DOMAIN ready[q]
  BY <1>1, <1>2
<1>4. d0 \in Deliveries
  BY <1>3 DEF Deliveries
<1>5. BrokerTypeOK'
  <2>1. held' \in [Clients -> {<<>>} \union {<<d>> : d \in Deliveries}]
    BY <1>1, <1>4 DEF BrokerTypeOK
  <2>2. ready' \in [Queues -> Seq(Payloads)]
    BY <1>1, <1>2, <1>3
  <2> QED BY <2>1, <2>2 DEF BrokerTypeOK
<1>6. held'[c] = <<d0>> /\ \A d \in Clients : d # c => held'[d] = held[d]
  BY <1>1 DEF BrokerTypeOK
<1>7. Holds(c)' /\ Delivery(c)' = d0
  BY <1>6 DEF Holds, Delivery
<1>8. h \in Content(q)
  BY <1>3 DEF Content
<1>9. ASSUME NEW r \in Queues
      PROVE  /\ Content(r)' \subseteq Content(r)
             /\ Content(r) \subseteq Content(r)' \union {h}
             /\ r # q => Content(r)' = Content(r)
  <2>1. CASE r # q
    BY <1>1, <1>2, <2>1 DEF Content
  <2>2. CASE r = q
    <3> DEFINE s == ready[q]  t == Tail(s)
    <3>1. /\ Len(s) \in Nat /\ Len(s) > 0 /\ DOMAIN s = 1..Len(s)
          /\ Len(t) = Len(s) - 1 /\ DOMAIN t = 1..Len(t)
          /\ \A i \in 1..Len(t) : t[i] = s[i + 1]
      BY <1>1, <1>2
    <3>2. ready'[r] = t
      BY <1>1, <1>2, <2>2
    <3> HIDE DEF s, t
    <3>3. \A i \in DOMAIN t : t[i] = s[i + 1] /\ i + 1 \in DOMAIN s
      BY <3>1
    <3>4. \A i \in DOMAIN s : i = 1 \/ (i - 1 \in DOMAIN t /\ t[i - 1] = s[i])
      BY <3>1
    <3>5. Content(r) = {s[i] : i \in DOMAIN s} /\ Content(r)' = {t[i] : i \in DOMAIN t}
      BY <2>2, <3>2 DEF Content, s
    <3>6. h = s[1]
      BY <1>3 DEF s
    <3> HIDE DEF h
    <3> QED BY <2>2, <3>3, <3>4, <3>5, <3>6
  <2> QED BY <2>1, <2>2
<1> QED BY <1>3, <1>5, <1>6, <1>7, <1>8, <1>9

\* An acknowledgement empties the hands of one client (broker.py, ack).
LEMMA SettleEffect ==
  ASSUME BrokerTypeOK, NEW c \in Clients, Settle(c)
  PROVE  /\ BrokerTypeOK' /\ ~Holds(c)'
         /\ \A d \in Clients : d # c => held'[d] = held[d]
         /\ UNCHANGED ready /\ \A r \in Queues : Content(r)' = Content(r)
<1>1. held' = [held EXCEPT ![c] = <<>>] /\ UNCHANGED ready
  BY DEF Settle
<1> QED BY <1>1 DEF BrokerTypeOK, Holds, Content

\* A delivery put back is in its queue again (broker.py, nack).
LEMMA RequeueEffect ==
  ASSUME BrokerTypeOK, NEW c \in Clients, Requeue(c)
  PROVE  /\ BrokerTypeOK' /\ Holds(c) /\ ~Holds(c)'
         /\ \A d \in Clients : d # c => held'[d] = held[d]
         /\ \A r \in Queues : Content(r)' =
                IF r = Delivery(c).queue THEN Content(r) \union {Delivery(c).payload} ELSE Content(r)
<1> DEFINE q == Delivery(c).queue  p == Delivery(c).payload  s == ready[q]  t == <<p>> \o s
<1>1. Holds(c) /\ ready' = [ready EXCEPT ![q] = t] /\ held' = [held EXCEPT ![c] = <<>>]
  BY DEF Requeue
<1>2. q \in Queues /\ p \in Payloads
  BY <1>1, HeldDelivery
<1>3. s \in Seq(Payloads) /\ ready \in [Queues -> Seq(Payloads)]
  BY <1>2 DEF BrokerTypeOK
<1> HIDE DEF q, p
<1>4. /\ t \in Seq(Payloads) /\ Len(t) = Len(s) + 1
      /\ \A i \in 1..Len(t) : t[i] = IF i = 1 THEN p ELSE s[i - 1]
  BY <1>2, <1>3, ConcatProperties, ZenonT(10), SMTT(30)
<1>5. /\ Len(s) \in Nat /\ DOMAIN s = 1..Len(s) /\ DOMAIN t = 1..(Len(s) + 1)
  BY <1>3, <1>4, LenProperties
<1> HIDE DEF s, t
<1>6. {t[i] : i \in DOMAIN t} = {s[i] : i \in DOMAIN s} \union {p}
  <2>1. \A i \in DOMAIN t : t[i] = p \/ (i - 1 \in DOMAIN s /\ t[i] = s[i - 1])
    BY <1>4, <1>5
  <2>2. \A i \in DOMAIN s : i + 1 \in DOMAIN t /\ t[i + 1] = s[i]
    BY <1>4, <1>5
  <2>3. 1 \in DOMAIN t /\ t[1] = p
    BY <1>4, <1>5
  <2> QED BY <2>1, <2>2, <2>3
<1>7. BrokerTypeOK'
  BY <1>1, <1>2, <1>3, <1>4 DEF BrokerTypeOK
<1>8. ~Holds(c)' /\ \A d \in Clients : d # c => held'[d] = held[d]
  BY <1>1 DEF Holds, BrokerTypeOK
<1>9. \A r \in Queues : Content(r)' = IF r = q THEN Content(r) \union {p} ELSE Content(r)
  BY <1>1, <1>2, <1>3, <1>6 DEF Content, s
<1> QED BY <1>1, <1>7, <1>8, <1>9 DEF q, p

-----------------------------------------------------------------------------
(* Types.                                                                  *)

\* A nested update changes one counter of a table, as the gateways received and
\* inflight are.
LEMMA CounterUpdate ==
  ASSUME NEW S, NEW T, NEW f \in [T -> [S -> Nat]], NEW t \in T, NEW m \in S,
         NEW n \in Nat
  PROVE  LET g == [f EXCEPT ![t][m] = n] IN
         /\ g \in [T -> [S -> Nat]] /\ g[t][m] = n
         /\ \A u \in T, k \in S : u # t \/ k # m => g[u][k] = f[u][k]
OBVIOUS

\* A request reaches the session of gateway t, or stays in the network.
LEMMA SendEffect ==
  ASSUME received \in [Targets -> [Messages -> Nat]], inflight \in [Targets -> [Messages -> Nat]],
         NEW t \in Targets, NEW m \in Messages,
         Arrives(t, m) \/ StaysInNetwork(t, m)
  PROVE  /\ received' \in [Targets -> [Messages -> Nat]]
         /\ inflight' \in [Targets -> [Messages -> Nat]]
         /\ Sent(t, m)' = Sent(t, m) + 1
         /\ \A u \in Targets, n \in Messages :
                /\ received'[u][n] >= received[u][n]
                /\ u # t \/ n # m => /\ received'[u][n] = received[u][n]
                                     /\ Sent(u, n)' = Sent(u, n)
<1>0. /\ received[t][m] \in Nat /\ inflight[t][m] \in Nat
      /\ \A u \in Targets, n \in Messages : received[u][n] \in Nat /\ inflight[u][n] \in Nat
  OBVIOUS
<1>1. CASE Arrives(t, m)
  <2>1. /\ received' = [received EXCEPT ![t][m] = received[t][m] + 1]
        /\ inflight' = inflight
    BY <1>1 DEF Arrives
  <2>2. received[t][m] + 1 \in Nat
    BY <1>0
  <2>3. /\ received' \in [Targets -> [Messages -> Nat]] /\ received'[t][m] = received[t][m] + 1
        /\ \A u \in Targets, n \in Messages : u # t \/ n # m => received'[u][n] = received[u][n]
    BY <2>1, <2>2, CounterUpdate
  <2>4. \A u \in Targets, n \in Messages : received'[u][n] >= received[u][n]
    BY <1>0, <2>3
  <2>5. Sent(t, m)' = Sent(t, m) + 1
    BY <1>0, <2>1, <2>3 DEF Sent
  <2>6. \A u \in Targets, n \in Messages : u # t \/ n # m => Sent(u, n)' = Sent(u, n)
    BY <2>1, <2>3 DEF Sent
  <2> QED BY <2>1, <2>3, <2>4, <2>5, <2>6
<1>2. CASE StaysInNetwork(t, m)
  <2>1. /\ inflight' = [inflight EXCEPT ![t][m] = inflight[t][m] + 1]
        /\ received' = received
    BY <1>2 DEF StaysInNetwork
  <2>2. inflight[t][m] + 1 \in Nat
    BY <1>0
  <2>3. /\ inflight' \in [Targets -> [Messages -> Nat]] /\ inflight'[t][m] = inflight[t][m] + 1
        /\ \A u \in Targets, n \in Messages : u # t \/ n # m => inflight'[u][n] = inflight[u][n]
    BY <2>1, <2>2, CounterUpdate
  <2>4. \A u \in Targets, n \in Messages : received'[u][n] >= received[u][n]
    BY <1>0, <2>1
  <2>5. Sent(t, m)' = Sent(t, m) + 1
    BY <1>0, <2>1, <2>3 DEF Sent
  <2>6. \A u \in Targets, n \in Messages : u # t \/ n # m => Sent(u, n)' = Sent(u, n)
    BY <2>1, <2>3 DEF Sent
  <2> QED BY <2>1, <2>3, <2>4, <2>5, <2>6
<1> QED BY <1>1, <1>2

\* Recording an attempt keeps the type of the attempts table and raises the
\* count of its own message, target and result only (state.py, record_attempt).
LEMMA RecordAttemptEffect ==
  ASSUME RowTypeOK, NEW m \in Messages, NEW t \in Targets, NEW r \in Results,
         RecordAttempt(m, t, r)
  PROVE  /\ RowTypeOK' /\ UNCHANGED <<status, due, reply>>
         /\ attempts'[m][t][r] = attempts[m][t][r] + 1
         /\ \A n \in Messages, u \in Targets, q \in Results :
                n # m \/ u # t \/ q # r => attempts'[n][u][q] = attempts[n][u][q]
BY DEF RowTypeOK, RecordAttempt

\* Clearing the attempts of one target leaves every other count alone
\* (state.py, clear_attempts).
LEMMA ClearAttemptsEffect ==
  ASSUME RowTypeOK, NEW m \in Messages \union {0}, NEW t \in Targets, ClearAttempts(m, t)
  PROVE  /\ RowTypeOK' /\ UNCHANGED <<status, due, reply>>
         /\ \A n \in Messages, u \in Targets, q \in Results :
                attempts'[n][u][q] = IF n = m /\ u = t THEN 0 ELSE attempts[n][u][q]
BY DEF RowTypeOK, ClearAttempts

\* Writing a status leaves every other row alone (state.py, update_message_status).
LEMMA UpdateStatusEffect ==
  ASSUME RowTypeOK, NEW m \in Messages \union {0}, NEW s \in Statuses,
         UpdateStatus(m, s) \/ UpdateStatusLater(m, s)
  PROVE  /\ RowTypeOK' /\ UNCHANGED <<reply, attempts>>
         /\ status' = [status EXCEPT ![m] = s]
         /\ \A n \in Messages : status'[n] = IF n = m THEN s ELSE status[n]
BY DEF RowTypeOK, UpdateStatus, UpdateStatusLater

\* The initial states have their types.
LEMMA TypeInit == RabbitInit => RabbitTypeOK
<1> SUFFICES ASSUME RabbitInit PROVE RabbitTypeOK
  OBVIOUS
<1> USE StoreAssumption, LoopAssumption, RabbitAssumption
        DEF RabbitInit, LoopInit, RowInit, BrokerInit
<1>1. RowTypeOK
  BY DEF RowTypeOK, Statuses
<1>2. BrokerTypeOK
  BY DEF BrokerTypeOK
<1>3. op \in [Operators -> [stage : OpStages, msg : Messages \union {0}, target : Targets]]
  BY DEF OpStages, Targets
<1>4. job \in [stage : JobStages, msg : Messages \union {0}]
  BY DEF JobStages, NoJob
<1> QED BY <1>1, <1>2, <1>3, <1>4 DEF RabbitTypeOK, RabbitPhases, Phases, RabbitSteps

\* Every step keeps the types.
LEMMA TypeNext == ASSUME RabbitTypeOK, [RabbitNext]_allVars PROVE RabbitTypeOK'
<1> USE StoreAssumption DEF RabbitTypeOK, rowVars, loopVars, gatewayVars, opVars, brokerVars,
        jobVars, consumerVars, rabbitVars, RabbitSteps, DispatchSteps, ReplySteps, InjectSteps,
        RabbitPhases, Phases, Goto, EndRow, SkipRow, TakeRow, At
<1>0. \A s \in {"RESERVED", "FAILED_B", "QUEUED_B", "B_REPLIED", "FAILED_A_INJECTION", "DONE",
               "DEADLETTER_B", "DEADLETTER_A"} : s \in Statuses
  BY DEF Statuses, Dispatchable, Queued, Injectable, Settled, Deadletters
<1>00. UNCHANGED brokerVars /\ BrokerTypeOK => BrokerTypeOK'
  BY DEF BrokerTypeOK
<1>000. UNCHANGED rowVars => RowTypeOK'
  BY DEF RowTypeOK
<1>1. ASSUME NEW m \in Messages, PublishDispatch(m) PROVE RabbitTypeOK'
  <2>1. CASE PublishRequest(m)
    <3>1. Request(m) \in Payloads /\ "inbox" \in Queues
      BY DEF Request, Payloads, Queues
    <3>2. BrokerTypeOK'
      BY <2>1, <3>1, <1>00, PublishEffect DEF PublishRequest, PublishUnconfirmed
    <3> QED BY <2>1, <3>2, <1>000 DEF PublishRequest
  <2>2. CASE RecordPublication(m)
    <3>1. RowTypeOK'
      BY <2>2, RecordAttemptEffect DEF RecordPublication, Targets, Results
    <3> QED BY <2>2, <3>1, <1>00 DEF RecordPublication
  <2>3. CASE MarkQueued(m)
    BY <2>3, <1>0, <1>00, UpdateStatusEffect DEF MarkQueued
  <2>4. CASE DispatchSkip(m) /\ UNCHANGED rabbitVars
    BY <2>4, <1>00, <1>000 DEF DispatchSkip
  <2>5. CASE DispatchExhausted(m) /\ UNCHANGED rabbitVars
    BY <2>5, <1>0, <1>00, UpdateStatusEffect DEF DispatchExhausted
  <2>6. CASE DispatchExpired(m) /\ UNCHANGED rabbitVars
    <3>1. RowTypeOK'
      BY <2>6, RecordAttemptEffect DEF DispatchExpired, Targets, Results
    <3> QED BY <2>6, <3>1, <1>00 DEF DispatchExpired
  <2>7. CASE RecordDispatchFailure(m) /\ UNCHANGED rabbitVars
    <3>1. RowTypeOK'
      BY <2>7, RecordAttemptEffect DEF RecordDispatchFailure, Targets, Results
    <3> QED BY <2>7, <3>1, <1>00 DEF RecordDispatchFailure
  <2>8. CASE DecideDispatchRetry(m) /\ UNCHANGED rabbitVars
    BY <2>8, <1>00, <1>000 DEF DecideDispatchRetry
  <2>9. CASE ConcludeDispatchFailure(m) /\ UNCHANGED rabbitVars
    BY <2>9, <1>0, <1>00, UpdateStatusEffect DEF ConcludeDispatchFailure
  <2> QED BY <1>1, <2>1, <2>2, <2>3, <2>4, <2>5, <2>6, <2>7, <2>8, <2>9 DEF PublishDispatch
<1>2. ASSUME NEW m \in Messages, ConsumeReplies(m) PROVE RabbitTypeOK'
  <2>1. CASE TakeReply(m)
    <3>1. BrokerTypeOK'
      BY <2>1, FetchEffect DEF TakeReply, Clients, Queues
    <3> QED BY <2>1, <3>1, <1>000 DEF TakeReply
  <2>2. CASE IgnoreReply(m)
    <3>1. BrokerTypeOK'
      BY <2>2, SettleEffect DEF IgnoreReply, Clients
    <3> QED BY <2>2, <3>1, <1>000 DEF IgnoreReply
  <2>3. CASE StoreBrokerReply(m)
    <3>1. RowTypeOK'
      BY <2>3, <1>0 DEF StoreBrokerReply, UpdateReply, RowTypeOK
    <3> QED BY <2>3, <3>1, <1>00 DEF StoreBrokerReply
  <2>4. CASE RecordErrorReply(m)
    <3>1. RowTypeOK'
      BY <2>4, RecordAttemptEffect DEF RecordErrorReply, Targets, Results
    <3> QED BY <2>4, <3>1, <1>00 DEF RecordErrorReply
  <2>5. CASE ConcludeErrorReply(m)
    BY <2>5, <1>0, <1>00, UpdateStatusEffect DEF ConcludeErrorReply
  <2>6. CASE AckReply(m)
    <3>1. BrokerTypeOK'
      BY <2>6, SettleEffect DEF AckReply, Clients
    <3> QED BY <2>6, <3>1, <1>000 DEF AckReply
  <2>7. CASE PutBackReply(m)
    <3>1. BrokerTypeOK'
      BY <2>7, RequeueEffect DEF PutBackReply, Clients
    <3> QED BY <2>7, <3>1, <1>000 DEF PutBackReply
  <2> QED BY <1>2, <2>1, <2>2, <2>3, <2>4, <2>5, <2>6, <2>7 DEF ConsumeReplies
<1>3. ASSUME NEW m \in Messages, CollectSkip(m) \/ CollectReply(m) PROVE RabbitTypeOK'
  <2>1. CASE CollectSkip(m)
    BY <2>1, <1>00, <1>000 DEF CollectSkip
  <2>2. CASE CollectReply(m)
    <3>1. RowTypeOK'
      BY <2>2, <1>0 DEF CollectReply, UpdateReply, RowTypeOK
    <3> QED BY <2>2, <3>1, <1>00 DEF CollectReply
  <2> QED BY <1>3, <2>1, <2>2
<1>4. CASE \/ BeginConsume \/ BeginCollect \/ BeginInjectAfterCollect \/ SkipInjectAfterCollect
           \/ (BeginDispatch \/ EndPoll) /\ UNCHANGED rabbitVars
  BY <1>4, <1>00, <1>000 DEF BeginConsume, BeginCollect, BeginInjectAfterCollect,
     SkipInjectAfterCollect, BeginDispatch, EndPoll, BeginPass
<1>5. ASSUME NEW m \in Messages, Inject(m), UNCHANGED rabbitVars PROVE RabbitTypeOK'
  <2>1. CASE InjectSkip(m)
    BY <1>5, <2>1, <1>00, <1>000 DEF InjectSkip
  <2>2. CASE InjectExpired(m)
    BY <1>5, <2>2, <1>0, <1>00, UpdateStatusEffect DEF InjectExpired
  <2>3. CASE InjectStart(m)
    BY <1>5, <2>3, <1>00, <1>000 DEF InjectStart
  <2>4. CASE ConfirmInjection(m)
    <3>1. RowTypeOK'
      BY <2>4, <1>0, <1>000, UpdateStatusEffect DEF ConfirmInjection
    <3> QED BY <1>5, <2>4, <3>1, <1>00 DEF ConfirmInjection
  <2>5. CASE PostInjection(m)
    <3>1. /\ received' \in [Targets -> [Messages -> Nat]]
          /\ inflight' \in [Targets -> [Messages -> Nat]]
      BY <2>5, SendEffect DEF PostInjection, PostUncertain, Targets
    <3> QED BY <1>5, <2>5, <3>1, <1>00, <1>000 DEF PostInjection, PostUncertain
  <2>6. CASE ConfirmTimedOutInjection(m)
    BY <1>5, <2>6, <1>00, <1>000 DEF ConfirmTimedOutInjection
  <2>7. CASE RecordInjectionSuccess(m)
    <3>1. RowTypeOK'
      BY <2>7, RecordAttemptEffect DEF RecordInjectionSuccess, Targets, Results
    <3> QED BY <1>5, <2>7, <3>1, <1>00 DEF RecordInjectionSuccess
  <2>8. CASE MarkDone(m)
    BY <1>5, <2>8, <1>0, <1>00, UpdateStatusEffect DEF MarkDone
  <2>9. CASE RecordInjectionFailure(m)
    <3>1. RowTypeOK'
      BY <2>9, RecordAttemptEffect DEF RecordInjectionFailure, Targets, Results
    <3> QED BY <1>5, <2>9, <3>1, <1>00 DEF RecordInjectionFailure
  <2>10. CASE ConcludeInjectionFailure(m)
    BY <1>5, <2>10, <1>0, <1>00, UpdateStatusEffect DEF ConcludeInjectionFailure
  <2> QED BY <1>5, <2>1, <2>2, <2>3, <2>4, <2>5, <2>6, <2>7, <2>8, <2>9, <2>10 DEF Inject
<1>6. ASSUME NEW m \in Messages, AdapterWorks(m) PROVE RabbitTypeOK'
  <2> USE DEF adapterKeeps, adapterLeaves, JobStages
  <2>0. ASSUME NEW s \in JobStages, job' = [job EXCEPT !.stage = s]
        PROVE  job' \in [stage : JobStages, msg : Messages \union {0}]
    BY <2>0
  <2>1. CASE AdapterTake(m)
    <3>1. BrokerTypeOK'
      BY <2>1, FetchEffect DEF AdapterTake, Clients, Queues
    <3> QED BY <2>1, <3>1, <1>000 DEF AdapterTake
  <2>2. CASE AdapterPost(m)
    <3>1. /\ received' \in [Targets -> [Messages -> Nat]]
          /\ inflight' \in [Targets -> [Messages -> Nat]]
      BY <2>2, SendEffect DEF AdapterPost, PostUncertain, Targets
    <3>2. followed' \in [Messages -> BOOLEAN]
      BY <2>2 DEF AdapterPost, PostUncertain
    <3>3. job' \in [stage : JobStages, msg : Messages \union {0}]
      BY <2>2, <2>0 DEF AdapterPost
    <3> QED BY <2>2, <3>1, <3>2, <3>3, <1>00, <1>000 DEF AdapterPost
  <2>3. CASE AdapterReply(m)
    <3>1. OkReply(m) \in Payloads /\ ErrorReply(m) \in Payloads /\ "reply" \in Queues
      BY DEF OkReply, ErrorReply, Payloads, Queues
    <3>2. BrokerTypeOK'
      BY <2>3, <3>1, PublishEffect DEF AdapterReply
    <3>3. job' \in [stage : JobStages, msg : Messages \union {0}]
      BY <2>3, <2>0 DEF AdapterReply
    <3> QED BY <2>3, <3>2, <3>3, <1>000 DEF AdapterReply
  <2>4. CASE AdapterAck(m)
    <3>1. BrokerTypeOK'
      BY <2>4, SettleEffect DEF AdapterAck, Clients
    <3> QED BY <2>4, <3>1, <1>000 DEF AdapterAck, NoJob
  <2> QED BY <1>6, <2>1, <2>2, <2>3, <2>4 DEF AdapterWorks
<1>7. CASE AdapterAckFails
  BY <1>7, <1>00, <1>000 DEF AdapterAckFails, NoJob, JobStages, adapterKeeps, adapterLeaves
<1>8. CASE AdapterDies
  <2>1. BrokerTypeOK'
    BY <1>8, <1>00, RequeueEffect DEF AdapterDies, RequeueIfHeld, Clients
  <2>2. job' \in [stage : JobStages, msg : Messages \union {0}]
    BY <1>8 DEF AdapterDies, NoJob, JobStages
  <2>3. /\ adapterFaults' \in Nat
        /\ UNCHANGED <<adapterKeeps, gatewayVars>>
    BY <1>8 DEF AdapterDies
  <2> QED BY <2>1, <2>2, <2>3, <1>000 DEF adapterKeeps, adapterLeaves
<1>8a. CASE AdapterLosesConnection
  <2>1. BrokerTypeOK'
    BY <1>8a, RequeueEffect DEF AdapterLosesConnection, Clients
  <2>2. /\ adapterFaults' \in Nat
        /\ UNCHANGED <<adapterKeeps, gatewayVars, job>>
    BY <1>8a DEF AdapterLosesConnection
  <2> QED BY <2>1, <2>2, <1>000 DEF adapterKeeps, adapterLeaves
<1>9. ASSUME NEW m \in Messages, AdapterTokenTimesOut(m) PROVE RabbitTypeOK'
  <2>1. job' \in [stage : JobStages, msg : Messages \union {0}]
    BY <1>9 DEF AdapterTokenTimesOut, JobStages
  <2> QED BY <1>9, <2>1, <1>00, <1>000 DEF AdapterTokenTimesOut, adapterLeaves
<1>10. CASE ConsumerTake
  <2>1. BrokerTypeOK'
    BY <1>10, FetchEffect DEF ConsumerTake, Clients, Queues
  <2> QED BY <1>10, <2>1, <1>000 DEF ConsumerTake, consumerKeeps
<1>11. CASE ConsumerInject
  <2> DEFINE r == Delivery("consumer").payload
  <2>1. r.msg \in Messages
    BY <1>11, HeldDelivery DEF ConsumerInject, Clients, Payloads
  <2>2. BrokerTypeOK'
    BY <1>11, SettleEffect, RequeueEffect DEF ConsumerInject, Clients
  <2>3. /\ received' \in [Targets -> [Messages -> Nat]]
        /\ inflight' \in [Targets -> [Messages -> Nat]]
    BY <1>11, <2>1, SendEffect DEF ConsumerInject, Targets
  <2> QED BY <1>11, <2>1, <2>2, <2>3, <1>000 DEF ConsumerInject, consumerKeeps
<1>12. ASSUME NEW m \in Messages, World(m), UNCHANGED rabbitVars PROVE RabbitTypeOK'
  <2>1. CASE Ingest(m)
    <3>1. RowTypeOK'
      BY <2>1, <1>0 DEF Ingest, UpdateArtifact, RowTypeOK
    <3> QED BY <1>12, <2>1, <3>1, <1>00 DEF Ingest
  <2>2. CASE Expire(m)
    BY <1>12, <2>2, <1>00, <1>000 DEF Expire
  <2>3. CASE BackoffElapses(m)
    <3>1. RowTypeOK'
      BY <2>3 DEF BackoffElapses, RowTypeOK
    <3> QED BY <1>12, <2>3, <3>1, <1>00 DEF BackoffElapses
  <2>4. CASE WorkerWrites(m)
    BY <1>12, <2>4, <1>00, <1>000 DEF WorkerWrites
  <2>5. ASSUME NEW t \in Targets, LateArrival(t, m) PROVE RabbitTypeOK'
    BY <1>12, <2>5, <1>00, <1>000 DEF LateArrival
  <2> QED BY <1>12, <2>1, <2>2, <2>3, <2>4, <2>5 DEF World
<1>13. ASSUME Replay, UNCHANGED rabbitVars PROVE RabbitTypeOK'
  <2> DEFINE Ops == [stage : OpStages, msg : Messages \union {0}, target : Targets]
  <2>1. ASSUME NEW o \in Operators, NEW m \in Messages, ReplayRead(o, m) PROVE RabbitTypeOK'
    <3>1. op' \in [Operators -> Ops]
      BY <2>1 DEF ReplayRead, OpStages, Targets
    <3> QED BY <1>13, <2>1, <3>1, <1>00, <1>000 DEF ReplayRead
  <2>2. ASSUME NEW o \in Operators, ReplayClear(o) PROVE RabbitTypeOK'
    <3>1. op[o] \in Ops
      OBVIOUS
    <3>2. RowTypeOK'
      BY <2>2, <3>1, ClearAttemptsEffect DEF ReplayClear
    <3>3. [op[o] EXCEPT !.stage = "set"] \in Ops
      BY <3>1 DEF OpStages
    <3>4. op' = [op EXCEPT ![o] = [op[o] EXCEPT !.stage = "set"]]
      BY <2>2 DEF ReplayClear
    <3>5. op' \in [Operators -> Ops]
      BY <3>3, <3>4
    <3> QED BY <1>13, <2>2, <3>2, <3>5, <1>00 DEF ReplayClear
  <2>3. ASSUME NEW o \in Operators, ReplaySet(o) PROVE RabbitTypeOK'
    <3>1. op[o].msg \in Messages \union {0}
      OBVIOUS
    <3>2. RowTypeOK'
      BY <2>3, <3>1, <1>0, UpdateStatusEffect DEF ReplaySet
    <3>3. op' \in [Operators -> Ops]
      BY <2>3 DEF ReplaySet, OpStages, Targets
    <3> QED BY <1>13, <2>3, <3>2, <3>3, <1>00 DEF ReplaySet
  <2> QED BY <1>13, <2>1, <2>2, <2>3 DEF Replay
<1>14. CASE RelayDies
  <2>1. BrokerTypeOK'
    BY <1>14, <1>00, RequeueEffect DEF RelayDies, RequeueIfHeld, Clients
  <2> QED BY <1>14, <2>1, <1>000 DEF RelayDies, Crash
<1>15. CASE UNCHANGED allVars
  BY <1>15, <1>00, <1>000 DEF allVars, vars
<1> HIDE DEF RabbitTypeOK
<1>16. CASE RelayWorks
  BY <1>1, <1>2, <1>3, <1>4, <1>5, <1>16 DEF RelayWorks
<1>17. CASE AdapterStep \/ AdapterFails
  BY <1>6, <1>7, <1>8, <1>8a, <1>9, <1>17 DEF AdapterStep, AdapterFails
<1>18. CASE ((\E m \in Messages : World(m)) \/ Replay) /\ UNCHANGED rabbitVars
  BY <1>12, <1>13, <1>18
<1> QED BY <1>10, <1>11, <1>14, <1>15, <1>16, <1>17, <1>18 DEF RabbitNext

-----------------------------------------------------------------------------
(* Control.                                                                *)

\* A client whose hands nothing touches holds what it held.
LEMMA HandsFrame ==
  ASSUME NEW c \in Clients, held'[c] = held[c]
  PROVE  /\ Holds(c)' <=> Holds(c)
         /\ \A m \in Messages \union {0} : InHand(c, m)' <=> InHand(c, m)
BY DEF Holds, InHand, Delivery

\* The relay and the adapter work on what they hold.
LEMMA ControlNext == ASSUME RabbitTypeOK, ControlInv, [RabbitNext]_allVars PROVE ControlInv'
<1> USE StoreAssumption DEF ControlInv, rowVars, loopVars, gatewayVars, opVars, brokerVars,
        jobVars, consumerVars, rabbitVars, DispatchSteps, ReplySteps, InjectSteps,
        Goto, EndRow, SkipRow, TakeRow, At
<1>t. /\ cur \in Messages \union {0} /\ job.msg \in Messages \union {0}
      /\ reply \in [Messages -> BOOLEAN] /\ BrokerTypeOK
  BY DEF RabbitTypeOK, RowTypeOK
<1>c. "relay" \in Clients /\ "adapter" \in Clients /\ "consumer" \in Clients
      /\ "inbox" \in Queues /\ "reply" \in Queues
  BY DEF Clients, Queues
<1>r. ASSUME held'["relay"] = held["relay"]
      PROVE  \A m \in Messages \union {0} : InHand("relay", m)' <=> InHand("relay", m)
  BY <1>r, <1>c, HandsFrame
<1>a. ASSUME held'["adapter"] = held["adapter"], UNCHANGED job
      PROVE  /\ Holds("adapter")' => InHand("adapter", job.msg)'
             /\ (job.stage = "idle" <=> job.msg = 0)'
  BY <1>a, <1>c, <1>t, HandsFrame
<1>1. ASSUME NEW m \in Messages, PublishDispatch(m) PROVE ControlInv'
  <2>0. held' = held /\ UNCHANGED <<reply, job>>
    <3>1. CASE PublishRequest(m)
      BY <3>1 DEF PublishRequest, Publish, PublishUnconfirmed
    <3>2. CASE RecordPublication(m) \/ MarkQueued(m)
      BY <3>2 DEF RecordPublication, MarkQueued, RecordAttempt, UpdateStatus
    <3> QED BY <1>1, <3>1, <3>2 DEF PublishDispatch, DispatchSkip, DispatchExhausted,
            DispatchExpired, RecordDispatchFailure, DecideDispatchRetry,
            ConcludeDispatchFailure, RecordAttempt, UpdateStatus, UpdateStatusLater
  <2>1. CASE PublishRequest(m)
    BY <2>0, <2>1, <1>a DEF PublishRequest, PublishReady, DispatchReady, IsNextRow
  <2>2. CASE RecordPublication(m) \/ MarkQueued(m)
    BY <2>0, <2>2, <1>a DEF RecordPublication, MarkQueued
  <2>3. CASE DispatchSkip(m) \/ DispatchExhausted(m) \/ DispatchExpired(m)
    BY <2>0, <2>3, <1>a DEF DispatchSkip, DispatchExhausted, DispatchExpired, DispatchReady, IsNextRow
  <2>4. CASE RecordDispatchFailure(m) \/ DecideDispatchRetry(m) \/ ConcludeDispatchFailure(m)
    BY <2>0, <2>4, <1>a DEF RecordDispatchFailure, DecideDispatchRetry, ConcludeDispatchFailure
  <2> QED BY <1>1, <2>1, <2>2, <2>3, <2>4 DEF PublishDispatch
<1>2. ASSUME NEW m \in Messages, ConsumeReplies(m) PROVE ControlInv'
  <2>1. CASE TakeReply(m)
    <3> USE DEF TakeReply
    <3>1. /\ Holds("relay")' /\ Delivery("relay")'.payload.msg = m
          /\ held'["adapter"] = held["adapter"]
      BY <2>1, <1>c, <1>t, FetchEffect
    <3>2. InHand("relay", m)'
      BY <3>1 DEF InHand
    <3> QED BY <2>1, <3>1, <3>2, <1>a
  <2>2. CASE IgnoreReply(m) \/ AckReply(m)
    <3>1. held'["adapter"] = held["adapter"]
      BY <2>2, <1>c, <1>t, SettleEffect DEF IgnoreReply, AckReply
    <3> QED BY <2>2, <3>1, <1>a DEF IgnoreReply, AckReply
  <2>3. CASE StoreBrokerReply(m)
    BY <2>3, <1>a, <1>r DEF StoreBrokerReply
  <2>4. CASE RecordErrorReply(m)
    BY <2>4, <1>a, <1>r DEF RecordErrorReply
  <2>5. CASE ConcludeErrorReply(m)
    BY <2>5, <1>a, <1>r DEF ConcludeErrorReply
  <2>6. CASE PutBackReply(m)
    <3>1. held'["adapter"] = held["adapter"]
      BY <2>6, <1>c, <1>t, RequeueEffect DEF PutBackReply
    <3> QED BY <2>6, <3>1, <1>a DEF PutBackReply
  <2> QED BY <1>2, <2>1, <2>2, <2>3, <2>4, <2>5, <2>6 DEF ConsumeReplies
<1>3. ASSUME NEW m \in Messages, CollectSkip(m) \/ CollectReply(m) PROVE ControlInv'
  BY <1>3, <1>a DEF CollectSkip, CollectReply, IsNextRow
<1>4. CASE \/ BeginConsume \/ BeginCollect \/ BeginInjectAfterCollect \/ SkipInjectAfterCollect
           \/ (BeginDispatch \/ EndPoll) /\ UNCHANGED rabbitVars
  BY <1>4, <1>a DEF BeginConsume, BeginCollect, BeginInjectAfterCollect,
     SkipInjectAfterCollect, BeginDispatch, EndPoll, BeginPass, PassOver
<1>5. ASSUME NEW m \in Messages, Inject(m), UNCHANGED rabbitVars PROVE ControlInv'
  <2>1. CASE InjectSkip(m) \/ InjectExpired(m)
    BY <1>5, <2>1, <1>a DEF InjectSkip, InjectExpired, InjectReady, IsNextRow
  <2>2. CASE InjectStart(m)
    BY <1>5, <2>2, <1>a DEF InjectStart, InjectReady, IsNextRow
  <2>3. CASE ConfirmInjection(m)
    BY <1>5, <2>3, <1>a DEF ConfirmInjection, UpdateStatus
  <2>4. CASE PostInjection(m) \/ ConfirmTimedOutInjection(m)
    BY <1>5, <2>4, <1>a DEF PostInjection, ConfirmTimedOutInjection
  <2>5. CASE RecordInjectionSuccess(m) \/ RecordInjectionFailure(m)
    BY <1>5, <2>5, <1>a DEF RecordInjectionSuccess, RecordInjectionFailure, RecordAttempt
  <2>6. CASE MarkDone(m) \/ ConcludeInjectionFailure(m)
    BY <1>5, <2>6, <1>a DEF MarkDone, ConcludeInjectionFailure
  <2> QED BY <1>5, <2>1, <2>2, <2>3, <2>4, <2>5, <2>6 DEF Inject
<1>f. ASSUME UNCHANGED <<rowVars, loopVars>>, held'["relay"] = held["relay"]
      PROVE  /\ (step = "next" <=> cur = 0)'
             /\ (step \in DispatchSteps => phase = "dispatch")'
             /\ (step \in ReplySteps => phase = "consume" /\ InHand("relay", cur))'
             /\ (step \in InjectSteps => phase = "inject" /\ reply[cur])'
  BY <1>f, <1>t, <1>r
<1>6. ASSUME NEW m \in Messages, AdapterWorks(m) PROVE ControlInv'
  <2> USE DEF adapterKeeps, adapterLeaves
  <2>0. UNCHANGED <<rowVars, loopVars>>
    BY <1>6 DEF AdapterWorks, AdapterTake, AdapterPost, AdapterReply, AdapterAck
  <2>t. job = [stage |-> job.stage, msg |-> job.msg]
    BY DEF RabbitTypeOK
  <2>1. CASE AdapterTake(m)
    <3>1. /\ Holds("adapter")' /\ Delivery("adapter")'.payload.msg = m
          /\ held'["relay"] = held["relay"]
      BY <2>1, <1>c, <1>t, FetchEffect DEF AdapterTake
    <3>2. InHand("adapter", m)'
      BY <3>1 DEF InHand
    <3>3. job'.msg = m /\ job'.stage # "idle"
      BY <2>1 DEF AdapterTake
    <3> QED BY <2>0, <3>1, <3>2, <3>3, <1>f
  <2>2. ASSUME held' = held, job.msg = m, job.stage # "idle", job'.msg = job.msg, job'.stage # "idle"
        PROVE  ControlInv'
    <3>1. Holds("adapter")' => InHand("adapter", m)'
      BY <2>2, <1>c, HandsFrame
    <3> QED BY <2>0, <2>2, <3>1, <1>f
  <2>3. CASE AdapterPost(m)
    BY <2>2, <2>3, <2>t DEF AdapterPost
  <2>4. CASE AdapterReply(m)
    BY <2>2, <2>4, <2>t DEF AdapterReply, Publish
  <2>5. CASE AdapterAck(m)
    <3>1. ~Holds("adapter")' /\ held'["relay"] = held["relay"]
      BY <2>5, <1>c, <1>t, SettleEffect DEF AdapterAck
    <3> QED BY <2>0, <2>5, <3>1, <1>f DEF AdapterAck, NoJob
  <2> QED BY <1>6, <2>1, <2>3, <2>4, <2>5 DEF AdapterWorks
<1>7. CASE AdapterAckFails
  <2>1. ~Holds("adapter")'
    BY <1>7, <1>c, HandsFrame DEF AdapterAckFails
  <2> QED BY <1>7, <2>1, <1>f DEF AdapterAckFails, adapterKeeps, adapterLeaves, NoJob
<1>8. CASE AdapterDies
  <2>1. ~Holds("adapter")' /\ held'["relay"] = held["relay"]
    BY <1>8, <1>c, <1>t, HandsFrame, RequeueEffect DEF AdapterDies, RequeueIfHeld
  <2> QED BY <1>8, <2>1, <1>f DEF AdapterDies, adapterKeeps, adapterLeaves, NoJob
<1>8a. CASE AdapterLosesConnection
  <2>1. ~Holds("adapter")' /\ held'["relay"] = held["relay"]
    BY <1>8a, <1>c, <1>t, RequeueEffect DEF AdapterLosesConnection
  <2> QED BY <1>8a, <2>1, <1>f DEF AdapterLosesConnection, adapterKeeps, adapterLeaves
<1>9. ASSUME NEW m \in Messages, AdapterTokenTimesOut(m) PROVE ControlInv'
  <2>1. held' = held /\ job.msg = m /\ job'.msg = m /\ job'.stage # "idle" /\ UNCHANGED <<rowVars, loopVars>>
    BY <1>9 DEF AdapterTokenTimesOut, adapterLeaves
  <2>2. Holds("adapter")' => InHand("adapter", m)'
    BY <2>1, <1>c, HandsFrame
  <2> QED BY <2>1, <2>2, <1>f
<1>10. CASE ConsumerTake
  <2>1. held'["relay"] = held["relay"] /\ held'["adapter"] = held["adapter"]
    BY <1>10, <1>c, <1>t, FetchEffect DEF ConsumerTake
  <2> QED BY <1>10, <2>1, <1>f, <1>a DEF ConsumerTake, consumerKeeps
<1>11. CASE ConsumerInject
  <2>1. held'["relay"] = held["relay"] /\ held'["adapter"] = held["adapter"]
    BY <1>11, <1>c, <1>t, SettleEffect, RequeueEffect DEF ConsumerInject
  <2> QED BY <1>11, <2>1, <1>f, <1>a DEF ConsumerInject, consumerKeeps
<1>12. ASSUME NEW m \in Messages, World(m), UNCHANGED rabbitVars PROVE ControlInv'
  BY <1>12, <1>a, <1>r, <1>t DEF World, Ingest, Expire, BackoffElapses, WorkerWrites, LateArrival, UpdateArtifact
<1>13. ASSUME Replay, UNCHANGED rabbitVars PROVE ControlInv'
  BY <1>13, <1>a, <1>r, <1>t DEF Replay, ReplayRead, ReplayClear, ReplaySet, ClearAttempts, UpdateStatus
<1>14. CASE RelayDies
  <2>1. held'["adapter"] = held["adapter"]
    BY <1>14, <1>c, <1>t, RequeueEffect DEF RelayDies, RequeueIfHeld
  <2> QED BY <1>14, <2>1, <1>a DEF RelayDies, Crash
<1>15. CASE UNCHANGED allVars
  BY <1>15, <1>f, <1>a DEF allVars, vars
<1> HIDE DEF ControlInv
<1>16. CASE RelayWorks
  BY <1>1, <1>2, <1>3, <1>4, <1>5, <1>16 DEF RelayWorks
<1>17. CASE AdapterStep \/ AdapterFails
  BY <1>6, <1>7, <1>8, <1>8a, <1>9, <1>17 DEF AdapterStep, AdapterFails
<1>18. CASE ((\E m \in Messages : World(m)) \/ Replay) /\ UNCHANGED rabbitVars
  BY <1>12, <1>13, <1>18
<1> QED BY <1>10, <1>11, <1>14, <1>15, <1>16, <1>17, <1>18 DEF RabbitNext

-----------------------------------------------------------------------------
(* What replies are taken from.                                            *)

\* A request that reaches its gateway late changes no sum.
LEMMA LateArrivalEffect ==
  ASSUME RabbitTypeOK, NEW t \in Targets, NEW m \in Messages, LateArrival(t, m)
  PROVE  /\ \A u \in Targets, n \in Messages :
                /\ received'[u][n] >= received[u][n]
                /\ Sent(u, n)' = Sent(u, n)
                /\ u # t \/ n # m => received'[u][n] = received[u][n]
         /\ received'[t][m] > 0 /\ Sent(t, m) > 0
<1>1. /\ received' = [received EXCEPT ![t][m] = received[t][m] + 1]
      /\ inflight' = [inflight EXCEPT ![t][m] = inflight[t][m] - 1] /\ inflight[t][m] > 0
  BY DEF LateArrival
<1>2. /\ received \in [Targets -> [Messages -> Nat]] /\ inflight \in [Targets -> [Messages -> Nat]]
      /\ \A u \in Targets, n \in Messages : received[u][n] \in Nat /\ inflight[u][n] \in Nat
  BY DEF RabbitTypeOK
<1>3. received[t][m] + 1 \in Nat /\ inflight[t][m] - 1 \in Nat
  BY <1>1, <1>2
<1>4. /\ received'[t][m] = received[t][m] + 1
      /\ \A u \in Targets, n \in Messages : u # t \/ n # m => received'[u][n] = received[u][n]
  BY <1>1, <1>2, <1>3, CounterUpdate
<1>5. /\ inflight'[t][m] = inflight[t][m] - 1
      /\ \A u \in Targets, n \in Messages : u # t \/ n # m => inflight'[u][n] = inflight[u][n]
  BY <1>1, <1>2, <1>3, CounterUpdate
<1>6. Sent(t, m)' = Sent(t, m) /\ Sent(t, m) > 0
  <2>1. received[t][m] \in Nat /\ inflight[t][m] \in Nat /\ inflight[t][m] > 0
    BY <1>1, <1>2
  <2>2. received'[t][m] = received[t][m] + 1 /\ inflight'[t][m] = inflight[t][m] - 1
    BY <1>4, <1>5
  <2> QED BY <2>1, <2>2 DEF Sent
<1>7. \A u \in Targets, n \in Messages : u # t \/ n # m => Sent(u, n)' = Sent(u, n)
  BY <1>4, <1>5 DEF Sent
<1>8. \A u \in Targets, n \in Messages : received'[u][n] >= received[u][n]
  BY <1>2, <1>4
<1> QED BY <1>2, <1>4, <1>6, <1>7, <1>8

\* Storing a reply (state.py, update_message_reply).
LEMMA UpdateReplyEffect ==
  ASSUME RowTypeOK, NEW m \in Messages, UpdateReply(m)
  PROVE  /\ reply'[m] /\ status' = [status EXCEPT ![m] = "B_REPLIED"] /\ UNCHANGED attempts
         /\ status'[m] = "B_REPLIED"
         /\ \A n \in Messages : n # m => status'[n] = status[n] /\ reply'[n] = reply[n]
BY DEF UpdateReply, RowTypeOK

\* Rows, replies, answers and requests sent do not vanish.
Grows ==
  \A m \in Messages : /\ status[m] # "ABSENT" => status'[m] # "ABSENT"
                      /\ reply[m] => reply'[m]
                      /\ followed[m] => followed'[m]
                      /\ \A t \in Targets : /\ received'[t][m] >= received[t][m]
                                            /\ Sent(t, m) > 0 => Sent(t, m)' > 0
                      /\ m \in consumed \union unsent => m \in consumed' \union unsent'

LEMMA GrowNext == ASSUME RabbitTypeOK, [RabbitNext]_allVars PROVE Grows
<1> USE DEF rowVars, loopVars, gatewayVars, opVars, brokerVars, jobVars, consumerVars, rabbitVars
<1>t. /\ RowTypeOK /\ BrokerTypeOK
      /\ received \in [Targets -> [Messages -> Nat]] /\ inflight \in [Targets -> [Messages -> Nat]]
      /\ followed \in [Messages -> BOOLEAN] /\ status \in [Messages -> Statuses]
      /\ \A u \in Targets, n \in Messages : received[u][n] \in Nat /\ inflight[u][n] \in Nat
      /\ "A" \in Targets /\ "B" \in Targets
  BY DEF RabbitTypeOK, RowTypeOK, Targets
<1>0. \A s \in {"RESERVED", "FAILED_B", "QUEUED_B", "B_REPLIED", "FAILED_A_INJECTION", "DONE",
               "DEADLETTER_B", "DEADLETTER_A"} : s \in Statuses
  BY DEF Statuses, Dispatchable, Queued, Injectable, Settled, Deadletters
<1>s. UNCHANGED <<received, inflight>> => \A u \in Targets, n \in Messages : Sent(u, n)' = Sent(u, n)
  BY DEF Sent
<1> DEFINE Kept == consumed \subseteq consumed' /\ unsent \subseteq unsent'
<1>a. ASSUME UNCHANGED <<status, reply, followed, received, inflight>>, Kept PROVE Grows
  BY <1>a, <1>s, <1>t DEF Grows
<1>b. ASSUME NEW m \in Messages \union {0},
             NEW s \in {"RESERVED", "FAILED_B", "QUEUED_B", "B_REPLIED", "FAILED_A_INJECTION", "DONE",
                        "DEADLETTER_B", "DEADLETTER_A"},
             UpdateStatus(m, s) \/ UpdateStatusLater(m, s), UNCHANGED <<followed, received, inflight>>, Kept
      PROVE  Grows
  <2>1. UNCHANGED reply /\ \A n \in Messages : status'[n] = IF n = m THEN s ELSE status[n]
    BY <1>b, <1>0, <1>t, UpdateStatusEffect
  <2>2. \A n \in Messages : status[n] # "ABSENT" => status'[n] # "ABSENT"
    BY <2>1
  <2>3. \A n \in Messages, u \in Targets : received'[u][n] >= received[u][n]
    BY <1>b, <1>t
  <2> QED BY <1>b, <1>s, <2>1, <2>2, <2>3 DEF Grows
<1>d. ASSUME NEW m \in Messages, UpdateReply(m), UNCHANGED <<followed, received, inflight>>, Kept PROVE Grows
  BY <1>d, <1>s, <1>t, UpdateReplyEffect DEF Grows
<1>e. ASSUME NEW t \in Targets, NEW m \in Messages, Arrives(t, m) \/ StaysInNetwork(t, m),
             UNCHANGED <<status, reply>>, \A n \in Messages : followed[n] => followed'[n], Kept
      PROVE  Grows
  <2>1. /\ \A u \in Targets, n \in Messages : received'[u][n] >= received[u][n]
        /\ Sent(t, m)' = Sent(t, m) + 1
        /\ \A u \in Targets, n \in Messages : u # t \/ n # m => Sent(u, n)' = Sent(u, n)
    BY <1>e, <1>t, SendEffect
  <2>2. Sent(t, m) \in Nat
    BY <1>t DEF Sent
  <2>3. \A u \in Targets, n \in Messages : Sent(u, n) > 0 => Sent(u, n)' > 0
    <3>1. Sent(t, m)' > 0
      BY <2>1, <2>2
    <3> QED BY <2>1, <3>1
  <2> QED BY <1>e, <2>1, <2>3 DEF Grows
<1>1. ASSUME NEW m \in Messages, PublishDispatch(m) PROVE Grows
  <2>1. CASE PublishRequest(m)
    BY <2>1, <1>a DEF PublishRequest
  <2>2. CASE RecordPublication(m)
    BY <2>2, <1>a DEF RecordPublication, RecordAttempt
  <2>3. CASE MarkQueued(m)
    BY <2>3, <1>b DEF MarkQueued
  <2>4. CASE (DispatchSkip(m) \/ DecideDispatchRetry(m)) /\ UNCHANGED rabbitVars
    BY <2>4, <1>a DEF DispatchSkip, DecideDispatchRetry
  <2>5. CASE DispatchExhausted(m) /\ UNCHANGED rabbitVars
    BY <2>5, <1>b DEF DispatchExhausted
  <2>6. CASE (DispatchExpired(m) \/ RecordDispatchFailure(m)) /\ UNCHANGED rabbitVars
    BY <2>6, <1>a DEF DispatchExpired, RecordDispatchFailure, RecordAttempt
  <2>7. CASE ConcludeDispatchFailure(m) /\ UNCHANGED rabbitVars
    BY <2>7, <1>b DEF ConcludeDispatchFailure
  <2> QED BY <1>1, <2>1, <2>2, <2>3, <2>4, <2>5, <2>6, <2>7 DEF PublishDispatch
<1>2. ASSUME NEW m \in Messages, ConsumeReplies(m) PROVE Grows
  <2>1. CASE TakeReply(m) \/ IgnoreReply(m) \/ AckReply(m) \/ PutBackReply(m)
    BY <2>1, <1>a DEF TakeReply, IgnoreReply, AckReply, PutBackReply
  <2>2. CASE StoreBrokerReply(m)
    BY <2>2, <1>d DEF StoreBrokerReply
  <2>3. CASE RecordErrorReply(m)
    BY <2>3, <1>a DEF RecordErrorReply, RecordAttempt
  <2>4. CASE ConcludeErrorReply(m)
    BY <2>4, <1>b DEF ConcludeErrorReply
  <2> QED BY <1>2, <2>1, <2>2, <2>3, <2>4 DEF ConsumeReplies
<1>3. ASSUME NEW m \in Messages, CollectSkip(m) \/ CollectReply(m) PROVE Grows
  BY <1>3, <1>a, <1>d DEF CollectSkip, CollectReply
<1>4. CASE \/ BeginConsume \/ BeginCollect \/ BeginInjectAfterCollect \/ SkipInjectAfterCollect
           \/ (BeginDispatch \/ EndPoll) /\ UNCHANGED rabbitVars
  BY <1>4, <1>a DEF BeginConsume, BeginCollect, BeginInjectAfterCollect,
     SkipInjectAfterCollect, BeginDispatch, EndPoll
<1>5. ASSUME NEW m \in Messages, Inject(m), UNCHANGED rabbitVars PROVE Grows
  <2>1. CASE InjectSkip(m) \/ InjectStart(m) \/ ConfirmTimedOutInjection(m)
    BY <1>5, <2>1, <1>a DEF InjectSkip, InjectStart, ConfirmTimedOutInjection
  <2>2. CASE InjectExpired(m)
    BY <1>5, <2>2, <1>b DEF InjectExpired
  <2>3. CASE ConfirmInjection(m)
    BY <1>5, <2>3, <1>a, <1>b DEF ConfirmInjection
  <2>4. CASE PostInjection(m)
    BY <1>5, <2>4, <1>e, <1>t DEF PostInjection, PostUncertain
  <2>5. CASE RecordInjectionSuccess(m) \/ RecordInjectionFailure(m)
    BY <1>5, <2>5, <1>a DEF RecordInjectionSuccess, RecordInjectionFailure, RecordAttempt
  <2>6. CASE MarkDone(m)
    BY <1>5, <2>6, <1>b DEF MarkDone
  <2>7. CASE ConcludeInjectionFailure(m)
    BY <1>5, <2>7, <1>b DEF ConcludeInjectionFailure
  <2> QED BY <1>5, <2>1, <2>2, <2>3, <2>4, <2>5, <2>6, <2>7 DEF Inject
<1>6. ASSUME NEW m \in Messages, AdapterWorks(m) PROVE Grows
  <2>1. CASE AdapterPost(m)
    <3>1. /\ Arrives("B", m) \/ StaysInNetwork("B", m)
          /\ \A n \in Messages : followed[n] => followed'[n]
      BY <2>1, <1>t DEF AdapterPost, PostUncertain
    <3> QED BY <2>1, <3>1, <1>e, <1>t DEF AdapterPost, adapterKeeps, adapterLeaves
  <2>2. CASE AdapterTake(m) \/ AdapterReply(m) \/ AdapterAck(m)
    BY <2>2, <1>a DEF AdapterTake, AdapterReply, AdapterAck, adapterKeeps, adapterLeaves
  <2> QED BY <1>6, <2>1, <2>2 DEF AdapterWorks
<1>7. CASE AdapterAckFails \/ AdapterFails
  BY <1>7, <1>a DEF AdapterAckFails, AdapterFails, AdapterDies, AdapterLosesConnection,
     AdapterTokenTimesOut, adapterKeeps, adapterLeaves
<1>8. CASE ConsumerTake
  BY <1>8, <1>a DEF ConsumerTake, consumerKeeps
<1>9. CASE ConsumerInject
  <2>1. Delivery("consumer").payload.msg \in Messages
    BY <1>9, <1>t, HeldDelivery DEF ConsumerInject, Clients, Payloads
  <2> QED BY <1>9, <2>1, <1>a, <1>e, <1>t DEF ConsumerInject, consumerKeeps
<1>10. ASSUME NEW m \in Messages, World(m), UNCHANGED rabbitVars PROVE Grows
  <2>1. CASE Ingest(m)
    BY <1>10, <2>1, <1>s, <1>t DEF Ingest, UpdateArtifact, Grows
  <2>2. CASE Expire(m) \/ BackoffElapses(m)
    BY <1>10, <2>2, <1>a DEF Expire, BackoffElapses
  <2>3. CASE WorkerWrites(m)
    BY <1>10, <2>3, <1>s, <1>t DEF WorkerWrites, Grows
  <2>4. ASSUME NEW t \in Targets, LateArrival(t, m) PROVE Grows
    <3>1. \A u \in Targets, n \in Messages : received'[u][n] >= received[u][n] /\ Sent(u, n)' = Sent(u, n)
      BY <2>4, LateArrivalEffect
    <3> QED BY <1>10, <2>4, <3>1 DEF LateArrival, Grows
  <2> QED BY <1>10, <2>1, <2>2, <2>3, <2>4 DEF World
<1>11. ASSUME Replay, UNCHANGED rabbitVars PROVE Grows
  <2>1. ASSUME NEW o \in Operators, NEW m \in Messages, ReplayRead(o, m) PROVE Grows
    BY <1>11, <2>1, <1>a DEF ReplayRead
  <2>2. ASSUME NEW o \in Operators, ReplayClear(o) PROVE Grows
    BY <1>11, <2>2, <1>a DEF ReplayClear, ClearAttempts
  <2>3. ASSUME NEW o \in Operators, ReplaySet(o) PROVE Grows
    <3>1. op[o].msg \in Messages \union {0}
      BY DEF RabbitTypeOK
    <3> QED BY <1>11, <2>3, <3>1, <1>b DEF ReplaySet
  <2> QED BY <1>11, <2>1, <2>2, <2>3 DEF Replay
<1>12. CASE RelayDies \/ UNCHANGED allVars
  BY <1>12, <1>a DEF RelayDies, Crash, allVars, vars
<1>13. CASE RelayWorks
  BY <1>1, <1>2, <1>3, <1>4, <1>5, <1>13 DEF RelayWorks
<1>14. CASE AdapterStep
  BY <1>6, <1>7, <1>14 DEF AdapterStep
<1>15. CASE ((\E m \in Messages : World(m)) \/ Replay) /\ UNCHANGED rabbitVars
  BY <1>10, <1>11, <1>15
<1> QED BY <1>7, <1>8, <1>9, <1>12, <1>13, <1>14, <1>15 DEF RabbitNext

\* A genuine message stays genuine.
LEMMA GenuineGrows ==
  ASSUME Grows, NEW p \in Payloads, Genuine(p)
  PROVE  Genuine(p)'
BY DEF Grows, Genuine, Payloads

\* The broker invents nothing: a step publishes one genuine message, or moves
\* one delivery, or leaves the broker alone.
LEMMA BrokerStep ==
  ASSUME RabbitTypeOK, ControlInv, KnownInv, [RabbitNext]_allVars
  PROVE  \/ UNCHANGED brokerVars
         \/ \E q \in Queues, p \in Payloads : Publish(q, p) /\ Genuine(p)
         \/ \E c \in Clients, q \in Queues : Fetch(c, q)
         \/ \E c \in Clients : Settle(c) \/ Requeue(c)
<1> DEFINE Steps ==
       \/ UNCHANGED brokerVars
       \/ \E q \in Queues, p \in Payloads : Publish(q, p) /\ Genuine(p)
       \/ \E c \in Clients, q \in Queues : Fetch(c, q)
       \/ \E c \in Clients : Settle(c) \/ Requeue(c)
<1> SUFFICES Steps OBVIOUS
<1>c. /\ "relay" \in Clients /\ "adapter" \in Clients /\ "consumer" \in Clients
      /\ "inbox" \in Queues /\ "reply" \in Queues
      /\ \A m \in Messages : Request(m) \in Payloads /\ OkReply(m) \in Payloads /\ ErrorReply(m) \in Payloads
  BY DEF Clients, Queues, Payloads, Request, OkReply, ErrorReply
<1>u. UNCHANGED brokerVars => Steps
  OBVIOUS
<1>p. ASSUME NEW q \in Queues, NEW p \in Payloads, Publish(q, p), Genuine(p) PROVE Steps
  BY <1>p
<1>f. ASSUME NEW c \in Clients, NEW q \in Queues, Fetch(c, q) PROVE Steps
  BY <1>f
<1>s. ASSUME NEW c \in Clients, Settle(c) \/ Requeue(c) PROVE Steps
  BY <1>s
<1> HIDE DEF Steps
<1> USE DEF rabbitVars, brokerVars
<1>1. ASSUME NEW m \in Messages, PublishDispatch(m) PROVE Steps
  <2>1. CASE PublishRequest(m)
    <3>1. Genuine(Request(m))
      BY <2>1 DEF PublishRequest, PublishReady, DispatchReady, IsNextRow, KnownInv, Genuine, Request
    <3> QED BY <2>1, <3>1, <1>c, <1>u, <1>p DEF PublishRequest, PublishUnconfirmed
  <2>2. CASE RecordPublication(m) \/ MarkQueued(m)
    BY <2>2, <1>u DEF RecordPublication, MarkQueued
  <2> QED BY <1>1, <2>1, <2>2, <1>u DEF PublishDispatch
<1>2. ASSUME NEW m \in Messages, ConsumeReplies(m) PROVE Steps
  BY <1>2, <1>c, <1>f, <1>s, <1>u DEF ConsumeReplies, TakeReply, IgnoreReply, StoreBrokerReply,
     RecordErrorReply, ConcludeErrorReply, AckReply, PutBackReply
<1>3. ASSUME NEW m \in Messages, CollectSkip(m) \/ CollectReply(m) PROVE Steps
  BY <1>3, <1>u DEF CollectSkip, CollectReply
<1>4. CASE BeginConsume \/ BeginCollect \/ BeginInjectAfterCollect \/ SkipInjectAfterCollect
  BY <1>4, <1>u DEF BeginConsume, BeginCollect, BeginInjectAfterCollect, SkipInjectAfterCollect
<1>5. UNCHANGED rabbitVars => Steps
  BY <1>u
<1>6. ASSUME NEW m \in Messages, AdapterWorks(m) PROVE Steps
  <2>1. CASE AdapterReply(m)
    <3>1. CASE job.stage = "answered" /\ Publish("reply", OkReply(m))
      <4>1. Genuine(OkReply(m))
        BY <2>1, <3>1 DEF AdapterReply, KnownInv, Genuine, OkReply
      <4> QED BY <3>1, <4>1, <1>c, <1>p
    <3>2. CASE job.stage = "failed" /\ Publish("reply", ErrorReply(m))
      <4>1. Genuine(ErrorReply(m))
        BY <2>1, <3>2 DEF AdapterReply, KnownInv, Genuine, ErrorReply
      <4> QED BY <3>2, <4>1, <1>c, <1>p
    <3> QED BY <2>1, <3>1, <3>2 DEF AdapterReply
  <2> QED BY <1>6, <2>1, <1>c, <1>f, <1>s, <1>u DEF AdapterWorks, AdapterTake, AdapterPost, AdapterAck
<1>7. CASE AdapterAckFails \/ AdapterFails
  BY <1>7, <1>c, <1>s, <1>u DEF AdapterAckFails, AdapterFails, AdapterDies, AdapterLosesConnection,
     AdapterTokenTimesOut, RequeueIfHeld
<1>8. CASE ConsumerTake \/ ConsumerInject \/ RelayDies
  BY <1>8, <1>c, <1>f, <1>s, <1>u DEF ConsumerTake, ConsumerInject, RelayDies, RequeueIfHeld
<1>9. CASE UNCHANGED allVars
  BY <1>9, <1>u DEF allVars
<1>10. CASE RelayWorks
  BY <1>1, <1>2, <1>3, <1>4, <1>5, <1>10 DEF RelayWorks
<1> QED BY <1>5, <1>6, <1>7, <1>8, <1>9, <1>10 DEF RabbitNext, AdapterStep

\* Every message in the broker is genuine.
LEMMA GenuineNext ==
  ASSUME RabbitTypeOK, ControlInv, AnswerInv, [RabbitNext]_allVars
  PROVE  GenuineInv'
<1>t. /\ BrokerTypeOK /\ GenuineInv /\ KnownInv /\ Grows
  BY GrowNext DEF RabbitTypeOK, AnswerInv
<1>q. ASSUME NEW q \in Queues
      PROVE  /\ Content(q) \subseteq Payloads
             /\ \A p \in Content(q) : Genuine(p)
  BY <1>t DEF GenuineInv, Content, BrokerTypeOK
<1>h. ASSUME NEW c \in Clients, Holds(c)
      PROVE  Delivery(c).payload \in Payloads /\ Genuine(Delivery(c).payload) /\ Delivery(c).queue \in Queues
  BY <1>h, <1>t, HeldDelivery DEF GenuineInv
<1>g. ASSUME NEW p \in Payloads, Genuine(p) PROVE Genuine(p)'
  BY <1>g, <1>t, GenuineGrows
<1>1. SUFFICES /\ \A q \in Queues : \A p \in Content(q)' : p \in Payloads /\ Genuine(p)
               /\ \A c \in Clients : Holds(c)' =>
                      \E p \in Payloads : Delivery(c)'.payload = p /\ Genuine(p)
  <2>1. \A q \in Queues : \A p \in Content(q)' : Genuine(p)'
    BY <1>1, <1>g
  <2>2. \A q \in Queues : \A i \in DOMAIN ready'[q] : ready'[q][i] \in Content(q)'
    BY DEF Content
  <2>3. \A q \in Queues : \A i \in DOMAIN ready'[q] : Genuine(ready[q][i])'
    BY <2>1, <2>2 DEF Genuine
  <2>4. \A c \in Clients : Holds(c)' => Genuine(Delivery(c).payload)'
    BY <1>1, <1>g DEF Genuine
  <2> QED BY <2>3, <2>4 DEF GenuineInv
<1>k. ASSUME NEW c \in Clients, held'[c] = held[c], Holds(c)'
      PROVE  \E p \in Payloads : Delivery(c)'.payload = p /\ Genuine(p)
  BY <1>k, <1>h DEF Holds, Delivery
<1>2. CASE UNCHANGED brokerVars
  <2>1. held' = held /\ \A q \in Queues : Content(q)' = Content(q)
    BY <1>2 DEF brokerVars, Content
  <2> QED BY <2>1, <1>q, <1>k
<1>3. ASSUME NEW q \in Queues, NEW p \in Payloads, Publish(q, p), Genuine(p)
      PROVE  /\ \A r \in Queues : \A x \in Content(r)' : x \in Payloads /\ Genuine(x)
             /\ \A c \in Clients : Holds(c)' =>
                    \E x \in Payloads : Delivery(c)'.payload = x /\ Genuine(x)
  BY <1>3, <1>t, <1>q, <1>k, PublishEffect
<1>4. ASSUME NEW c \in Clients, NEW q \in Queues, Fetch(c, q)
      PROVE  /\ \A r \in Queues : \A x \in Content(r)' : x \in Payloads /\ Genuine(x)
             /\ \A d \in Clients : Holds(d)' =>
                    \E x \in Payloads : Delivery(d)'.payload = x /\ Genuine(x)
  <2> DEFINE h == Head(ready[q])
  <2>1. /\ h \in Content(q) /\ h \in Payloads /\ Delivery(c)'.payload = h
        /\ \A d \in Clients : d # c => held'[d] = held[d]
        /\ \A r \in Queues : Content(r)' \subseteq Content(r)
    BY <1>4, <1>t, FetchEffect
  <2> HIDE DEF h
  <2> QED BY <2>1, <1>q, <1>k
<1>5. ASSUME NEW c \in Clients, Settle(c)
      PROVE  /\ \A r \in Queues : \A x \in Content(r)' : x \in Payloads /\ Genuine(x)
             /\ \A d \in Clients : Holds(d)' =>
                    \E x \in Payloads : Delivery(d)'.payload = x /\ Genuine(x)
  <2>1. /\ ~Holds(c)' /\ \A d \in Clients : d # c => held'[d] = held[d]
        /\ \A r \in Queues : Content(r)' = Content(r)
    BY <1>5, <1>t, SettleEffect
  <2> QED BY <2>1, <1>q, <1>k
<1>6. ASSUME NEW c \in Clients, Requeue(c)
      PROVE  /\ \A r \in Queues : \A x \in Content(r)' : x \in Payloads /\ Genuine(x)
             /\ \A d \in Clients : Holds(d)' =>
                    \E x \in Payloads : Delivery(d)'.payload = x /\ Genuine(x)
  <2>1. /\ Holds(c) /\ ~Holds(c)' /\ \A d \in Clients : d # c => held'[d] = held[d]
        /\ \A r \in Queues : Content(r)' \subseteq Content(r) \union {Delivery(c).payload}
    BY <1>6, <1>t, RequeueEffect
  <2> QED BY <2>1, <1>h, <1>q, <1>k
<1> QED BY <1>t, <1>2, <1>3, <1>4, <1>5, <1>6, BrokerStep

\* Nobody ever works on a row that is not there, or waits for a gateway on behalf of one.
LEMMA KnownNext ==
  ASSUME RabbitTypeOK, ControlInv, AnswerInv, [RabbitNext]_allVars
  PROVE  KnownInv'
<1> USE DEF rowVars, loopVars, gatewayVars, opVars, brokerVars, jobVars, consumerVars,
        rabbitVars, Goto, EndRow, SkipRow, TakeRow, At
<1> DEFINE Job == /\ job.stage # "idle" => status[job.msg] # "ABSENT"
                  /\ job.stage = "answered" => followed[job.msg]
           Asked == \A m \in Messages : Sent("B", m) > 0 => status[m] # "ABSENT"
           Loop == /\ cur # 0 => status[cur] # "ABSENT"
                   /\ \A m \in batch : status[m] # "ABSENT"
           Ops == \A o \in Operators : op[o].stage # "idle" =>
                      /\ op[o].msg \in Messages /\ status[op[o].msg] # "ABSENT"
                      /\ op[o].target = "A" => reply[op[o].msg]
<1>t. /\ Grows /\ Job /\ Asked /\ Loop /\ Ops /\ BrokerTypeOK /\ RowTypeOK
      /\ cur \in Messages \union {0} /\ batch \subseteq Messages
      /\ job \in [stage : JobStages, msg : Messages \union {0}]
      /\ job.stage = "idle" <=> job.msg = 0
      /\ received \in [Targets -> [Messages -> Nat]] /\ inflight \in [Targets -> [Messages -> Nat]]
      /\ followed \in [Messages -> BOOLEAN]
      /\ op \in [Operators -> [stage : OpStages, msg : Messages \union {0}, target : Targets]]
      /\ "A" \in Targets /\ "B" \in Targets
  BY GrowNext DEF AnswerInv, KnownInv, RabbitTypeOK, ControlInv, Targets
<1>j. UNCHANGED job => Job'
  BY <1>t DEF Grows
<1>k. ASSUME NEW m \in Messages, status[m] # "ABSENT", job'.msg = m,
             job'.stage # "answered" \/ followed'[m]
      PROVE  Job'
  BY <1>k, <1>t DEF Grows
<1>s. ASSUME \A m \in Messages : Sent("B", m)' = Sent("B", m) \/ status[m] # "ABSENT"
      PROVE  Asked'
  BY <1>s, <1>t DEF Grows
<1>g. UNCHANGED <<received, inflight>> => Asked'
  <2> SUFFICES ASSUME UNCHANGED <<received, inflight>> PROVE Asked'
    OBVIOUS
  <2>1. \A m \in Messages : Sent("B", m)' = Sent("B", m)
    BY DEF Sent
  <2> QED BY <2>1, <1>s
<1>l. ASSUME cur' = 0 \/ cur' = cur \/ cur' \in batch, batch' \subseteq batch
      PROVE  Loop'
  BY <1>l, <1>t DEF Grows
<1>o. UNCHANGED op => Ops'
  BY <1>t DEF Grows
<1> SUFFICES Job' /\ Asked' /\ Loop' /\ Ops'
  BY DEF KnownInv
<1> DEFINE Goal == Job' /\ Asked' /\ Loop' /\ Ops'
<1> SUFFICES Goal OBVIOUS
<1>x. ASSUME UNCHANGED <<job, received, inflight, op>>,
             cur' = 0 \/ cur' = cur \/ cur' \in batch, batch' \subseteq batch
      PROVE  Goal
  BY <1>x, <1>j, <1>g, <1>l, <1>o
<1>b. ASSUME NEW S, "ABSENT" \notin S, batch' = {m \in Messages : status[m] \in S},
             cur' = 0 \/ cur' = cur, UNCHANGED <<job, received, inflight, op>>
      PROVE  Goal
  <2>1. Loop'
    BY <1>b, <1>t DEF Grows
  <2> QED BY <2>1, <1>b, <1>j, <1>g, <1>o
<1> HIDE DEF Job, Asked, Loop, Ops
<1>1. ASSUME NEW m \in Messages, PublishDispatch(m) PROVE Goal
  <2>0. UNCHANGED <<job, received, inflight, op>>
    BY <1>1 DEF PublishDispatch, PublishRequest, RecordPublication, MarkQueued, DispatchSkip,
       DispatchExhausted, DispatchExpired, RecordDispatchFailure, DecideDispatchRetry,
       ConcludeDispatchFailure
  <2>1. (cur' = 0 \/ cur' = cur \/ cur' \in batch) /\ batch' \subseteq batch
    BY <1>1 DEF PublishDispatch, PublishRequest, RecordPublication, MarkQueued, DispatchSkip,
       DispatchExhausted, DispatchExpired, RecordDispatchFailure, DecideDispatchRetry,
       ConcludeDispatchFailure, PublishReady, DispatchReady, IsNextRow
  <2> QED BY <2>0, <2>1, <1>x
<1>2. ASSUME NEW m \in Messages, ConsumeReplies(m) PROVE Goal
  <2>0. UNCHANGED <<job, received, inflight, op>>
    BY <1>2 DEF ConsumeReplies, TakeReply, IgnoreReply, StoreBrokerReply, RecordErrorReply,
       ConcludeErrorReply, AckReply, PutBackReply
  <2>1. CASE TakeReply(m)
    <3>1. Head(ready["reply"]) \in Content("reply")
      BY <2>1, <1>t, FetchEffect DEF TakeReply, Clients, Queues
    <3>2. status[m] # "ABSENT"
      BY <2>1, <3>1 DEF TakeReply, AnswerInv, GenuineInv, Content, Queues, Genuine
    <3>3. Loop'
      BY <2>1, <3>2, <1>t DEF TakeReply, Grows, Loop
    <3> QED BY <2>0, <3>3, <1>j, <1>g, <1>o
  <2>2. CASE PutBackReply(m)
    BY <2>2, <2>0, <1>b DEF PutBackReply, Queued
  <2>3. CASE IgnoreReply(m) \/ StoreBrokerReply(m) \/ RecordErrorReply(m) \/ ConcludeErrorReply(m) \/ AckReply(m)
    BY <2>3, <2>0, <1>x DEF IgnoreReply, StoreBrokerReply, RecordErrorReply, ConcludeErrorReply, AckReply
  <2> QED BY <1>2, <2>1, <2>2, <2>3 DEF ConsumeReplies
<1>3. ASSUME NEW m \in Messages, CollectSkip(m) \/ CollectReply(m) PROVE Goal
  BY <1>3, <1>x DEF CollectSkip, CollectReply
<1>4. CASE \/ BeginConsume \/ BeginCollect \/ BeginInjectAfterCollect \/ SkipInjectAfterCollect
           \/ (BeginDispatch \/ EndPoll) /\ UNCHANGED rabbitVars
  <2>1. CASE SkipInjectAfterCollect \/ (EndPoll /\ UNCHANGED rabbitVars)
    BY <2>1, <1>x DEF SkipInjectAfterCollect, EndPoll
  <2>2. CASE BeginConsume \/ BeginCollect \/ BeginInjectAfterCollect \/ (BeginDispatch /\ UNCHANGED rabbitVars)
    BY <2>2, <1>b DEF BeginConsume, BeginCollect, BeginInjectAfterCollect, BeginDispatch, BeginPass,
       Queued, Injectable, Dispatchable
  <2> QED BY <1>4, <2>1, <2>2
<1>5. ASSUME NEW m \in Messages, Inject(m), UNCHANGED rabbitVars PROVE Goal
  <2>1. (cur' = 0 \/ cur' = cur \/ cur' \in batch) /\ batch' \subseteq batch /\ UNCHANGED op
    BY <1>5 DEF Inject, InjectSkip, InjectExpired, InjectStart, ConfirmInjection, PostInjection,
       ConfirmTimedOutInjection, RecordInjectionSuccess, MarkDone, RecordInjectionFailure,
       ConcludeInjectionFailure, InjectReady, IsNextRow
  <2>2. CASE PostInjection(m)
    <3>1. \A n \in Messages : Sent("B", n)' = Sent("B", n)
      BY <2>2, <1>t, SendEffect DEF PostInjection, PostUncertain
    <3> QED BY <3>1, <2>1, <1>5, <1>j, <1>s, <1>l, <1>o
  <2>3. CASE UNCHANGED <<received, inflight>>
    BY <2>1, <2>3, <1>5, <1>x
  <2> QED BY <1>5, <2>2, <2>3 DEF Inject, InjectSkip, InjectExpired, InjectStart, ConfirmInjection,
       ConfirmTimedOutInjection, RecordInjectionSuccess, MarkDone, RecordInjectionFailure,
       ConcludeInjectionFailure
<1>6. ASSUME NEW m \in Messages, AdapterWorks(m) PROVE Goal
  <2>0. UNCHANGED <<cur, batch, op>>
    BY <1>6 DEF AdapterWorks, AdapterTake, AdapterPost, AdapterReply, AdapterAck, adapterKeeps, adapterLeaves
  <2>r. \A s \in JobStages, k \in Messages : [stage |-> s, msg |-> k].msg = k /\ [stage |-> s, msg |-> k].stage = s
    OBVIOUS
  <2>1. CASE AdapterTake(m)
    <3>1. Head(ready["inbox"]) \in Content("inbox")
      BY <2>1, <1>t, FetchEffect DEF AdapterTake, Clients, Queues
    <3>2. status[m] # "ABSENT"
      BY <2>1, <3>1 DEF AdapterTake, AnswerInv, GenuineInv, Content, Queues, Genuine
    <3>3. job'.msg = m /\ job'.stage # "answered" /\ UNCHANGED <<received, inflight>>
      BY <2>1 DEF AdapterTake
    <3> QED BY <2>0, <3>2, <3>3, <1>k, <1>g, <1>l, <1>o
  <2>2. CASE AdapterPost(m)
    <3>1. job.msg = m /\ status[m] # "ABSENT"
      BY <2>2, <1>t DEF AdapterPost, Job
    <3>2. job'.msg = m /\ (job'.stage # "answered" \/ followed'[m])
      BY <2>2, <1>t DEF AdapterPost
    <3>3. \A n \in Messages : n # m => Sent("B", n)' = Sent("B", n)
      BY <2>2, <1>t, SendEffect DEF AdapterPost, PostUncertain
    <3> QED BY <2>0, <3>1, <3>2, <3>3, <1>k, <1>s, <1>l, <1>o
  <2>3. CASE AdapterReply(m)
    <3>1. status[m] # "ABSENT" /\ job'.msg = m /\ job'.stage # "answered" /\ UNCHANGED <<received, inflight>>
      BY <2>3, <1>t DEF AdapterReply, Job
    <3> QED BY <2>0, <3>1, <1>k, <1>g, <1>l, <1>o
  <2>4. CASE AdapterAck(m)
    <3>1. Job' /\ UNCHANGED <<received, inflight>>
      BY <2>4 DEF AdapterAck, NoJob, Job
    <3> QED BY <2>0, <3>1, <1>g, <1>l, <1>o
  <2> QED BY <1>6, <2>1, <2>2, <2>3, <2>4 DEF AdapterWorks
<1>7. CASE AdapterAckFails \/ AdapterDies
  <2>1. Job' /\ UNCHANGED <<received, inflight, cur, batch, op>>
    BY <1>7 DEF AdapterAckFails, AdapterDies, NoJob, Job, adapterKeeps, adapterLeaves
  <2> QED BY <2>1, <1>g, <1>l, <1>o
<1>8. CASE AdapterLosesConnection
  BY <1>8, <1>x DEF AdapterLosesConnection, adapterKeeps, adapterLeaves
<1>9. ASSUME NEW m \in Messages, AdapterTokenTimesOut(m) PROVE Goal
  <2>1. /\ status[m] # "ABSENT" /\ job'.msg = m /\ job'.stage # "answered"
        /\ UNCHANGED <<received, inflight, cur, batch, op>>
    BY <1>9, <1>t DEF AdapterTokenTimesOut, adapterLeaves, Job
  <2> QED BY <2>1, <1>k, <1>g, <1>l, <1>o
<1>10. CASE ConsumerTake
  BY <1>10, <1>x DEF ConsumerTake, consumerKeeps
<1>11. CASE ConsumerInject
  <2>1. Delivery("consumer").payload.msg \in Messages
    BY <1>11, <1>t, HeldDelivery DEF ConsumerInject, Clients, Payloads
  <2>2. UNCHANGED <<job, cur, batch, op>>
    BY <1>11 DEF ConsumerInject, consumerKeeps
  <2>3. CASE UNCHANGED <<received, inflight>>
    BY <2>2, <2>3, <1>x
  <2>4. CASE Arrives("A", Delivery("consumer").payload.msg) \/ StaysInNetwork("A", Delivery("consumer").payload.msg)
    <3>1. \A n \in Messages : Sent("B", n)' = Sent("B", n)
      BY <2>1, <2>4, <1>t, SendEffect
    <3> QED BY <2>2, <3>1, <1>j, <1>s, <1>l, <1>o
  <2> QED BY <1>11, <2>3, <2>4 DEF ConsumerInject
<1>12. ASSUME NEW m \in Messages, World(m), UNCHANGED rabbitVars PROVE Goal
  <2>1. UNCHANGED <<cur, batch, op>>
    BY <1>12 DEF World, Ingest, Expire, BackoffElapses, WorkerWrites, LateArrival
  <2>2. \A n \in Messages : Sent("B", n)' = Sent("B", n)
    <3>1. ASSUME NEW t \in Targets, LateArrival(t, m) PROVE \A n \in Messages : Sent("B", n)' = Sent("B", n)
      BY <3>1, <1>t, LateArrivalEffect
    <3>2. CASE UNCHANGED <<received, inflight>>
      BY <3>2 DEF Sent
    <3> QED BY <1>12, <3>1, <3>2 DEF World, Ingest, Expire, BackoffElapses, WorkerWrites
  <2> QED BY <1>12, <2>1, <2>2, <1>j, <1>s, <1>l, <1>o
<1>13. ASSUME NEW o \in Operators, ReplayClear(o) \/ ReplaySet(o) \/ \E m \in Messages : ReplayRead(o, m),
              UNCHANGED rabbitVars
       PROVE  Goal
  <2>1. UNCHANGED <<cur, batch, received, inflight>>
    BY <1>13 DEF ReplayRead, ReplayClear, ReplaySet
  <2>2. Ops'
    <3>1. ASSUME NEW m \in Messages, ReplayRead(o, m) PROVE Ops'
      <4>1. /\ op' = [op EXCEPT ![o] = [stage |-> "clear", msg |-> m,
                                target |-> IF status[m] = "DEADLETTER_B" THEN "B" ELSE "A"]]
            /\ status[m] \in Deadletters /\ UNCHANGED <<status, reply>>
        BY <3>1 DEF ReplayRead
      <4>2. /\ op'[o].msg = m /\ (op'[o].target = "A" => status[m] = "DEADLETTER_A")
            /\ \A p \in Operators : p # o => op'[p] = op[p]
        BY <4>1, <1>t DEF Deadletters
      <4>3. status[m] = "DEADLETTER_A" => reply[m]
        BY DEF AnswerInv, ReplyHasOrigin
      <4>4. status[m] # "ABSENT"
        BY <4>1 DEF Deadletters
      <4> QED BY <4>1, <4>2, <4>3, <4>4, <1>t DEF Ops
    <3>2. CASE ReplayClear(o)
      <4>1. /\ op' = [op EXCEPT ![o] = [op[o] EXCEPT !.stage = "set"]]
            /\ op[o].stage = "clear" /\ UNCHANGED <<status, reply>>
        BY <3>2 DEF ReplayClear, ClearAttempts
      <4>2. op[o] \in [stage : OpStages, msg : Messages \union {0}, target : Targets]
        BY <1>t
      <4>3. /\ op'[o].msg = op[o].msg /\ op'[o].target = op[o].target
            /\ \A p \in Operators : p # o => op'[p] = op[p]
        BY <4>1, <4>2, <1>t
      <4> QED BY <4>1, <4>3, <1>t DEF Ops
    <3>3. CASE ReplaySet(o)
      <4>1. op' = [op EXCEPT ![o] = [stage |-> "idle", msg |-> 0, target |-> "B"]]
        BY <3>3 DEF ReplaySet
      <4>2. op'[o].stage = "idle" /\ \A p \in Operators : p # o => op'[p] = op[p]
        BY <4>1, <1>t
      <4> QED BY <4>2, <1>t DEF Ops, Grows
    <3> QED BY <1>13, <3>1, <3>2, <3>3
  <2> QED BY <1>13, <2>1, <2>2, <1>j, <1>g, <1>l
<1>14. CASE RelayDies
  BY <1>14, <1>x DEF RelayDies, Crash
<1>15. CASE UNCHANGED allVars
  BY <1>15, <1>x DEF allVars, vars
<1> HIDE DEF Goal
<1>16. CASE RelayWorks
  BY <1>1, <1>2, <1>3, <1>4, <1>5, <1>16 DEF RelayWorks
<1>17. CASE AdapterStep \/ AdapterFails
  BY <1>6, <1>7, <1>8, <1>9, <1>17 DEF AdapterStep, AdapterFails
<1>18. CASE ((\E m \in Messages : World(m)) \/ Replay) /\ UNCHANGED rabbitVars
  BY <1>12, <1>13, <1>18 DEF Replay
<1> QED BY <1>10, <1>11, <1>14, <1>15, <1>16, <1>17, <1>18 DEF RabbitNext

\* What searches for a row are like never changes.
LEMMA ViewKept == ASSUME [RabbitNext]_allVars PROVE UNCHANGED view
<1> USE DEF brokerVars, jobVars, consumerVars, rabbitVars, adapterLeaves, adapterKeeps, consumerKeeps
<1>1. CASE RelayWorks
  BY <1>1 DEF RelayWorks, BeginConsume, BeginCollect, BeginInjectAfterCollect, SkipInjectAfterCollect,
     PublishDispatch, PublishRequest, RecordPublication, MarkQueued,
     ConsumeReplies, TakeReply, IgnoreReply, StoreBrokerReply, RecordErrorReply, ConcludeErrorReply,
     AckReply, PutBackReply, CollectSkip, CollectReply
<1>2. CASE AdapterStep \/ AdapterFails
  BY <1>2 DEF AdapterStep, AdapterFails, AdapterWorks, AdapterTake, AdapterPost, AdapterReply, AdapterAck,
     AdapterAckFails, AdapterDies, AdapterLosesConnection, AdapterTokenTimesOut
<1>3. CASE ConsumerTake \/ ConsumerInject
  BY <1>3 DEF ConsumerTake, ConsumerInject
<1>4. CASE RelayDies \/ UNCHANGED allVars
  BY <1>4 DEF RelayDies, allVars
<1> QED BY <1>1, <1>2, <1>3, <1>4 DEF RabbitNext

\* What a reply can be taken from stays there.
LEMMA OriginKept ==
  ASSUME RabbitTypeOK, [RabbitNext]_allVars, NEW m \in Messages, HasOrigin(m)
  PROVE  HasOrigin(m)'
BY GrowNext, ViewKept DEF HasOrigin, Grows

\* A reply is stored, sent on and counted as delivered only for what it is.
LEMMA AnswerNext ==
  ASSUME RabbitTypeOK, ControlInv, AnswerInv, [RabbitNext]_allVars
  PROVE  AnswerInv'
<1> USE DEF rowVars, loopVars, gatewayVars, opVars, brokerVars, jobVars, consumerVars,
        rabbitVars, Goto, EndRow, SkipRow, TakeRow, At, InjectSteps, DispatchSteps, ReplySteps
<1> DEFINE Stored == \A m \in Messages :
               status[m] \in Injectable \union {"DONE", "DEADLETTER_A"} => reply[m]
           Given == \A m \in Messages : reply[m] \/ Sent("A", m) > 0 => HasOrigin(m)
           Delivered == \A m \in Messages : status[m] = "DONE" => received["A"][m] > 0
           Seen == step \in {"succeeded_a", "done_a"} => received["A"][cur] > 0
<1>t. /\ Grows /\ BrokerTypeOK /\ RowTypeOK /\ Stored /\ Given /\ Delivered /\ Seen
      /\ cur \in Messages \union {0} /\ batch \subseteq Messages
      /\ step = "next" <=> cur = 0
      /\ received \in [Targets -> [Messages -> Nat]] /\ inflight \in [Targets -> [Messages -> Nat]]
      /\ \A m \in Messages : received["A"][m] \in Nat
      /\ status \in [Messages -> Statuses] /\ reply \in [Messages -> BOOLEAN]
      /\ "A" \in Targets /\ "B" \in Targets
      /\ \A m \in Messages : followed[m] => HasOrigin(m)
  BY GrowNext DEF AnswerInv, ReplyHasOrigin, HasOrigin, DoneIsDelivered, RabbitTypeOK, RowTypeOK, ControlInv, Targets
<1>m. \A m \in Messages : received["A"][m] > 0 => received'["A"][m] > 0
  <2>1. \A m \in Messages : received'["A"][m] \in Nat
    BY TypeNext, <1>t DEF RabbitTypeOK
  <2>2. \A m \in Messages : received'["A"][m] >= received["A"][m]
    BY <1>t DEF Grows
  <2> QED BY <2>1, <2>2, <1>t
<1>o. \A m \in Messages : HasOrigin(m) => HasOrigin(m)'
  BY OriginKept
<1>n. Messages \subseteq Nat \ {0}
  BY StoreAssumption
<1>0. \A s \in {"RESERVED", "FAILED_B", "QUEUED_B", "B_REPLIED", "FAILED_A_INJECTION", "DONE",
               "DEADLETTER_B", "DEADLETTER_A"} : s \in Statuses
  BY DEF Statuses, Dispatchable, Queued, Injectable, Settled, Deadletters
<1> DEFINE Rows == Stored' /\ Delivered'
<1>r. ASSUME UNCHANGED status PROVE Rows
  BY <1>r, <1>t, <1>m DEF Grows
<1>u. ASSUME NEW m \in Messages \union {0},
             NEW s \in {"RESERVED", "FAILED_B", "QUEUED_B", "B_REPLIED", "FAILED_A_INJECTION", "DONE",
                        "DEADLETTER_B", "DEADLETTER_A"},
             UpdateStatus(m, s) \/ UpdateStatusLater(m, s),
             m # 0 /\ s \in Injectable \union {"DONE", "DEADLETTER_A"} => reply[m],
             s = "DONE" => received["A"][m] > 0
      PROVE  Rows
  <2>1. UNCHANGED reply /\ \A n \in Messages : status'[n] = IF n = m THEN s ELSE status[n]
    BY <1>u, <1>0, <1>t, UpdateStatusEffect
  <2>2. Stored'
    BY <2>1, <1>u, <1>t, <1>n
  <2> QED BY <2>1, <2>2, <1>m, <1>u, <1>t
<1>d. ASSUME NEW m \in Messages, UpdateReply(m), HasOrigin(m), UNCHANGED <<received, inflight>>
      PROVE  Rows /\ Given'
  <2>1. /\ reply'[m] /\ status'[m] = "B_REPLIED"
        /\ \A n \in Messages : n # m => status'[n] = status[n] /\ reply'[n] = reply[n]
    BY <1>d, <1>t, UpdateReplyEffect
  <2>2. \A n \in Messages : Sent("A", n)' = Sent("A", n)
    BY <1>d DEF Sent
  <2> QED BY <2>1, <2>2, <1>d, <1>t, <1>o
<1>v. ASSUME UNCHANGED <<reply, received, inflight>> PROVE Given'
  <2>1. \A n \in Messages : Sent("A", n)' = Sent("A", n)
    BY <1>v DEF Sent
  <2> QED BY <2>1, <1>v, <1>o, <1>t
<1>w. ASSUME UNCHANGED reply, \A n \in Messages : Sent("A", n)' = Sent("A", n) \/ HasOrigin(n)
      PROVE  Given'
  BY <1>w, <1>o, <1>t
<1>z. ASSUME step' \notin {"succeeded_a", "done_a"} \/ (UNCHANGED <<step, cur>>) PROVE Seen'
  BY <1>m, <1>n, <1>t, <1>z
<1> HIDE DEF Stored, Given, Delivered, Seen
<1> DEFINE Goal == Rows /\ Given' /\ Seen'
<1> SUFFICES Goal
  BY GenuineNext, KnownNext DEF AnswerInv, ReplyHasOrigin, DoneIsDelivered, Stored, Given, Delivered, Seen
<1>x. ASSUME UNCHANGED <<status, reply, received, inflight>>,
             step' \notin {"succeeded_a", "done_a"} \/ (UNCHANGED <<step, cur>>)
      PROVE  Goal
  BY <1>x, <1>r, <1>v, <1>z
<1> HIDE DEF Rows, Goal
<1>1. ASSUME NEW m \in Messages, PublishDispatch(m) PROVE Goal
  <2>0. UNCHANGED <<reply, received, inflight>>
    BY <1>1 DEF PublishDispatch, PublishRequest, RecordPublication, MarkQueued, DispatchSkip,
       DispatchExhausted, DispatchExpired, RecordDispatchFailure, DecideDispatchRetry,
       ConcludeDispatchFailure, RecordAttempt, UpdateStatus, UpdateStatusLater
  <2>1. step' \notin {"succeeded_a", "done_a"}
    BY <1>1, <1>t, <1>n DEF PublishDispatch, PublishRequest, RecordPublication, MarkQueued, DispatchSkip,
       DispatchExhausted, DispatchExpired, RecordDispatchFailure, DecideDispatchRetry,
       ConcludeDispatchFailure, PublishReady, DispatchReady, IsNextRow
  <2>2. Rows
    BY <1>1, <1>r, <1>u DEF PublishDispatch, PublishRequest, RecordPublication, MarkQueued,
       DispatchSkip, DispatchExhausted, DispatchExpired, RecordDispatchFailure, DecideDispatchRetry,
       ConcludeDispatchFailure, RecordAttempt, Injectable
  <2> QED BY <2>0, <2>1, <2>2, <1>v, <1>z DEF Goal
<1>2. ASSUME NEW m \in Messages, ConsumeReplies(m) PROVE Goal
  <2>0. UNCHANGED <<received, inflight, followed>>
    BY <1>2 DEF ConsumeReplies, TakeReply, IgnoreReply, StoreBrokerReply, RecordErrorReply,
       ConcludeErrorReply, AckReply, PutBackReply
  <2>1. step' \notin {"succeeded_a", "done_a"}
    BY <1>2 DEF ConsumeReplies, TakeReply, IgnoreReply, StoreBrokerReply, RecordErrorReply,
       ConcludeErrorReply, AckReply, PutBackReply
  <2>2. CASE TakeReply(m) \/ IgnoreReply(m) \/ AckReply(m) \/ PutBackReply(m) \/ RecordErrorReply(m)
    BY <2>0, <2>1, <2>2, <1>x DEF TakeReply, IgnoreReply, AckReply, PutBackReply, RecordErrorReply, RecordAttempt
  <2>3. CASE StoreBrokerReply(m)
    <3>1. InHand("relay", m) /\ UpdateReply(m) /\ Delivery("relay").payload.kind = "ok"
      BY <2>3 DEF StoreBrokerReply, ControlInv
    <3>2. followed[m]
      BY <3>1 DEF AnswerInv, GenuineInv, Genuine, Clients, InHand
    <3> QED BY <2>0, <2>1, <3>1, <3>2, <1>d, <1>t, <1>z DEF Goal
  <2>4. CASE ConcludeErrorReply(m)
    <3>1. Rows
      BY <2>4, <1>u DEF ConcludeErrorReply, Injectable
    <3>2. UNCHANGED reply
      BY <2>4 DEF ConcludeErrorReply, UpdateStatus, UpdateStatusLater
    <3> QED BY <2>0, <2>1, <3>1, <3>2, <1>v, <1>z DEF Goal
  <2> QED BY <1>2, <2>2, <2>3, <2>4 DEF ConsumeReplies
<1>3. ASSUME NEW m \in Messages, CollectSkip(m) \/ CollectReply(m) PROVE Goal
  <2>1. CASE CollectSkip(m)
    BY <2>1, <1>x DEF CollectSkip
  <2>2. CASE CollectReply(m)
    BY <2>2, <1>d, <1>z DEF CollectReply, MayFindReply, MaySeeReply, HasOrigin, Goal
  <2> QED BY <1>3, <2>1, <2>2
<1>4. CASE \/ BeginConsume \/ BeginCollect \/ BeginInjectAfterCollect \/ SkipInjectAfterCollect
           \/ (BeginDispatch \/ EndPoll) /\ UNCHANGED rabbitVars
  BY <1>4, <1>x DEF BeginConsume, BeginCollect, BeginInjectAfterCollect,
     SkipInjectAfterCollect, BeginDispatch, EndPoll, BeginPass, PassOver
<1>5. ASSUME NEW m \in Messages, Inject(m), UNCHANGED rabbitVars PROVE Goal
  <2>0. (step \in InjectSteps /\ cur = m) => reply[m] /\ HasOrigin(m)
    BY <1>t DEF ControlInv, Given
  <2>1. CASE InjectSkip(m)
    BY <2>1, <1>x DEF InjectSkip
  <2>2. CASE InjectExpired(m)
    <3>1. /\ Rows /\ UNCHANGED <<reply, received, inflight, step, cur>>
      BY <2>2, <1>u DEF InjectExpired, InjectReady, UpdateStatus
    <3> QED BY <3>1, <1>v, <1>z DEF Goal
  <2>3. CASE InjectStart(m)
    BY <2>3, <1>x DEF InjectStart
  <2>4. CASE ConfirmInjection(m)
    <3>1. CASE MaySeeInjection(m) /\ Goto("succeeded_a") /\ UNCHANGED rowVars
      <4>1. Seen'
        BY <2>4, <3>1 DEF ConfirmInjection, MaySeeInjection, Seen
      <4> QED BY <2>4, <3>1, <4>1, <1>r, <1>v DEF ConfirmInjection, Goal
    <3>2. CASE Goto("post_a") /\ UNCHANGED rowVars
      BY <2>4, <3>2, <1>x DEF ConfirmInjection
    <3>3. CASE UpdateStatus(m, "DEADLETTER_A") /\ EndRow
      <4>1. /\ Rows /\ UNCHANGED <<reply, received, inflight>>
        BY <2>0, <2>4, <3>3, <1>u DEF ConfirmInjection, UpdateStatus
      <4> QED BY <3>3, <4>1, <1>v, <1>z DEF Goal
    <3> QED BY <2>4, <3>1, <3>2, <3>3 DEF ConfirmInjection
  <2>5. CASE PostInjection(m)
    <3>1. Arrives("A", m) \/ StaysInNetwork("A", m)
      BY <2>5 DEF PostInjection, PostUncertain
    <3>2. UNCHANGED <<status, reply>> /\ HasOrigin(m) /\ cur = m /\ cur' = m
      BY <2>0, <2>5 DEF PostInjection
    <3>3. Given'
      BY <3>1, <3>2, <1>t, <1>w, SendEffect
    <3>4. Seen'
      <4>1. CASE Arrives("A", m)
        <5>1. received' = [received EXCEPT !["A"][m] = received["A"][m] + 1]
          BY <4>1 DEF Arrives
        <5>2. received["A"][m] + 1 \in Nat /\ received["A"][m] + 1 > 0
          BY <1>t
        <5>3. received'["A"][m] > 0
          BY <5>1, <5>2, <1>t, CounterUpdate
        <5> QED BY <5>3, <3>2 DEF Seen
      <4>2. CASE step' \in {"timed_out_a", "failed_a"}
        BY <4>2, <1>z
      <4> QED BY <2>5, <4>1, <4>2 DEF PostInjection
    <3> QED BY <3>2, <3>3, <3>4, <1>r DEF Goal
  <2>6. CASE ConfirmTimedOutInjection(m)
    <3>1. Seen'
      BY <2>6 DEF ConfirmTimedOutInjection, MaySeeInjection, Seen
    <3> QED BY <2>6, <3>1, <1>r, <1>v DEF ConfirmTimedOutInjection, Goal
  <2>7. CASE RecordInjectionSuccess(m)
    <3>1. Seen'
      BY <2>7, <1>t DEF RecordInjectionSuccess, Seen
    <3> QED BY <2>7, <3>1, <1>r, <1>v DEF RecordInjectionSuccess, RecordAttempt, Goal
  <2>8. CASE MarkDone(m)
    <3>1. Rows
      BY <2>0, <2>8, <1>u, <1>t DEF MarkDone, Seen
    <3>2. UNCHANGED <<reply, received, inflight>> /\ step' = "next"
      BY <2>8 DEF MarkDone, UpdateStatus
    <3> QED BY <3>1, <3>2, <1>v, <1>z DEF Goal
  <2>9. CASE RecordInjectionFailure(m)
    BY <2>9, <1>x DEF RecordInjectionFailure, RecordAttempt
  <2>10. CASE ConcludeInjectionFailure(m)
    <3>1. Rows
      BY <2>0, <2>10, <1>u DEF ConcludeInjectionFailure
    <3>2. UNCHANGED <<reply, received, inflight>> /\ step' = "next"
      BY <2>10 DEF ConcludeInjectionFailure, UpdateStatus, UpdateStatusLater
    <3> QED BY <3>1, <3>2, <1>v, <1>z DEF Goal
  <2> QED BY <1>5, <2>1, <2>2, <2>3, <2>4, <2>5, <2>6, <2>7, <2>8, <2>9, <2>10 DEF Inject
<1>6. ASSUME NEW m \in Messages, AdapterWorks(m) PROVE Goal
  <2>0. UNCHANGED <<status, reply, step, cur>>
    BY <1>6 DEF AdapterWorks, AdapterTake, AdapterPost, AdapterReply, AdapterAck, adapterKeeps, adapterLeaves
  <2>1. CASE AdapterPost(m)
    <3>1. Given'
      BY <2>0, <2>1, <1>t, <1>w, SendEffect DEF AdapterPost, PostUncertain
    <3> QED BY <2>0, <3>1, <1>r, <1>z DEF Goal
  <2>2. CASE UNCHANGED <<received, inflight>>
    BY <2>0, <2>2, <1>x
  <2> QED BY <1>6, <2>1, <2>2 DEF AdapterWorks, AdapterTake, AdapterReply, AdapterAck
<1>7. CASE AdapterAckFails \/ AdapterFails
  BY <1>7, <1>x DEF AdapterAckFails, AdapterFails, AdapterDies, AdapterLosesConnection,
     AdapterTokenTimesOut, adapterKeeps, adapterLeaves
<1>8. CASE ConsumerTake
  BY <1>8, <1>x DEF ConsumerTake, consumerKeeps
<1>9. CASE ConsumerInject
  <2> DEFINE r == Delivery("consumer").payload
  <2>1. r.msg \in Messages /\ (r.kind = "ok" => followed[r.msg])
    BY <1>9, <1>t, HeldDelivery DEF ConsumerInject, Clients, Payloads, AnswerInv, GenuineInv, Genuine
  <2>2. UNCHANGED <<status, reply, step, cur>>
    BY <1>9 DEF ConsumerInject, consumerKeeps
  <2>3. CASE UNCHANGED <<received, inflight>>
    BY <2>2, <2>3, <1>x
  <2>4. CASE r.kind = "ok" /\ (Arrives("A", r.msg) \/ StaysInNetwork("A", r.msg))
    <3>1. Given'
      BY <2>1, <2>2, <2>4, <1>t, <1>w, SendEffect
    <3> QED BY <2>2, <3>1, <1>r, <1>z DEF Goal
  <2> QED BY <1>9, <2>3, <2>4 DEF ConsumerInject
<1>10. ASSUME NEW m \in Messages, World(m) PROVE Goal
  <2>0. UNCHANGED <<reply, step, cur>>
    BY <1>10 DEF World, Ingest, Expire, BackoffElapses, WorkerWrites, LateArrival, UpdateArtifact
  <2>1. CASE Ingest(m)
    <3>1. \A n \in Messages : status'[n] = IF n = m THEN "RESERVED" ELSE status[n]
      BY <2>1, <1>t DEF Ingest, UpdateArtifact
    <3>2. Rows /\ UNCHANGED <<received, inflight>>
      BY <2>0, <2>1, <3>1, <1>t DEF Ingest, Rows, Stored, Delivered, Injectable
    <3> QED BY <2>0, <3>2, <1>v, <1>z DEF Goal
  <2>2. CASE Expire(m) \/ BackoffElapses(m) \/ WorkerWrites(m)
    BY <2>0, <2>2, <1>x DEF Expire, BackoffElapses, WorkerWrites
  <2>3. ASSUME NEW t \in Targets, LateArrival(t, m) PROVE Goal
    <3>1. \A n \in Messages : Sent("A", n)' = Sent("A", n)
      BY <2>3, <1>t, LateArrivalEffect
    <3>2. Given' /\ UNCHANGED status
      BY <2>0, <2>3, <3>1, <1>w DEF LateArrival
    <3> QED BY <2>0, <3>2, <1>r, <1>z DEF Goal
  <2> QED BY <1>10, <2>1, <2>2, <2>3 DEF World
<1>11. CASE Replay
  <2>1. ASSUME NEW o \in Operators, NEW m \in Messages, ReplayRead(o, m) PROVE Goal
    BY <2>1, <1>x DEF ReplayRead
  <2>2. ASSUME NEW o \in Operators, ReplayClear(o) PROVE Goal
    BY <2>2, <1>x DEF ReplayClear, ClearAttempts
  <2>3. ASSUME NEW o \in Operators, ReplaySet(o) PROVE Goal
    <3>1. /\ op[o].msg \in Messages \union {0} /\ op[o].target \in Targets
          /\ op[o].target = "A" => reply[op[o].msg]
      BY <2>3 DEF RabbitTypeOK, ReplaySet, AnswerInv, KnownInv
    <3>2. Rows
      BY <2>3, <3>1, <1>u DEF ReplaySet, Injectable, Targets
    <3>3. UNCHANGED <<reply, received, inflight, step, cur>>
      BY <2>3 DEF ReplaySet, UpdateStatus
    <3> QED BY <3>2, <3>3, <1>v, <1>z DEF Goal
  <2> QED BY <1>11, <2>1, <2>2, <2>3 DEF Replay
<1>12. CASE RelayDies \/ UNCHANGED allVars
  BY <1>12, <1>x DEF RelayDies, Crash, allVars, vars
<1>13. CASE RelayWorks
  BY <1>1, <1>2, <1>3, <1>4, <1>5, <1>13 DEF RelayWorks
<1>14. CASE AdapterStep
  BY <1>6, <1>7, <1>14 DEF AdapterStep
<1>15. CASE ((\E m \in Messages : World(m)) \/ Replay) /\ UNCHANGED rabbitVars
  BY <1>10, <1>11, <1>15
<1> QED BY <1>7, <1>8, <1>9, <1>12, <1>13, <1>14, <1>15 DEF RabbitNext

-----------------------------------------------------------------------------
(* What carries a queued row.                                              *)

\* Where the operations of the broker leave the messages about a row.
LEMMA PublishKeeps ==
  ASSUME BrokerTypeOK, NEW q \in Queues, NEW p \in Payloads, Publish(q, p), NEW m \in Messages
  PROVE  /\ \A r \in Queues : InQueue(r, m) => InQueue(r, m)'
         /\ \A c \in Clients : InHand(c, m)' <=> InHand(c, m)
         /\ p.msg = m => InQueue(q, m)'
<1>1. \A r \in Queues : (InQueue(r, m) <=> \E x \in Content(r) : x.msg = m)
  BY DEF InQueue, Content
<1>2. \A r \in Queues : (InQueue(r, m)' <=> \E x \in Content(r)' : x.msg = m)
  BY DEF InQueue, Content
<1> QED BY <1>1, <1>2, PublishEffect, HandsFrame

LEMMA FetchKeeps ==
  ASSUME BrokerTypeOK, NEW c \in Clients, NEW q \in Queues, Fetch(c, q), NEW m \in Messages
  PROVE  /\ \A r \in Queues : InQueue(r, m) => InQueue(r, m)' \/ InHand(c, m)'
         /\ \A d \in Clients : InHand(d, m) => InHand(d, m)' /\ d # c
<1>1. \A r \in Queues : (InQueue(r, m) <=> \E x \in Content(r) : x.msg = m)
  BY DEF InQueue, Content
<1>2. \A r \in Queues : (InQueue(r, m)' <=> \E x \in Content(r)' : x.msg = m)
  BY DEF InQueue, Content
<1> DEFINE h == Head(ready[q])
<1>3. /\ Holds(c)' /\ Delivery(c)'.payload = h
      /\ \A d \in Clients : d # c => held'[d] = held[d]
      /\ \A r \in Queues : Content(r) \subseteq Content(r)' \union {h}
  BY FetchEffect
<1> HIDE DEF h
<1>4. h.msg = m => InHand(c, m)'
  BY <1>3 DEF InHand
<1>5. ~InHand(c, m)
  BY DEF InHand, Fetch
<1> QED BY <1>1, <1>2, <1>3, <1>4, <1>5, HandsFrame

LEMMA SettleKeeps ==
  ASSUME BrokerTypeOK, NEW c \in Clients, Settle(c), NEW m \in Messages
  PROVE  /\ \A r \in Queues : InQueue(r, m) => InQueue(r, m)'
         /\ \A d \in Clients : d # c /\ InHand(d, m) => InHand(d, m)'
<1>1. \A r \in Queues : (InQueue(r, m) <=> \E x \in Content(r) : x.msg = m)
  BY DEF InQueue, Content
<1>2. \A r \in Queues : (InQueue(r, m)' <=> \E x \in Content(r)' : x.msg = m)
  BY DEF InQueue, Content
<1> QED BY <1>1, <1>2, SettleEffect, HandsFrame

LEMMA RequeueKeeps ==
  ASSUME BrokerTypeOK, NEW c \in Clients, Requeue(c), NEW m \in Messages
  PROVE  /\ \A r \in Queues : InQueue(r, m) => InQueue(r, m)'
         /\ \A d \in Clients : d # c /\ InHand(d, m) => InHand(d, m)'
         /\ InHand(c, m) => \E r \in Queues : InQueue(r, m)'
<1>1. \A r \in Queues : (InQueue(r, m) <=> \E x \in Content(r) : x.msg = m)
  BY DEF InQueue, Content
<1>2. \A r \in Queues : (InQueue(r, m)' <=> \E x \in Content(r)' : x.msg = m)
  BY DEF InQueue, Content
<1>3. Delivery(c).queue \in Queues
  BY RequeueEffect, HeldDelivery
<1>4. InHand(c, m) => Delivery(c).payload.msg = m
  BY DEF InHand
<1> QED BY <1>1, <1>2, <1>3, <1>4, RequeueEffect, HandsFrame

\* m is carried, or the adapter has its delivery and has not yet done with it.
Safe(m) == CarriedOn(m) \/ (InHand("adapter", m) /\ job.stage # "settling")

\* The adapter never lets go of a request that nothing else carries, and the relay
\* never of a reply it still needs.
LEMMA CarryNext ==
  ASSUME RabbitTypeOK, ControlInv, AnswerInv, CarryInv, [RabbitNext]_allVars
  PROVE  CarryInv'
<1> USE DEF rowVars, loopVars, gatewayVars, opVars, brokerVars, jobVars, consumerVars,
        rabbitVars, Goto, EndRow, SkipRow, TakeRow, At, InjectSteps, DispatchSteps, ReplySteps
<1>t. /\ Grows /\ BrokerTypeOK /\ RowTypeOK
      /\ cur \in Messages \union {0}
      /\ step = "next" <=> cur = 0
      /\ received \in [Targets -> [Messages -> Nat]] /\ inflight \in [Targets -> [Messages -> Nat]]
      /\ status \in [Messages -> Statuses]
      /\ job \in [stage : JobStages, msg : Messages \union {0}]
      /\ "A" \in Targets /\ "B" \in Targets
      /\ "relay" \in Clients /\ "adapter" \in Clients /\ "consumer" \in Clients
      /\ "inbox" \in Queues /\ "reply" \in Queues
      /\ \A q \in Queues : q = "inbox" \/ q = "reply"
  BY GrowNext DEF RabbitTypeOK, RowTypeOK, ControlInv, Targets, Clients, Queues
<1>n. Messages \subseteq Nat \ {0}
  BY StoreAssumption
<1>0. \A s \in {"RESERVED", "FAILED_B", "QUEUED_B", "B_REPLIED", "FAILED_A_INJECTION", "DONE",
               "DEADLETTER_B", "DEADLETTER_A"} : s \in Statuses
  BY DEF Statuses, Dispatchable, Queued, Injectable, Settled, Deadletters
<1>i. \A m \in Messages : Waits(m) => Safe(m)
  BY DEF CarryInv, Safe
<1>h. ASSUME NEW c \in Clients, NEW m \in Messages, NEW k \in Messages, InHand(c, m), InHand(c, k)
      PROVE  m = k
  BY <1>h DEF InHand
<1>g. ASSUME NEW m \in Messages
      PROVE  /\ Sent("B", m) > 0 => (Sent("B", m) > 0)'
             /\ m \in consumed \union unsent => (m \in consumed \union unsent)'
  BY <1>t DEF Grows
\* What each operation of the broker keeps safe.
<1> DEFINE Keeps == \A m \in Messages : Safe(m) => Safe(m)'
<1>u. ASSUME UNCHANGED brokerVars, UNCHANGED job \/ job'.stage # "settling" PROVE Keeps
  <2>1. \A m \in Messages : /\ \A q \in Queues : InQueue(q, m)' <=> InQueue(q, m)
                            /\ \A c \in Clients : InHand(c, m)' <=> InHand(c, m)
    BY <1>u, HandsFrame DEF InQueue
  <2> QED BY <1>u, <2>1, <1>g, <1>t DEF Safe, CarriedOn
<1>p. ASSUME NEW q \in Queues, NEW p \in Payloads, Publish(q, p),
             UNCHANGED job \/ (\A m \in Messages : InHand("adapter", m) => p.msg = m)
      PROVE  Keeps
  BY <1>p, <1>g, <1>t, PublishKeeps DEF Safe, CarriedOn
<1>f. ASSUME NEW c \in Clients, NEW q \in Queues, Fetch(c, q),
             IF c = "adapter" THEN job'.stage # "settling" ELSE UNCHANGED job
      PROVE  Keeps
  <2> SUFFICES ASSUME NEW m \in Messages, Safe(m) PROVE Safe(m)'
    OBVIOUS
  <2>1. /\ \A r \in Queues : InQueue(r, m) => InQueue(r, m)' \/ InHand(c, m)'
        /\ \A d \in Clients : InHand(d, m) => InHand(d, m)' /\ d # c
    BY <1>f, <1>t, FetchKeeps
  <2>2. c \in {"relay", "adapter", "consumer"}
    BY DEF Clients
  <2> QED BY <1>f, <2>1, <2>2, <1>g, <1>t DEF Safe, CarriedOn
<1>q. ASSUME NEW c \in Clients, Requeue(c), c = "adapter" \/ UNCHANGED job PROVE Keeps
  <2> SUFFICES ASSUME NEW m \in Messages, Safe(m) PROVE Safe(m)'
    OBVIOUS
  <2>1. /\ \A r \in Queues : InQueue(r, m) => InQueue(r, m)'
        /\ \A d \in Clients : d # c /\ InHand(d, m) => InHand(d, m)'
        /\ InHand(c, m) => \E r \in Queues : InQueue(r, m)'
    BY <1>q, <1>t, RequeueKeeps
  <2> QED BY <1>q, <2>1, <1>g, <1>t DEF Safe, CarriedOn
\* Rows only come to wait where the relay marks them.
<1> DEFINE Goal == /\ \A m \in Messages : Waits(m)' => Safe(m)'
                   /\ (step = "ack_reply" => status[cur] # "QUEUED_B")'
<1> SUFFICES Goal
  BY DEF CarryInv, Safe
<1>w. ASSUME UNCHANGED status, step' \notin {"published_b", "queued_b"} \/ (UNCHANGED <<step, cur>>)
      PROVE  \A m \in Messages : Waits(m)' => Waits(m)
  BY <1>w DEF Waits
<1>e. ASSUME UNCHANGED status, step' # "ack_reply" \/ (UNCHANGED <<step, cur>>)
      PROVE  (step = "ack_reply" => status[cur] # "QUEUED_B")'
  BY <1>e DEF CarryInv
<1>v. ASSUME NEW m \in Messages \union {0}, NEW s \in Statuses \ {"QUEUED_B"},
             UpdateStatus(m, s) \/ UpdateStatusLater(m, s)
      PROVE  /\ step' \notin {"published_b", "queued_b"} \/ (UNCHANGED <<step, cur>>) =>
                    \A k \in Messages : Waits(k)' => Waits(k)
             /\ step' # "ack_reply" \/ (UNCHANGED <<step, cur>>) \/ (cur' = m /\ m # 0) =>
                    (step = "ack_reply" => status[cur] # "QUEUED_B")'
  <2>1. \A k \in Messages : status'[k] = IF k = m THEN s ELSE status[k]
    BY <1>v, <1>t, UpdateStatusEffect
  <2>2. step' \notin {"published_b", "queued_b"} \/ (UNCHANGED <<step, cur>>) =>
            \A k \in Messages : Waits(k)' => Waits(k)
    BY <2>1 DEF Waits
  <2>3. step' # "ack_reply" => (step = "ack_reply" => status[cur] # "QUEUED_B")'
    OBVIOUS
  <2>4. (UNCHANGED <<step, cur>>) => (step = "ack_reply" => status[cur] # "QUEUED_B")'
    <3>1. step = "ack_reply" => cur \in Messages
      BY <1>t
    <3> QED BY <2>1, <3>1 DEF CarryInv
  <2>5. cur' = m /\ m # 0 => (step = "ack_reply" => status[cur] # "QUEUED_B")'
    BY <2>1
  <2> QED BY <2>2, <2>3, <2>4, <2>5
<1>x. ASSUME Keeps, \A m \in Messages : Waits(m)' => Waits(m),
             (step = "ack_reply" => status[cur] # "QUEUED_B")'
      PROVE  Goal
  BY <1>x, <1>i
<1> HIDE DEF Keeps, Goal
<1>1. ASSUME NEW m \in Messages, PublishDispatch(m) PROVE Goal
  <2>0. UNCHANGED job /\ step' # "ack_reply"
    BY <1>1, <1>t, <1>n DEF PublishDispatch, PublishRequest, RecordPublication, MarkQueued, DispatchSkip,
       DispatchExhausted, DispatchExpired, RecordDispatchFailure, DecideDispatchRetry,
       ConcludeDispatchFailure, PublishReady, DispatchReady, IsNextRow
  <2>e. (step = "ack_reply" => status[cur] # "QUEUED_B")'
    BY <2>0
  <2>1. CASE PublishRequest(m)
    <3>p. Request(m) \in Payloads /\ Request(m).msg = m
      BY DEF Request, Payloads
    <3>1. CASE Publish("inbox", Request(m)) /\ TakeRow(m, "published_b")
      <4>1. Keeps
        BY <2>0, <3>p, <3>1, <1>p, <1>t
      <4>2. InQueue("inbox", m)'
        BY <3>p, <3>1, <1>t, PublishKeeps
      <4>3. Safe(m)'
        BY <4>2 DEF Safe, CarriedOn
      <4>4. \A k \in Messages : Waits(k)' => Waits(k) \/ k = m
        BY <2>1, <3>1 DEF PublishRequest, Waits
      <4> QED BY <4>1, <4>3, <4>4, <2>e, <1>i DEF Goal, Keeps
    <3>2. CASE PublishUnconfirmed("inbox", Request(m)) /\ TakeRow(m, "failed_b")
      <4>1. Keeps
        BY <2>0, <3>p, <3>2, <1>p, <1>u, <1>t DEF PublishUnconfirmed
      <4> QED BY <2>1, <2>e, <3>2, <4>1, <1>w, <1>x DEF PublishRequest
    <3> QED BY <2>1, <3>1, <3>2 DEF PublishRequest
  <2>2. CASE RecordPublication(m)
    <3>1. \A k \in Messages : Waits(k)' => Waits(k)
      BY <2>2 DEF RecordPublication, RecordAttempt, Waits
    <3> QED BY <2>2, <2>e, <3>1, <1>u, <1>x DEF RecordPublication
  <2>3. CASE MarkQueued(m)
    <3>1. \A k \in Messages : status'[k] = IF k = m THEN "QUEUED_B" ELSE status[k]
      BY <2>3, <1>0, <1>t, UpdateStatusEffect DEF MarkQueued
    <3>2. \A k \in Messages : Waits(k)' => Waits(k)
      BY <2>3, <3>1 DEF MarkQueued, Waits
    <3> QED BY <2>3, <2>e, <3>2, <1>u, <1>x DEF MarkQueued
  <2>4. CASE (DispatchSkip(m) \/ DispatchExhausted(m) \/ DispatchExpired(m)
              \/ RecordDispatchFailure(m) \/ DecideDispatchRetry(m) \/ ConcludeDispatchFailure(m))
             /\ UNCHANGED rabbitVars
    <3>1. step' \notin {"published_b", "queued_b"}
      BY <2>4, <1>t, <1>n DEF DispatchSkip, DispatchExhausted, DispatchExpired, RecordDispatchFailure,
         DecideDispatchRetry, ConcludeDispatchFailure, DispatchReady, IsNextRow
    <3>2. \A k \in Messages : Waits(k)' => Waits(k)
      <4>1. CASE UNCHANGED status
        BY <3>1, <4>1, <1>w
      <4>2. ASSUME NEW s \in {"DEADLETTER_B", "FAILED_B"}, UpdateStatus(m, s) \/ UpdateStatusLater(m, s)
            PROVE  \A k \in Messages : Waits(k)' => Waits(k)
        BY <3>1, <4>2, <1>0, <1>v
      <4> QED BY <2>4, <4>1, <4>2 DEF DispatchSkip, DispatchExhausted, DispatchExpired,
              RecordDispatchFailure, DecideDispatchRetry, ConcludeDispatchFailure, RecordAttempt
    <3> QED BY <2>4, <2>e, <3>2, <1>u, <1>x
  <2> QED BY <1>1, <2>1, <2>2, <2>3, <2>4 DEF PublishDispatch
<1>2. ASSUME NEW m \in Messages, ConsumeReplies(m) PROVE Goal
  <2>0. UNCHANGED job /\ step' \notin {"published_b", "queued_b"}
    BY <1>2 DEF ConsumeReplies, TakeReply, IgnoreReply, StoreBrokerReply, RecordErrorReply,
       ConcludeErrorReply, AckReply, PutBackReply
  <2>1. CASE TakeReply(m)
    BY <2>0, <2>1, <1>f, <1>t, <1>w, <1>x DEF TakeReply
  <2>2. CASE IgnoreReply(m) \/ AckReply(m)
    <3>1. /\ Settle("relay") /\ cur = m /\ UNCHANGED status /\ step' = "next" /\ InHand("relay", m)
          /\ step \in {"took_reply", "ack_reply"}
      BY <2>2 DEF IgnoreReply, AckReply, ControlInv
    <3>2. status[m] # "QUEUED_B"
      BY <2>2 DEF IgnoreReply, AckReply, Concluded, CarryInv
    <3>3. \A k \in Messages : Waits(k)' => Waits(k) /\ k # m
      BY <3>1, <3>2 DEF Waits
    <3>4. ASSUME NEW k \in Messages, k # m, Safe(k) PROVE Safe(k)'
      <4>1. ~InHand("relay", k)
        BY <3>1, <3>4, <1>h, <1>t
      <4>2. /\ \A r \in Queues : InQueue(r, k) => InQueue(r, k)'
            /\ \A d \in Clients : d # "relay" /\ InHand(d, k) => InHand(d, k)'
        BY <3>1, <1>t, SettleKeeps
      <4> QED BY <2>0, <3>4, <4>1, <4>2, <1>g, <1>t DEF Safe, CarriedOn
    <3> QED BY <3>1, <3>3, <3>4, <1>i DEF Goal
  <2>3. CASE StoreBrokerReply(m)
    <3>1. \A k \in Messages : status'[k] = IF k = m THEN "B_REPLIED" ELSE status[k]
      BY <2>3, <1>t, UpdateReplyEffect DEF StoreBrokerReply
    <3>2. \A k \in Messages : Waits(k)' => Waits(k)
      BY <2>0, <3>1 DEF Waits
    <3>3. (step = "ack_reply" => status[cur] # "QUEUED_B")'
      BY <2>3, <3>1 DEF StoreBrokerReply
    <3> QED BY <2>3, <3>2, <3>3, <1>u, <1>x DEF StoreBrokerReply
  <2>4. CASE RecordErrorReply(m)
    BY <2>0, <2>4, <1>u, <1>w, <1>e, <1>x DEF RecordErrorReply, RecordAttempt
  <2>5. CASE ConcludeErrorReply(m)
    <3>1. PICK s \in {"DEADLETTER_B", "FAILED_B"} : UpdateStatus(m, s) \/ UpdateStatusLater(m, s)
      BY <2>5 DEF ConcludeErrorReply
    <3>2. s \in Statuses \ {"QUEUED_B"} /\ cur' = m /\ m # 0
      BY <2>5, <1>0, <1>n DEF ConcludeErrorReply
    <3> QED BY <2>0, <2>5, <3>1, <3>2, <1>v, <1>u, <1>x DEF ConcludeErrorReply
  <2>6. CASE PutBackReply(m)
    BY <2>0, <2>6, <1>q, <1>t, <1>w, <1>e, <1>x DEF PutBackReply
  <2> QED BY <1>2, <2>1, <2>2, <2>3, <2>4, <2>5, <2>6 DEF ConsumeReplies
<1>r. ASSUME NEW m \in Messages, UpdateReply(m), UNCHANGED <<brokerVars, job, step, cur>> PROVE Goal
  <2>1. \A k \in Messages : status'[k] = IF k = m THEN "B_REPLIED" ELSE status[k]
    BY <1>r, <1>t, UpdateReplyEffect
  <2>2. \A k \in Messages : Waits(k)' => Waits(k)
    BY <1>r, <2>1 DEF Waits
  <2>3. (step = "ack_reply" => status[cur] # "QUEUED_B")'
    <3>1. step = "ack_reply" => cur \in Messages
      BY <1>t
    <3> QED BY <1>r, <2>1, <3>1 DEF CarryInv
  <2> QED BY <1>r, <2>2, <2>3, <1>u, <1>x
<1>3. ASSUME NEW m \in Messages, CollectSkip(m) \/ CollectReply(m) PROVE Goal
  BY <1>3, <1>r, <1>u, <1>w, <1>e, <1>x DEF CollectSkip, CollectReply
<1>4. CASE \/ BeginConsume \/ BeginCollect \/ BeginInjectAfterCollect \/ SkipInjectAfterCollect
           \/ (BeginDispatch \/ EndPoll) /\ UNCHANGED rabbitVars
  BY <1>4, <1>u, <1>w, <1>e, <1>x DEF BeginConsume, BeginCollect, BeginInjectAfterCollect,
     SkipInjectAfterCollect, BeginDispatch, EndPoll, BeginPass
<1>5. ASSUME NEW m \in Messages, Inject(m), UNCHANGED rabbitVars PROVE Goal
  <2>0. step' \notin {"published_b", "queued_b", "ack_reply"} \/ (UNCHANGED <<step, cur>>)
    BY <1>5 DEF Inject, InjectSkip, InjectExpired, InjectStart, ConfirmInjection, PostInjection,
       ConfirmTimedOutInjection, RecordInjectionSuccess, MarkDone, RecordInjectionFailure,
       ConcludeInjectionFailure
  <2>1. ASSUME NEW s \in {"DEADLETTER_A", "DONE", "FAILED_A_INJECTION"},
               UpdateStatus(m, s) \/ UpdateStatusLater(m, s)
        PROVE  Goal
    <3>1. s \in Statuses \ {"QUEUED_B"}
      BY <1>0
    <3> QED BY <1>5, <2>0, <2>1, <3>1, <1>v, <1>u, <1>x
  <2>2. CASE UNCHANGED status
    BY <1>5, <2>0, <2>2, <1>u, <1>w, <1>e, <1>x
  <2> QED BY <1>5, <2>1, <2>2 DEF Inject, InjectSkip, InjectExpired, InjectStart, ConfirmInjection,
          PostInjection, ConfirmTimedOutInjection, RecordInjectionSuccess, MarkDone,
          RecordInjectionFailure, ConcludeInjectionFailure, RecordAttempt
<1>y. ASSUME Keeps, UNCHANGED <<status, step, cur>> PROVE Goal
  BY <1>y, <1>w, <1>e, <1>x
<1>6. ASSUME NEW m \in Messages, AdapterWorks(m) PROVE Goal
  <2>0. UNCHANGED <<status, step, cur>>
    BY <1>6 DEF AdapterWorks, AdapterTake, AdapterPost, AdapterReply, AdapterAck, adapterKeeps, adapterLeaves
  <2>h. \A k \in Messages : InHand("adapter", k) => k = job.msg
    BY <1>h, <1>t DEF ControlInv, InHand
  <2>1. CASE AdapterTake(m)
    BY <2>0, <2>1, <1>f, <1>t, <1>y DEF AdapterTake
  <2>2. CASE AdapterPost(m)
    <3>1. Sent("B", m)' > 0
      <4>1. Sent("B", m)' = Sent("B", m) + 1 /\ Sent("B", m) \in Nat
        BY <2>2, <1>t, SendEffect DEF AdapterPost, PostUncertain, Sent
      <4> QED BY <4>1
    <3>2. \A k \in Messages : InHand("adapter", k) => k = m
      BY <2>2, <2>h DEF AdapterPost
    <3>3. \A k \in Messages : /\ \A q \in Queues : InQueue(q, k)' <=> InQueue(q, k)
                              /\ \A c \in Clients : InHand(c, k)' <=> InHand(c, k)
      BY <2>2, HandsFrame DEF InQueue, AdapterPost
    <3>4. Keeps
      BY <3>1, <3>2, <3>3, <1>g, <1>t DEF Keeps, Safe, CarriedOn
    <3> QED BY <2>0, <3>4, <1>y
  <2>3. CASE AdapterReply(m)
    <3>1. OkReply(m) \in Payloads /\ OkReply(m).msg = m /\ ErrorReply(m) \in Payloads /\ ErrorReply(m).msg = m
      BY DEF OkReply, ErrorReply, Payloads
    <3>2. \A k \in Messages : InHand("adapter", k) => k = m
      BY <2>3, <2>h DEF AdapterReply
    <3>3. Keeps
      BY <2>3, <3>1, <3>2, <1>p, <1>t DEF AdapterReply
    <3> QED BY <2>0, <3>3, <1>y
  <2>4. CASE AdapterAck(m)
    <3>1. ASSUME NEW k \in Messages, Safe(k) PROVE Safe(k)'
      <4>1. CarriedOn(k)
        BY <2>4, <3>1 DEF AdapterAck, Safe
      <4>2. /\ \A r \in Queues : InQueue(r, k) => InQueue(r, k)'
            /\ \A d \in Clients : d # "adapter" /\ InHand(d, k) => InHand(d, k)'
        BY <2>4, <1>t, SettleKeeps DEF AdapterAck
      <4> QED BY <4>1, <4>2, <1>g, <1>t DEF Safe, CarriedOn
    <3> QED BY <2>0, <3>1, <1>y DEF Keeps
  <2> QED BY <1>6, <2>1, <2>2, <2>3, <2>4 DEF AdapterWorks
<1>7. CASE AdapterAckFails
  <2>1. job'.stage = "idle" /\ UNCHANGED <<brokerVars, status, step, cur>>
    BY <1>7 DEF AdapterAckFails, NoJob, adapterKeeps, adapterLeaves
  <2> QED BY <2>1, <1>u, <1>y
<1>8. CASE AdapterDies \/ AdapterLosesConnection
  <2>1. /\ UNCHANGED <<status, step, cur>>
        /\ Requeue("adapter") \/ (job'.stage = "idle" /\ UNCHANGED brokerVars)
    BY <1>8 DEF AdapterDies, AdapterLosesConnection, RequeueIfHeld, NoJob, adapterKeeps, adapterLeaves
  <2> QED BY <2>1, <1>q, <1>t, <1>u, <1>y
<1>9. ASSUME NEW m \in Messages, AdapterTokenTimesOut(m) PROVE Goal
  <2>0. UNCHANGED <<brokerVars, status, step, cur>> /\ job.msg = m /\ m \in unsent'
    BY <1>9 DEF AdapterTokenTimesOut, adapterLeaves
  <2>1. \A k \in Messages : /\ \A q \in Queues : InQueue(q, k)' <=> InQueue(q, k)
                            /\ \A c \in Clients : InHand(c, k)' <=> InHand(c, k)
                            /\ InHand("adapter", k) => k = m
    BY <2>0, <1>h, <1>t, HandsFrame DEF InQueue, ControlInv, InHand
  <2>2. Keeps
    BY <2>0, <2>1, <1>g, <1>t DEF Keeps, Safe, CarriedOn
  <2> QED BY <2>0, <2>2, <1>y
<1>10. CASE ConsumerTake
  BY <1>10, <1>f, <1>t, <1>y DEF ConsumerTake, consumerKeeps
<1>11. CASE ConsumerInject
  <2>0. UNCHANGED <<job, status, step, cur>> /\ Holds("consumer")
    BY <1>11 DEF ConsumerInject, consumerKeeps
  <2>1. CASE Requeue("consumer")
    BY <2>0, <2>1, <1>q, <1>t, <1>y
  <2>2. CASE Settle("consumer") /\ consumed' = consumed \union {Delivery("consumer").payload.msg}
    <3>1. ASSUME NEW k \in Messages, Safe(k) PROVE Safe(k)'
      <4>1. InHand("consumer", k) => k \in consumed'
        BY <2>2 DEF InHand
      <4>2. /\ \A r \in Queues : InQueue(r, k) => InQueue(r, k)'
            /\ \A d \in Clients : d # "consumer" /\ InHand(d, k) => InHand(d, k)'
        BY <2>2, <1>t, SettleKeeps
      <4> QED BY <2>0, <3>1, <4>1, <4>2, <1>g, <1>t DEF Safe, CarriedOn
    <3> QED BY <2>0, <3>1, <1>y DEF Keeps
  <2> QED BY <1>11, <2>1, <2>2 DEF ConsumerInject
<1>12. ASSUME NEW m \in Messages, World(m), UNCHANGED rabbitVars PROVE Goal
  <2>1. UNCHANGED <<step, cur>>
    BY <1>12 DEF World, Ingest, Expire, BackoffElapses, WorkerWrites, LateArrival
  <2>2. CASE Ingest(m)
    <3>1. \A k \in Messages : status'[k] = IF k = m THEN "RESERVED" ELSE status[k]
      BY <2>2, <1>t DEF Ingest, UpdateArtifact
    <3>2. \A k \in Messages : Waits(k)' => Waits(k)
      BY <2>1, <3>1 DEF Waits
    <3>3. step # "ack_reply"
      BY <2>2 DEF Ingest, ControlInv
    <3> QED BY <1>12, <2>1, <3>2, <3>3, <1>u, <1>x
  <2>3. CASE UNCHANGED status
    BY <1>12, <2>1, <2>3, <1>u, <1>y
  <2> QED BY <1>12, <2>2, <2>3 DEF World, Expire, BackoffElapses, WorkerWrites, LateArrival
<1>13. ASSUME NEW o \in Operators, ReplayClear(o) \/ ReplaySet(o) \/ \E m \in Messages : ReplayRead(o, m),
              UNCHANGED rabbitVars
       PROVE  Goal
  <2>1. UNCHANGED <<step, cur>>
    BY <1>13 DEF ReplayRead, ReplayClear, ReplaySet
  <2>2. CASE UNCHANGED status
    BY <1>13, <2>1, <2>2, <1>u, <1>y
  <2>3. CASE ReplaySet(o)
    <3>1. PICK s \in {"RESERVED", "B_REPLIED"} : UpdateStatus(op[o].msg, s)
      BY <2>3 DEF ReplaySet
    <3>2. op[o].msg \in Messages \union {0} /\ s \in Statuses \ {"QUEUED_B"}
      BY <1>0 DEF RabbitTypeOK
    <3> QED BY <1>13, <2>1, <3>1, <3>2, <1>v, <1>u, <1>x
  <2> QED BY <1>13, <2>2, <2>3 DEF ReplayRead, ReplayClear, ClearAttempts
<1>14. CASE RelayDies
  <2>1. /\ UNCHANGED <<status, job>> /\ step' = "next" /\ cur' = 0
        /\ Requeue("relay") \/ UNCHANGED brokerVars
    BY <1>14 DEF RelayDies, Crash, RequeueIfHeld
  <2>2. Keeps
    BY <2>1, <1>q, <1>u, <1>t
  <2> QED BY <2>1, <2>2, <1>w, <1>e, <1>x
<1>15. CASE UNCHANGED allVars
  <2>1. UNCHANGED <<brokerVars, job, status, step, cur>>
    BY <1>15 DEF allVars, vars
  <2> QED BY <2>1, <1>u, <1>y
<1>16. CASE RelayWorks
  BY <1>1, <1>2, <1>3, <1>4, <1>5, <1>16 DEF RelayWorks
<1>17. CASE AdapterStep \/ AdapterFails
  BY <1>6, <1>7, <1>8, <1>9, <1>17 DEF AdapterStep, AdapterFails
<1>18. CASE ((\E m \in Messages : World(m)) \/ Replay) /\ UNCHANGED rabbitVars
  BY <1>12, <1>13, <1>18 DEF Replay
<1> QED BY <1>10, <1>11, <1>14, <1>15, <1>16, <1>17, <1>18 DEF RabbitNext

-----------------------------------------------------------------------------
(* The invariant, for any number of operators.                             *)

\* Before anything happens nothing is claimed or waited for.
LEMMA InvInit == RabbitInit => IInv
<1> SUFFICES ASSUME RabbitInit PROVE IInv
  OBVIOUS
<1> USE StoreAssumption DEF RabbitInit, LoopInit, RowInit, BrokerInit, NoJob
<1>b. (\A q \in Queues : ready[q] = <<>>) /\ (\A c \in Clients : ~Holds(c))
  BY DEF Holds
<1>0. /\ \A m \in Messages : status[m] = "ABSENT" /\ ~reply[m]
      /\ \A t \in Targets, m \in Messages : Sent(t, m) = 0
      /\ step = "next" /\ cur = 0 /\ batch = {} /\ job.stage = "idle" /\ job.msg = 0
      /\ \A o \in Operators : op[o].stage = "idle"
  BY DEF Sent
<1> HIDE DEF RabbitInit, LoopInit, RowInit, BrokerInit
<1>1. ControlInv
  <2>1. "adapter" \in Clients
    BY DEF Clients
  <2>2. ~Holds("adapter")
    BY <1>b, <2>1
  <2>3. step \notin DispatchSteps \union ReplySteps \union InjectSteps
    BY <1>0 DEF DispatchSteps, ReplySteps, InjectSteps
  <2> QED BY <1>0, <2>2, <2>3 DEF ControlInv
<1>2. ReplyHasOrigin /\ DoneIsDelivered /\ step \notin {"succeeded_a", "done_a"}
  <2>1. ASSUME NEW m \in Messages
        PROVE  /\ status[m] \notin Injectable \union {"DONE", "DEADLETTER_A"}
               /\ ~reply[m] /\ ~(Sent("A", m) > 0)
    <3>1. status[m] = "ABSENT" /\ ~reply[m] /\ Sent("A", m) = 0
      BY <1>0 DEF Targets
    <3> QED BY <3>1 DEF Injectable
  <2> QED BY <1>0, <2>1 DEF ReplyHasOrigin, DoneIsDelivered
<1>3. GenuineInv
  BY <1>b DEF GenuineInv
<1>4. KnownInv
  BY <1>0 DEF KnownInv, Targets
<1>5. CarryInv
  BY <1>0 DEF CarryInv, Waits
<1> QED BY <1>1, <1>2, <1>3, <1>4, <1>5, TypeInit DEF IInv, AnswerInv

LEMMA InvNext == IInv /\ [RabbitNext]_allVars => IInv'
BY TypeNext, ControlNext, AnswerNext, CarryNext DEF IInv

LEMMA Invariance == RabbitSpec => []IInv
<1> QED BY InvInit, InvNext, PTL DEF RabbitSpec

\* The state of the relay, the adapter, the broker and the consumer keeps its types,
\* whatever fails (app.py, broker.py and rabbitmq_runtime.py).
THEOREM TypeCorrect == RabbitSpec => []RabbitTypeOK
<1>1. IInv => RabbitTypeOK
  BY DEF IInv
<1> QED BY <1>1, Invariance, PTL

\* No reply is stored and no text reaches gateway A before the worker has the request and
\* its agent wrote a text after it, but for rows with a lookalike, whatever dies, is
\* delivered twice or is put back, and with any number of operators and consumers' deliveries (app.py, _consume_rabbitmq_replies and
\* _collect_queued_worker_replies; rabbitmq_runtime.py, process_one).
THEOREM StoredRepliesHaveOrigins == RabbitSpec => []ReplyHasOrigin
<1>1. IInv => ReplyHasOrigin
  BY DEF IInv, AnswerInv
<1> QED BY <1>1, Invariance, PTL

\* A row is DONE only when gateway A has its reply (app.py, _inject_replied_messages).
THEOREM DoneRowsAreDelivered == RabbitSpec => []DoneIsDelivered
<1>1. IInv => DoneIsDelivered
  BY DEF IInv, AnswerInv
<1> QED BY <1>1, Invariance, PTL

\* A row in QUEUED_B is never forgotten: its request or a reply to it is in the broker
\* or in somebody's hands, or the worker was sent it, unless the standalone consumer took
\* the reply or a late token made the adapter drop the request.  This is for any number
\* of deaths, lost connections and publications that fail.
THEOREM QueuedRowsAreCarried == RabbitSpec => []QueuedIsCarried
<1>1. IInv => QueuedIsCarried
  <2> SUFFICES ASSUME IInv, NEW m \in Messages, status[m] = "QUEUED_B"
               PROVE  Carried(m) \/ m \in consumed \union unsent
    BY DEF QueuedIsCarried
  <2>1. CarriedOn(m) \/ InHand("adapter", m)
    BY DEF IInv, CarryInv, Waits
  <2> QED BY <2>1 DEF CarriedOn, Carried, Clients
<1> QED BY <1>1, Invariance, PTL
=============================================================================
