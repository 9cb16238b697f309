----------------------------- MODULE RelayRabbit -----------------------------
(***************************************************************************)
(* The relay with transport "rabbitmq" (app.py), the worker adapter and    *)
(* the standalone reply consumer (rabbitmq_runtime.py).  The relay queues  *)
(* a request and marks its row QUEUED_B; the adapter runs the worker and   *)
(* queues the reply; the relay takes replies from the reply queue, or out  *)
(* of the session of the worker when the adapter gave up waiting.  The     *)
(* three programs meet only in the broker and may die at any point.        *)
(***************************************************************************)
EXTENDS RelayLoop

CONSTANTS MaxAdapterFaults,  \* bound: deaths, lost connections and late tokens at the adapter
          MaxPutBacks,       \* bound: replies put back because a file operation failed
          MaxConsumerRuns,   \* bound: deliveries of the standalone reply consumer
          Views              \* what session searches can be like, of AllViews

\* The relay looks in the sessions of a worker for the body of a row alone: the
\* adapter sends nothing else.
\*   none       it never finds anything: the worker has no tunnel, or its session is
\*              not among the files that are searched
\*   own        no other request contains the body
\*   lookalike  an answered exchange in these sessions has a request that contains the
\*              body: an older message, a request of somebody else, a longer message
AllViews == {"none", "own", "lookalike"}

ASSUME RabbitAssumption ==
    /\ Views \subseteq AllViews
    /\ MaxAdapterFaults \in Nat
    /\ MaxPutBacks \in Nat
    /\ MaxConsumerRuns \in Nat

VARIABLES ready, held,    \* the broker
          job,            \* the message the adapter works on, and how far it is
          unsent,         \* rows the adapter acknowledged without having sent them
          adapterFaults, putBacks, consumerRuns,
          consumed,       \* rows one of whose replies the consumer has settled
          view            \* view[m]: what searches for m are like, which never changes

Queues == {"inbox", "reply"}
Clients == {"relay", "adapter", "consumer"}
Payloads == [kind : {"request", "ok", "error"}, msg : Messages]

INSTANCE Broker

Request(m) == [kind |-> "request", msg |-> m]
OkReply(m) == [kind |-> "ok", msg |-> m]
ErrorReply(m) == [kind |-> "error", msg |-> m]

brokerVars == <<ready, held>>
jobVars == <<job, unsent, adapterFaults>>
consumerVars == <<consumed, consumerRuns>>
rabbitVars == <<brokerVars, jobVars, consumerVars, putBacks, view>>
allVars == <<vars, rabbitVars>>

RabbitPhases == Phases \union {"consume", "collect"}

DispatchSteps == {"published_b", "queued_b", "failed_b", "recorded_b", "backoff_b",
                  "giveup_b", "await_b"}
ReplySteps == {"took_reply", "backoff_reply", "giveup_reply", "ack_reply"}
RabbitSteps == {"next"} \union DispatchSteps \union ReplySteps \union InjectSteps

JobStages == {"idle", "posting", "answered", "failed", "settling"}

RabbitTypeOK ==
    /\ RowTypeOK
    /\ BrokerTypeOK
    /\ phase \in RabbitPhases
    /\ batch \subseteq Messages
    /\ step \in RabbitSteps
    /\ cur \in Messages \union {0}
    /\ received \in [Targets -> [Messages -> Nat]]
    /\ inflight \in [Targets -> [Messages -> Nat]]
    /\ followed \in [Messages -> BOOLEAN]
    /\ expired \in [Messages -> BOOLEAN]
    /\ op \in [Operators -> [stage : OpStages, msg : Messages \union {0}, target : Targets]]
    /\ job \in [stage : JobStages, msg : Messages \union {0}]
    /\ view \in [Messages -> Views]
    /\ consumed \subseteq Messages /\ unsent \subseteq Messages
    /\ crashes \in Nat /\ replays \in Nat
    /\ adapterFaults \in Nat /\ putBacks \in Nat /\ consumerRuns \in Nat

NoJob == [stage |-> "idle", msg |-> 0]

RabbitInit ==
    /\ LoopInit
    /\ BrokerInit
    /\ job = NoJob
    /\ adapterFaults = 0 /\ putBacks = 0 /\ consumerRuns = 0
    /\ consumed = {} /\ unsent = {}
    /\ view \in [Messages -> Views]

-----------------------------------------------------------------------------
(* Dispatch: publish, record the attempt, mark the row.                    *)

PublishReady(m) == DispatchReady(m) /\ ~RetryExhausted(m, "B") /\ ~expired[m]

PublishRequest(m) ==
    /\ PublishReady(m)
    /\ \/ Publish("inbox", Request(m)) /\ TakeRow(m, "published_b")
       \/ PublishUnconfirmed("inbox", Request(m)) /\ TakeRow(m, "failed_b")
    /\ UNCHANGED <<rowVars, gatewayVars, opVars, expired, crashes>>
    /\ UNCHANGED <<jobVars, consumerVars, putBacks, view>>

RecordPublication(m) ==
    /\ At(m, "published_b")
    /\ RecordAttempt(m, "B", "SUCCESS")
    /\ Goto("queued_b")
    /\ UNCHANGED <<gatewayVars, opVars, expired, crashes, rabbitVars>>

\* Mutant of MarkQueued: the status of the transport over HTTP.
MarkSent(m) ==
    /\ At(m, "queued_b")
    /\ UpdateStatus(m, "SENT_B")
    /\ EndRow
    /\ UNCHANGED <<gatewayVars, opVars, expired, crashes, rabbitVars>>

MarkQueued(m) ==
    /\ At(m, "queued_b")
    /\ UpdateStatus(m, "QUEUED_B")
    /\ EndRow
    /\ UNCHANGED <<gatewayVars, opVars, expired, crashes, rabbitVars>>

PublishDispatch(m) ==
    \/ PublishRequest(m) \/ RecordPublication(m) \/ MarkQueued(m)
    \/ /\ \/ DispatchSkip(m) \/ DispatchExhausted(m) \/ DispatchExpired(m)
          \/ RecordDispatchFailure(m) \/ DecideDispatchRetry(m) \/ ConcludeDispatchFailure(m)
       /\ UNCHANGED rabbitVars

-----------------------------------------------------------------------------
(* _consume_rabbitmq_replies: until the queue is empty.                    *)

BeginConsume ==
    /\ PassOver("dispatch")
    /\ BeginPass("consume", {})
    /\ UNCHANGED <<rowVars, gatewayVars, opVars, expired, crashes, rabbitVars>>

TakeReply(m) ==
    /\ phase = "consume" /\ step = "next"
    /\ Fetch("relay", "reply")
    /\ m = Head(ready["reply"]).msg
    /\ cur' = m /\ step' = "took_reply"
    /\ UNCHANGED <<phase, batch>>
    /\ UNCHANGED <<rowVars, gatewayVars, opVars, expired, crashes>>
    /\ UNCHANGED <<jobVars, consumerVars, putBacks, view>>

\* Mutant of Concluded: a reply to a row that is done counts.
ConcludedButDone == {"B_REPLIED", "DEADLETTER_A", "DEADLETTER_B"}

Concluded == {"B_REPLIED", "DONE", "DEADLETTER_A", "DEADLETTER_B"}

IgnoreReply(m) ==
    /\ At(m, "took_reply")
    /\ status[m] \in Concluded
    /\ Settle("relay")
    /\ EndRow
    /\ UNCHANGED <<rowVars, gatewayVars, opVars, expired, crashes>>
    /\ UNCHANGED <<jobVars, consumerVars, putBacks, view>>

StoreBrokerReply(m) ==
    /\ At(m, "took_reply")
    /\ status[m] \notin Concluded
    /\ Delivery("relay").payload.kind = "ok"
    /\ UpdateReply(m)
    /\ Goto("ack_reply")
    /\ UNCHANGED <<gatewayVars, opVars, expired, crashes, rabbitVars>>

RecordErrorReply(m) ==
    /\ At(m, "took_reply")
    /\ status[m] \notin Concluded
    /\ Delivery("relay").payload.kind = "error"
    /\ RecordAttempt(m, "B", "FAILED")
    /\ Goto(IF RetryExhausted(m, "B")' THEN "giveup_reply" ELSE "backoff_reply")
    /\ UNCHANGED <<gatewayVars, opVars, expired, crashes, rabbitVars>>

ConcludeErrorReply(m) ==
    /\ \/ At(m, "giveup_reply") /\ UpdateStatus(m, "DEADLETTER_B")
       \/ At(m, "backoff_reply") /\ UpdateStatusLater(m, "FAILED_B")
    /\ Goto("ack_reply")
    /\ UNCHANGED <<gatewayVars, opVars, expired, crashes, rabbitVars>>

AckReply(m) ==
    /\ At(m, "ack_reply")
    /\ Settle("relay")
    /\ EndRow
    /\ UNCHANGED <<rowVars, gatewayVars, opVars, expired, crashes>>
    /\ UNCHANGED <<jobVars, consumerVars, putBacks, view>>

\* Writing the reply artifact, or copying the request to the deadletter
\* directory, raises OSError: the reply goes back and the pass is over.  In the
\* second case the failed attempt is recorded already.
PutBackReply(m) ==
    /\ putBacks < MaxPutBacks
    /\ \/ /\ At(m, "took_reply") /\ status[m] \notin Concluded
          /\ Delivery("relay").payload.kind = "ok"
       \/ At(m, "giveup_reply")
    /\ Requeue("relay")
    /\ putBacks' = putBacks + 1
    /\ phase' = "collect" /\ step' = "next" /\ cur' = 0
    /\ batch' = {n \in Messages : status[n] \in Queued}
    /\ UNCHANGED <<rowVars, gatewayVars, opVars, expired, crashes, jobVars, consumerVars, view>>

ConsumeReplies(m) ==
    \/ TakeReply(m) \/ IgnoreReply(m) \/ StoreBrokerReply(m)
    \/ RecordErrorReply(m) \/ ConcludeErrorReply(m)
    \/ AckReply(m) \/ PutBackReply(m)

-----------------------------------------------------------------------------
(* _collect_queued_worker_replies: the session of the worker.              *)

BeginCollect ==
    /\ phase = "consume" /\ step = "next" /\ ready["reply"] = <<>>
    /\ BeginPass("collect", Queued)
    /\ UNCHANGED <<rowVars, gatewayVars, opVars, expired, crashes, rabbitVars>>

\* The first text of the agent after the first request that contains the body.
MayFindReply(m) ==
    \/ view[m] = "lookalike"
    \/ view[m] = "own" /\ MaySeeReply(m)

\* Mutant of CollectReply: the request found is stored before there is a reply.
CollectRequest(m) ==
    /\ phase = "collect" /\ IsNextRow(m)
    /\ ~expired[m]
    /\ MayFindReply(m) \/ MaySeeRequest(m)
    /\ UpdateReply(m)
    /\ SkipRow(m)
    /\ UNCHANGED <<gatewayVars, opVars, expired, crashes, rabbitVars>>

CollectSkip(m) ==
    /\ phase = "collect" /\ IsNextRow(m)
    /\ expired[m] \/ ~MayFindReply(m) \/ MonitorFails
    /\ SkipRow(m)
    /\ UNCHANGED <<rowVars, gatewayVars, opVars, expired, crashes, rabbitVars>>

CollectReply(m) ==
    /\ phase = "collect" /\ IsNextRow(m)
    /\ ~expired[m] /\ MayFindReply(m)
    /\ UpdateReply(m)
    /\ SkipRow(m)
    /\ UNCHANGED <<gatewayVars, opVars, expired, crashes, rabbitVars>>

BeginInjectAfterCollect ==
    /\ PassOver("collect")
    /\ BeginPass("inject", Injectable)
    /\ UNCHANGED <<rowVars, gatewayVars, opVars, expired, crashes, rabbitVars>>

SkipInjectAfterCollect ==
    /\ PassOver("collect")
    /\ phase' = "ingest"
    /\ UNCHANGED <<batch, step, cur>>
    /\ UNCHANGED <<rowVars, gatewayVars, opVars, expired, crashes, rabbitVars>>

-----------------------------------------------------------------------------
(* RabbitMQWorkerAdapter.process_one.                                      *)

adapterLeaves == <<rowVars, loopVars, opVars, expired, crashes, consumerVars, putBacks, view>>
adapterKeeps == <<adapterLeaves, unsent>>

\* An expired envelope, or a token that cannot be had, is answered with an error.
AdapterTake(m) ==
    /\ job.stage = "idle"
    /\ Fetch("adapter", "inbox")
    /\ m = Head(ready["inbox"]).msg
    /\ \/ ~expired[m] /\ job' = [stage |-> "posting", msg |-> m]
       \/ job' = [stage |-> "failed", msg |-> m]
    /\ UNCHANGED <<adapterKeeps, gatewayVars, adapterFaults>>

\* The request to the worker: an answer, a response without text, an error, or
\* a timeout, after which the delivery is acknowledged without any reply.
AdapterPost(m) ==
    /\ job = [stage |-> "posting", msg |-> m]
    /\ \/ /\ Arrives("B", m)
          /\ followed' = [followed EXCEPT ![m] = TRUE]
          /\ job' = [job EXCEPT !.stage = "answered"]
       \/ /\ Arrives("B", m) /\ UNCHANGED followed
          /\ job' = [job EXCEPT !.stage = "failed"]
       \/ /\ PostUncertain("B", m)
          /\ \E s \in {"failed", "settling"} : job' = [job EXCEPT !.stage = s]
    /\ UNCHANGED <<adapterKeeps, brokerVars, adapterFaults>>

\* Mutant of AdapterReply: a failure is not reported.
AdapterReplyIfOk(m) ==
    /\ job.msg = m
    /\ \/ job.stage = "answered" /\ Publish("reply", OkReply(m))
       \/ job.stage = "failed" /\ UNCHANGED brokerVars
    /\ job' = [job EXCEPT !.stage = "settling"]
    /\ UNCHANGED <<adapterKeeps, gatewayVars, adapterFaults>>

AdapterReply(m) ==
    /\ job.msg = m
    /\ \/ job.stage = "answered" /\ Publish("reply", OkReply(m))
       \/ job.stage = "failed" /\ Publish("reply", ErrorReply(m))
    /\ job' = [job EXCEPT !.stage = "settling"]
    /\ UNCHANGED <<adapterKeeps, gatewayVars, adapterFaults>>

\* Mutant of AdapterAck: the delivery is put back.
AdapterNack(m) ==
    /\ job = [stage |-> "settling", msg |-> m]
    /\ Requeue("adapter")
    /\ job' = NoJob
    /\ UNCHANGED <<adapterKeeps, gatewayVars, adapterFaults>>

AdapterAck(m) ==
    /\ job = [stage |-> "settling", msg |-> m]
    /\ Settle("adapter")
    /\ job' = NoJob
    /\ UNCHANGED <<adapterKeeps, gatewayVars, adapterFaults>>

\* Mutant of AdapterDies: the delivery is lost with the adapter, as with auto_ack.
AdapterDiesAcked ==
    /\ adapterFaults < MaxAdapterFaults
    /\ adapterFaults' = adapterFaults + 1
    /\ job.stage # "idle"
    /\ Settle("adapter")
    /\ job' = NoJob
    /\ UNCHANGED <<adapterKeeps, gatewayVars>>

\* The adapter dies or an exception leaves process_one, and it is started again:
\* the delivery goes back, nacked or by the loss of its connection.  A reply whose
\* publication is not confirmed ends like this, before or after it arrived.
AdapterDies ==
    /\ adapterFaults < MaxAdapterFaults
    /\ adapterFaults' = adapterFaults + 1
    /\ job.stage # "idle"
    /\ RequeueIfHeld("adapter")
    /\ job' = NoJob
    /\ UNCHANGED <<adapterKeeps, gatewayVars>>

\* No heartbeats are sent while the adapter waits for the worker, and the broker
\* closes the connection: the delivery goes back while the adapter works on.
AdapterLosesConnection ==
    /\ adapterFaults < MaxAdapterFaults
    /\ adapterFaults' = adapterFaults + 1
    /\ job.stage # "idle"
    /\ Requeue("adapter")
    /\ UNCHANGED <<adapterKeeps, gatewayVars, job>>

\* The acknowledgement on a lost connection raises, and so does the nack.
AdapterAckFails ==
    /\ job.stage = "settling" /\ ~Holds("adapter")
    /\ job' = NoJob
    /\ UNCHANGED <<adapterKeeps, gatewayVars, brokerVars, adapterFaults>>

\* The token has to be fetched over ssh and the connection times out.  The words of
\* the error are taken for a timeout of the request, which was never sent, and the
\* delivery is acknowledged without a reply.
AdapterTokenTimesOut(m) ==
    /\ adapterFaults < MaxAdapterFaults
    /\ adapterFaults' = adapterFaults + 1
    /\ job = [stage |-> "posting", msg |-> m]
    /\ job' = [job EXCEPT !.stage = "settling"]
    /\ unsent' = unsent \union {m}
    /\ UNCHANGED <<adapterLeaves, gatewayVars, brokerVars>>

AdapterWorks(m) ==
    AdapterTake(m) \/ AdapterPost(m) \/ AdapterReply(m) \/ AdapterAck(m)

AdapterFails ==
    \/ AdapterDies \/ AdapterLosesConnection
    \/ \E m \in Messages : AdapterTokenTimesOut(m)

-----------------------------------------------------------------------------
(* RabbitMQReplyConsumer.process_one: takes from the queue of the relay.   *)

consumerKeeps == <<rowVars, loopVars, opVars, expired, crashes, followed, jobVars, putBacks, view>>

ConsumerTake ==
    /\ consumerRuns < MaxConsumerRuns
    /\ consumerRuns' = consumerRuns + 1
    /\ Fetch("consumer", "reply")
    /\ UNCHANGED <<consumerKeeps, received, inflight, consumed>>

\* The reply goes to the session of A in the words the relay would use; an error
\* reply is injected as such.  A failed injection puts the reply back.
ConsumerInject ==
    /\ Holds("consumer")
    /\ LET r == Delivery("consumer").payload IN
       \/ /\ Settle("consumer")
          /\ consumed' = consumed \union {r.msg}
          /\ IF r.kind = "ok" THEN Arrives("A", r.msg)
                                   ELSE UNCHANGED <<received, inflight>>
       \/ /\ Requeue("consumer")
          /\ UNCHANGED consumed
          /\ \/ UNCHANGED <<received, inflight>>
             \/ r.kind = "ok" /\ (Arrives("A", r.msg) \/ StaysInNetwork("A", r.msg))
    /\ UNCHANGED <<consumerKeeps, consumerRuns>>

-----------------------------------------------------------------------------
(* The composition.                                                        *)

\* The connection of the relay's delivery dies with the relay.
RelayDies ==
    /\ Crash
    /\ RequeueIfHeld("relay")
    /\ UNCHANGED <<jobVars, consumerVars, putBacks, view>>

RelayWorks ==
    \/ BeginConsume \/ BeginCollect \/ BeginInjectAfterCollect \/ SkipInjectAfterCollect
    \/ (BeginDispatch \/ EndPoll) /\ UNCHANGED rabbitVars
    \/ \E m \in Messages :
           \/ PublishDispatch(m) \/ ConsumeReplies(m)
           \/ CollectSkip(m) \/ CollectReply(m)
           \/ Inject(m) /\ UNCHANGED rabbitVars

AdapterStep == (\E m \in Messages : AdapterWorks(m)) \/ AdapterAckFails

RabbitNext ==
    \/ RelayWorks
    \/ AdapterStep
    \/ AdapterFails
    \/ ConsumerTake \/ ConsumerInject
    \/ ((\E m \in Messages : World(m)) \/ Replay) /\ UNCHANGED rabbitVars
    \/ RelayDies

RabbitSpec == RabbitInit /\ [][RabbitNext]_allVars

\* The three programs keep running, back-offs elapse, a token for gateway A can be
\* had again and again, a search that can find a reply does so in the end, and the
\* agent of a worker ends up writing a text after a request it has got.
\* Publications may keep failing.
RabbitFairness ==
    /\ WF_allVars(RelayWorks)
    /\ SF_allVars(BeginInjectAfterCollect)
    /\ WF_allVars(AdapterStep)
    /\ WF_allVars(ConsumerInject)
    /\ \A m \in Messages :
           /\ SF_allVars(CollectReply(m))
           /\ WF_allVars(BackoffElapses(m) /\ UNCHANGED rabbitVars)
           /\ WF_allVars(WorkerWrites(m) /\ UNCHANGED rabbitVars)

FairRabbitSpec == RabbitSpec /\ RabbitFairness

-----------------------------------------------------------------------------
(* Properties.                                                             *)

InQueue(q, m) == \E i \in DOMAIN ready[q] : ready[q][i].msg = m

InHand(c, m) == Holds(c) /\ Delivery(c).payload.msg = m

\* The request of a row or a reply to it is in a queue or in somebody's hands, or
\* the worker was sent it.
Carried(m) ==
    \/ InQueue("inbox", m) \/ InQueue("reply", m)
    \/ \E c \in Clients : InHand(c, m)
    \/ Sent("B", m) > 0

\* A row that waits in QUEUED_B is never forgotten by the system, unless the
\* standalone consumer took the reply the relay was waiting for or the adapter
\* dropped the request over a late token.
\* This must survive deaths of both programs, lost connections and failed
\* publications, because nothing but a reply moves the row.
QueuedIsCarried ==
    \A m \in Messages :
        status[m] = "QUEUED_B" => Carried(m) \/ m \in consumed \union unsent

\* There is a text that the relay, or the consumer, can take for a reply to m.
HasOrigin(m) == followed[m] \/ view[m] = "lookalike"

\* A reply is stored, and text is sent to gateway A, only when the worker has the
\* request and its agent wrote a text after it, however many copies of it are under
\* way.  Only a row whose body another exchange contains may get the reply of that
\* exchange, even before its own request was delivered.
ReplyHasOrigin ==
    \A m \in Messages :
        /\ status[m] \in Injectable \union {"DONE", "DEADLETTER_A"} => reply[m]
        /\ reply[m] \/ Sent("A", m) > 0 => HasOrigin(m)

\* Failures recorded at B exceed the limit only by what is recorded again: once
\* per death of the relay between recording and acknowledging an error reply, and
\* once per error reply put back because the deadletter copy failed.
FailuresAreBounded ==
    \A m \in Messages :
        attempts[m]["B"]["FAILED"] <= MaxAttemptsB + crashes + putBacks

\* The worker is run for each publication at most once, and once more for each
\* death or lost connection of the adapter.
RunsAreBounded ==
    \A m \in Messages :
        Sent("B", m) <= MaxAttemptsB * (1 + replays) + crashes + adapterFaults

\* An error reply that arrives while a stored reply waits for its next injection
\* sends the row back to the side of B.
Reopens(m) == reply[m] /\ ConcludeErrorReply(m)

\* Text reaches gateway A outside the injection half: from the consumer, or late,
\* when the row has been reopened in the meantime.
Bypasses == ConsumerInject \/ \E m \in Messages : LateArrival("A", m)

\* The session of the worker shows an exchange that looks like m.
TakesLookalike(m) == view[m] = "lookalike" /\ CollectReply(m)

\* Apart from the three departures above, each step is one MessageLifecycle allows:
\* with the broker between them the programs still store nothing before the worker
\* has written after the request, finish nothing undelivered and restart no finished
\* half.
FollowsLifecycle ==
    /\ Lifecycle!Init
    /\ [][\/ Lifecycle!Next
          \/ \E m \in Messages : Reopens(m) \/ TakesLookalike(m)
          \/ Bypasses]_(Lifecycle!vars)

\* The worker has the request, nothing about it is left in the broker, and the relay
\* cannot see the session: the adapter has given up waiting.
OutOfSight(m) ==
    /\ view[m] = "none" /\ received["B"][m] > 0
    /\ ~InQueue("inbox", m) /\ ~InQueue("reply", m)
    /\ \A c \in Clients : ~InHand(c, m)

\* A queued row moves on, but for five causes: its envelope expires (rows with an
\* expired envelope are passed over), its request got lost on the way to the worker
\* after the adapter gave up waiting, it was never sent, the consumer took the reply,
\* or the adapter gave up waiting and no search finds what the worker wrote.
QueuedMovesOn ==
    \A m \in Messages : status[m] = "QUEUED_B" ~>
        \/ status[m] # "QUEUED_B"
        \/ expired[m] \/ inflight["B"][m] > 0
        \/ m \in consumed \union unsent
        \/ OutOfSight(m)

-----------------------------------------------------------------------------
(* What the README says and the code departs from.                         *)

\* A request is not deleted from the broker before the adapter has confirmed that
\* it was passed on: the worker has it, or its reply is under way.
NotDeletedBeforePassedOn ==
    \A m \in Messages : status[m] = "QUEUED_B" => Carried(m)
-----------------------------------------------------------------------------
(* The inductive invariant, for any number of operators.                   *)

\* Where the relay is, and whose deliveries it and the adapter hold.
ControlInv ==
    /\ step = "next" <=> cur = 0
    /\ step \in DispatchSteps => phase = "dispatch"
    /\ step \in ReplySteps => phase = "consume" /\ InHand("relay", cur)
    /\ step \in InjectSteps => phase = "inject" /\ reply[cur]
    /\ job.stage = "idle" <=> job.msg = 0
    /\ Holds("adapter") => InHand("adapter", job.msg)

\* p was published by the relay, or by the adapter of an answer it has.
Genuine(p) == status[p.msg] # "ABSENT" /\ (p.kind = "ok" => followed[p.msg])

GenuineInv ==
    /\ \A q \in Queues : \A i \in DOMAIN ready[q] : Genuine(ready[q][i])
    /\ \A c \in Clients : Holds(c) => Genuine(Delivery(c).payload)

\* Whatever the programs work on has a row, and an answer it has stands in a session.
KnownInv ==
    /\ job.stage # "idle" => status[job.msg] # "ABSENT"
    /\ job.stage = "answered" => followed[job.msg]
    /\ \A m \in Messages : Sent("B", m) > 0 => status[m] # "ABSENT"
    /\ cur # 0 => status[cur] # "ABSENT"
    /\ \A m \in batch : status[m] # "ABSENT"
    /\ \A o \in Operators : op[o].stage # "idle" =>
           /\ op[o].msg \in Messages /\ status[op[o].msg] # "ABSENT"
           /\ op[o].target = "A" => reply[op[o].msg]

\* Nothing in the broker, at the adapter or in the store claims a text the worker
\* has not written.
AnswerInv ==
    /\ ReplyHasOrigin
    /\ DoneIsDelivered
    /\ step \in {"succeeded_a", "done_a"} => received["A"][cur] > 0
    /\ GenuineInv
    /\ KnownInv

\* The relay waits for a reply to m, or has published the request it will wait for.
Waits(m) ==
    \/ status[m] = "QUEUED_B"
    \/ cur = m /\ step \in {"published_b", "queued_b"}

\* What carries m when the adapter has settled its delivery.
CarriedOn(m) ==
    \/ InQueue("inbox", m) \/ InQueue("reply", m)
    \/ InHand("relay", m) \/ InHand("consumer", m)
    \/ Sent("B", m) > 0
    \/ m \in consumed \union unsent

\* The adapter settles a request only when something else carries it.
CarryInv ==
    /\ \A m \in Messages : Waits(m) =>
           CarriedOn(m) \/ (InHand("adapter", m) /\ job.stage # "settling")
    /\ step = "ack_reply" => status[cur] # "QUEUED_B"

IInv == RabbitTypeOK /\ ControlInv /\ AnswerInv /\ CarryInv

-----------------------------------------------------------------------------
(* Its second part, for a single operator.                                 *)

OneOperator == \A o, p \in Operators : o = p

\* Rows still have the status the relay, or the operator, has picked them for.
StatusInv ==
    /\ phase \in {"ingest", "consume"} => batch = {}
    /\ cur \notin batch
    /\ \A m \in batch \union ({cur} \ {0}) :
           /\ phase = "dispatch" => status[m] \in Dispatchable
           /\ phase = "collect" => status[m] \in Queued
           /\ phase = "inject" => status[m] \in Injectable
    /\ step \in {"backoff_reply", "giveup_reply"} => status[cur] \notin Concluded
    /\ \A o \in Operators : op[o].stage # "idle" =>
           status[op[o].msg] = IF op[o].target = "B" THEN "DEADLETTER_B" ELSE "DEADLETTER_A"

FailuresAtB(m) == attempts[m]["B"]["FAILED"]

\* Attempts are left wherever another failure can be recorded.
BudgetInv ==
    /\ GiveUpIsJustified
    /\ \A m \in Messages :
           LET limit == MaxAttemptsB + crashes + putBacks
               givenUp == \/ status[m] = "DEADLETTER_B"
                          \/ cur = m /\ step \in {"recorded_b", "giveup_b", "giveup_reply"}
           IN  IF givenUp THEN FailuresAtB(m) <= limit ELSE FailuresAtB(m) < limit
    /\ step \in {"failed_b", "backoff_b", "backoff_reply", "published_b", "queued_b"} => FailuresAtB(cur) < MaxAttemptsB
    /\ step = "recorded_b" => FailuresAtB(cur) <= MaxAttemptsB
    /\ step \in {"giveup_b", "giveup_reply"} => CountAttempts(cur, "B") >= MaxAttemptsB
    /\ step = "giveup_a" => CountAttempts(cur, "A") >= MaxAttemptsA
    /\ \A o \in Operators : op[o].stage = "set" /\ op[o].target = "B" => FailuresAtB(op[o].msg) = 0

IInvOne == IInv /\ StatusInv /\ BudgetInv

-----------------------------------------------------------------------------
(* How requests under way relate to the failures on record.                *)

\* The places of the messages about m in a queue.
Places(s, m) == {i \in DOMAIN s : s[i].msg = m}

\* The requests about m that wait for the adapter.
Waiting(m) == Cardinality(Places(ready["inbox"], m))

Posting(m) == IF job = [stage |-> "posting", msg |-> m] THEN 1 ELSE 0

\* Runs of the worker that have been, or can be without another publication.
Runs(m) == Sent("B", m) + Waiting(m) + Posting(m)

\* The latest publication may have no failure on record.
Unpaid(m) ==
    \/ cur = m /\ step \in {"published_b", "queued_b", "failed_b"}
    \/ /\ status[m] \notin Dispatchable \union {"ABSENT", "DEADLETTER_B"}
       /\ ~(cur = m /\ step \in {"backoff_reply", "giveup_reply"})

Spent(m) == FailuresAtB(m) + (IF Unpaid(m) THEN 1 ELSE 0)

\* Replays that have cleared the attempts of their row.
Cleared == IF \E o \in Operators : op[o].stage = "clear" THEN replays - 1 ELSE replays

\* What goes beyond the attempts: replays, deaths before an attempt is recorded, and
\* deliveries the adapter lost.
Extra == MaxAttemptsB * Cleared + (crashes + adapterFaults)

\* Deliveries of the adapter come from the inbox, all others from the reply queue.
Routes ==
    \A c \in Clients : Holds(c) =>
        Delivery(c).queue = IF c = "adapter" THEN "inbox" ELSE "reply"

\* Each run is paid for by a failure on record, or is that of the latest publication.
RunsInv ==
    /\ \A o \in Operators : op[o].stage = "clear" => replays > 0
    /\ Routes
    /\ \A m \in Messages :
           Runs(m) <= Spent(m) + Extra /\ Runs(m) <= MaxAttemptsB + Extra
=============================================================================
