---------------------------- MODULE MailboxClients ----------------------------
(***************************************************************************)
(* The programs of the client hosts around the mailbox service: a sender   *)
(* (relay-mailbox-send.sh or an agent), the worker                         *)
(* (relay-mailbox-worker.py) that runs an agent on each message of its     *)
(* mailbox and sends the reply, and the injector                           *)
(* (relay-mailbox-injector.py) that puts replies into a session and keeps  *)
(* those it could not put there in a deadletter file.                      *)
(*                                                                         *)
(* Worker and injector are single threads without a store of their own,    *)
(* kept alive by launchd.  An exception that leaves process_one, a time-   *)
(* out of a request to the relay included, ends the process.               *)
(***************************************************************************)
EXTENDS MailboxRabbit

CONSTANTS HumanBox,  \* mailbox of the sender and of the injector
          WorkerBox  \* mailbox of the worker

ASSUME ClientAssumption ==
    HumanBox \in Boxes /\ WorkerBox \in Boxes /\ HumanBox # WorkerBox

VARIABLES client,       \* what each program works on: its request and its message
          accepted,     \* messages whose PUT was answered with success
          runs,         \* runs[i]: times the agent was asked about message i
          injected,     \* messages that reached the session of the human
          deadlettered  \* messages in the injector's deadletter file

clientVars == <<client, accepted, runs, injected, deadlettered>>
allVars == <<serverVars, faults, crashes, clientVars>>

Pollers == {"worker", "injector"}
Programs == {"sender"} \union Pollers

\* "thread" is the request a program waits for, 0 if none.
ClientStages == {"idle", "receiving", "run", "reply", "sending", "inject", "notify", "give_up"}

Idle == [stage |-> "idle", thread |-> 0, msg |-> 0]

TypeOK ==
    /\ ServerTypeOK
    /\ client \in [Programs -> [stage : ClientStages, thread : Threads \union {0},
                                msg : Ids \union {0}]]
    /\ accepted \subseteq Ids
    /\ runs \in [Ids -> Nat]
    /\ injected \subseteq Ids /\ deadlettered \subseteq Ids

Init ==
    /\ ServerInit
    /\ client = [c \in Programs |-> Idle]
    /\ accepted = {}
    /\ runs = [i \in Ids |-> 0]
    /\ injected = {} /\ deadlettered = {}

Stage(c, s) == client[c].stage = s

Becomes(c, s) == client' = [client EXCEPT ![c].stage = s]

IsIdle(c) == Stage(c, "idle")

Waits(c, s, t) == client' = [client EXCEPT ![c].stage = s, ![c].thread = t]

Rests(c) == client' = [client EXCEPT ![c] = Idle]

Free1(t) == thread' = [thread EXCEPT ![t] = Free]

outcome == <<runs, injected, deadlettered>>
server == <<rows, letter, ready, held, settled>>

-----------------------------------------------------------------------------
(* Sending.                                                                *)

\* A message that was not accepted may be sent again under the same id; the script
\* leaves the id to the service, which is the case of ids sent once.  The agent of
\* the worker sends too, and may address its own mailbox.
Send(i) ==
    /\ IsIdle("sender")
    /\ i \in Given \ accepted
    /\ \E t \in Threads, b \in {HumanBox, WorkerBox} :
           /\ StartPut(t, i, [from |-> b, to |-> WorkerBox, re |-> 0])
           /\ client' = [client EXCEPT !["sender"] = [stage |-> "sending", thread |-> t, msg |-> i]]
    /\ UNCHANGED <<server, handed, faults, crashes, accepted, outcome>>

\* The answer to the PUT of program c.
PutAnswered(c) ==
    LET t == client[c].thread IN
    /\ Stage(c, "sending")
    /\ thread[t].at \in {"accepted", "refused", "error"}
    /\ accepted' = IF At(t, "accepted") THEN accepted \union {thread[t].msg} ELSE accepted
    /\ Free1(t)
    /\ UNCHANGED <<server, handed, faults, crashes, outcome>>

SenderIsAnswered == PutAnswered("sender") /\ Rests("sender")

\* The answer to the GET of program c: message i, 0 if it got none.
GetAnswered(c, i) ==
    LET t == client[c].thread IN
    /\ Stage(c, "receiving")
    /\ \/ /\ At(t, "message") /\ i = thread[t].msg
          /\ handed' = [handed EXCEPT ![i] = @ + 1]
       \/ /\ thread[t].at \in {"nothing", "error"} /\ i = 0
          /\ UNCHANGED handed
    /\ Free1(t)
    /\ UNCHANGED <<server, faults, crashes, accepted, outcome>>

Poll(c, b) ==
    /\ IsIdle(c)
    /\ \E t \in Threads : StartGet(t, b) /\ Waits(c, "receiving", t)
    /\ UNCHANGED <<server, handed, faults, crashes, accepted, outcome>>

Holding(c, s, i) == client' = [client EXCEPT ![c] = [stage |-> s, thread |-> 0, msg |-> i]]

-----------------------------------------------------------------------------
(* The worker.                                                             *)

IsSelfAddressed(i) == letter[i].from = letter[i].to

WorkerReceives(i) ==
    /\ GetAnswered("worker", i)
    /\ IF i = 0 \/ IsSelfAddressed(i) THEN Rests("worker") ELSE Holding("worker", "run", i)

\* The agent is asked, unless the body is empty; whatever comes of it, the worker
\* has a text to send.
RunAgent ==
    /\ Stage("worker", "run")
    /\ runs' = [runs EXCEPT ![client["worker"].msg] = @ + 1]
    /\ Becomes("worker", "reply")
    /\ UNCHANGED <<server, thread, handed, faults, crashes, accepted, injected, deadlettered>>

ReplyTo(m) == [from |-> WorkerBox, to |-> letter[m].from, re |-> m]

\* A new message, whose id the service generates.
SendReply ==
    /\ Stage("worker", "reply")
    /\ \E t \in Threads, i \in Ids :
           /\ IsFresh(i) /\ \A j \in Ids : IsFresh(j) => i <= j
           /\ StartPut(t, i, ReplyTo(client["worker"].msg))
           /\ Waits("worker", "sending", t)
    /\ UNCHANGED <<server, handed, faults, crashes, accepted, outcome>>

\* Mutant of ReplyIsAnswered: the worker tries its reply again instead of ending.
ReplyIsRetried ==
    /\ PutAnswered("worker")
    /\ IF At(client["worker"].thread, "error") THEN Waits("worker", "reply", 0) ELSE Rests("worker")

\* An error ends the worker, and the message in its hands is gone.
ReplyIsAnswered == PutAnswered("worker") /\ Rests("worker")

WorkerStep ==
    \/ Poll("worker", WorkerBox)
    \/ \E i \in Ids \union {0} : WorkerReceives(i)
    \/ RunAgent \/ SendReply \/ ReplyIsAnswered

-----------------------------------------------------------------------------
(* The injector.                                                           *)

InjectorReceives(i) ==
    /\ GetAnswered("injector", i)
    /\ IF i = 0 THEN Rests("injector") ELSE Holding("injector", "inject", i)

\* A request that fails, or times out after its arrival, is given up.
Inject ==
    /\ Stage("injector", "inject")
    /\ LET i == client["injector"].msg IN
       \/ injected' = injected \union {i} /\ Becomes("injector", "notify")
       \/ injected' \in {injected, injected \union {i}} /\ Becomes("injector", "give_up")
    /\ UNCHANGED <<server, thread, handed, faults, crashes, accepted, runs, deadlettered>>

\* The Telegram notice, if one is asked for; it may fail like the injection.
Notify ==
    /\ Stage("injector", "notify")
    /\ Rests("injector") \/ Becomes("injector", "give_up")
    /\ UNCHANGED <<server, thread, handed, faults, crashes, accepted, outcome>>

\* Mutant of GiveUp: the failure is only logged.
GiveUpSilently ==
    /\ Stage("injector", "give_up")
    /\ Rests("injector")
    /\ UNCHANGED <<server, thread, handed, faults, crashes, accepted, outcome>>

GiveUp ==
    /\ Stage("injector", "give_up")
    /\ deadlettered' = deadlettered \union {client["injector"].msg}
    /\ Rests("injector")
    /\ UNCHANGED <<server, thread, handed, faults, crashes, accepted, runs, injected>>

InjectorStep ==
    \/ Poll("injector", HumanBox)
    \/ \E i \in Ids \union {0} : InjectorReceives(i)
    \/ Inject \/ Notify \/ GiveUp

-----------------------------------------------------------------------------
(* Failures.                                                               *)

\* A program dies, of a signal, a timeout of its request to the relay or a
\* deadletter file it cannot write.  Its request is served to the end.
Die(c) ==
    /\ Fault
    /\ ~IsIdle(c)
    /\ Rests(c)
    /\ UNCHANGED <<server, thread, handed, crashes, accepted, outcome>>

\* The answer of a request nobody waits for any more.
AnswerNobody(t) ==
    /\ thread[t].at \in Answers
    /\ \A c \in Programs : client[c].thread # t
    /\ Free1(t)
    /\ UNCHANGED <<server, handed, faults, crashes, clientVars>>

\* The relay dies: requests and their connections to the broker are gone, and
\* the programs that wait for an answer end with an error.
Crash ==
    /\ crashes < MaxCrashes
    /\ crashes' = crashes + 1
    /\ \E t \in Threads : ~At(t, "idle")
    /\ thread' = [t \in Threads |-> Free]
    /\ RequeueAll
    /\ client' = [c \in Programs |-> IF client[c].thread # 0 THEN Idle ELSE client[c]]
    /\ UNCHANGED <<rows, letter, settled, handed, faults, accepted, outcome>>

-----------------------------------------------------------------------------

ThreadStep(t) == (Serve(t) /\ UNCHANGED clientVars) \/ AnswerNobody(t)

Next ==
    \/ \E i \in Given : Send(i)
    \/ SenderIsAnswered
    \/ WorkerStep
    \/ InjectorStep
    \/ \E t \in Threads : ThreadStep(t) \/ (ServerFails(t) /\ UNCHANGED clientVars)
    \/ \E c \in Programs : Die(c)
    \/ Crash

Spec == Init /\ [][Next]_allVars

\* The threads run, both programs poll, and the sender reads its answers; no
\* one has to send anything.
Fairness ==
    /\ WF_allVars(WorkerStep)
    /\ WF_allVars(InjectorStep)
    /\ \A t \in Threads : WF_allVars(ThreadStep(t))

FairSpec == Spec /\ Fairness

-----------------------------------------------------------------------------
(* Properties.                                                             *)

InQueue(i) == \E q \in Queues : \E k \in DOMAIN ready[q] : ready[q][k] = i

InHand(i) ==
    \/ \E t \in Threads : Holds(t) /\ Delivery(t).payload = i
    \/ \E t \in Threads : At(t, "message") /\ thread[t].msg = i
                          /\ \E c \in Programs : client[c].thread = t
    \/ \E c \in Pollers : client[c].msg = i

\* At most once, as the API documents it: no message reaches two clients or one
\* client twice, over unconfirmed publications, ids sent again, deliveries that
\* return to their queue and answers nobody waits for.
HandedOnce == \A i \in Ids : handed[i] <= 1

\* What a PUT has confirmed is in a queue or in the hands of the service until its
\* delivery is settled, and its row says that it was queued: later PUTs of the same
\* id and the bookkeeping of its GET never turn it into a failure.
AcceptedIsKept ==
    \A i \in accepted :
        /\ i \in settled \/ InQueue(i) \/ \E t \in Threads : Holds(t) /\ Delivery(t).payload = i
        /\ rows[i] \in {"queued", "delivered"}

\* The agent is asked at most once about a message, and the message gets at most one reply.
AnsweredOnce ==
    \A i \in Ids :
        /\ runs[i] <= 1
        /\ \A j, k \in Ids : letter[j].re = i /\ letter[k].re = i => j = k

\* What became of a message: it was injected or deadlettered, discarded, is on its
\* way, or was answered by a message that is or was accepted in its turn.
Arrived(i) == i \in injected \union deadlettered
Discarded(i) == letter[i].from = letter[i].to /\ handed[i] = 1
UnderWay(i) == InQueue(i) \/ InHand(i)
Answered(i) ==
    \E j \in Ids : letter[j].re = i /\ (j \in accepted \/ UnderWay(j) \/ Arrived(j))

Lost == {i \in accepted : ~(UnderWay(i) \/ Arrived(i) \/ Discarded(i) \/ Answered(i))}

\* Nothing disappears without a failure: a failed statement, connection or
\* program costs at most one accepted message, a crash of the relay at most what
\* it was handing out.
LossIsBounded == Cardinality(Lost) <= faults + crashes * Cardinality(Pollers)

\* An accepted message ends with its reply in the session of the human or in the
\* deadletter file, unless a failure has lost it or its reply.
EventuallyConcluded ==
    \A i \in Given : i \in accepted ~>
        \/ Discarded(i)
        \/ i \in Lost
        \/ \E j \in Generated : letter[j].re = i /\ (Arrived(j) \/ j \in Lost)

-----------------------------------------------------------------------------
(* The inductive invariant of the proofs.                                  *)

Held(i) == \E t \in Threads : Holds(t) /\ Delivery(t).payload = i
Placed(i) == i \in settled \/ InQueue(i) \/ Held(i)

\* A PUT between its row and its answer.
Publishing == {"publish", "mark_queued", "mark_failed"}

\* Points at which a request has a message.
Laden == PutPoints \union {"mark_delivered", "ack", "accepted", "message"}

\* What requests and programs carry while they work on a message.
RequestInv ==
    /\ \A t \in Threads :
           /\ thread[t].at \in Laden => thread[t].msg \in Ids
           /\ At(t, "insert") => thread[t].mail \in Letters
           /\ At(t, "fetch") => thread[t].box \in Boxes
           /\ thread[t].at \in Publishing \union {"mark_delivered"} => rows[thread[t].msg] # "absent"
           /\ Holds(t) => thread[t].at \in {"mark_delivered", "ack"}
                          /\ Delivery(t).payload = thread[t].msg
    /\ \A i \in Ids : rows[i] # "absent" => letter[i] \in Letters
    /\ \A i \in Ids : Placed(i) => rows[i] # "absent"
    /\ \A c \in Programs :
           /\ client[c].thread # 0 <=> client[c].stage \in {"receiving", "sending"}
           /\ client[c].stage \notin {"idle", "receiving"} => client[c].msg \in Ids
    /\ client["worker"].stage \in {"run", "reply", "sending"} => client["worker"].msg \in settled

Distinct ==
    \A q, p \in Queues : \A k \in DOMAIN ready[q], l \in DOMAIN ready[p] :
        ready[q][k] = ready[p][l] => q = p /\ k = l

\* A message is in one place; the one that publishes it is alone, and it is nowhere yet.
PlaceInv ==
    /\ Distinct
    /\ \A t, u \in Threads : Holds(t) /\ Holds(u) /\ Delivery(t).payload = Delivery(u).payload => t = u
    /\ \A i \in Ids : ~(InQueue(i) /\ Held(i)) /\ (i \in settled => ~InQueue(i) /\ ~Held(i))
    /\ \A t \in Threads : At(t, "publish") => ~Placed(thread[t].msg)
    /\ \A t, u \in Threads :
           {thread[t].at, thread[u].at} \subseteq Publishing /\ thread[t].msg = thread[u].msg => t = u

\* A message in an answer was settled for this answer and handed to nobody.
HandInv ==
    /\ HandedOnce
    /\ \A i \in Ids : handed[i] > 0 => i \in settled
    /\ \A t \in Threads : At(t, "message") =>
           /\ thread[t].msg \in settled /\ handed[thread[t].msg] = 0
           /\ \A u \in Threads : At(u, "message") /\ thread[u].msg = thread[t].msg => u = t

\* What is confirmed, or about to be, is there, and its PUT is over.
KeptInv ==
    /\ AcceptedIsKept
    /\ \A t \in Threads : At(t, "mark_queued") => Placed(thread[t].msg)
    /\ \A t \in Threads : At(t, "accepted") =>
           Placed(thread[t].msg) /\ rows[thread[t].msg] \in {"queued", "delivered"}
    /\ \A t, u \in Threads : thread[t].at \in Publishing /\ At(u, "accepted") =>
           thread[t].msg # thread[u].msg
    /\ \A t \in Threads : thread[t].at \in Publishing => thread[t].msg \notin accepted

Replying(i) == \E t \in Threads : At(t, "insert") /\ thread[t].mail.re = i
Replied(i) == \E j \in Ids : letter[j].re = i

\* The worker has a message once, asks the agent once and sends its reply once.
ReplyInv ==
    /\ AnsweredOnce
    /\ \A i \in Ids : runs[i] > 0 \/ Replying(i) \/ Replied(i) => handed[i] > 0
    /\ \A i \in Ids : ~(Replying(i) /\ Replied(i))
    /\ \A t, u \in Threads : At(t, "insert") /\ At(u, "insert") /\ thread[t].mail.re = thread[u].mail.re
                             /\ thread[t].mail.re # 0 => t = u
    /\ client["worker"].stage \in {"run", "reply"} =>
           LET i == client["worker"].msg IN handed[i] > 0 /\ ~Replying(i) /\ ~Replied(i)
    /\ Stage("worker", "run") => runs[client["worker"].msg] = 0

IInv == TypeOK /\ RequestInv /\ PlaceInv /\ HandInv /\ KeptInv /\ ReplyInv

-----------------------------------------------------------------------------
(* Why losses are bounded, when the two hosts have queues of their own.    *)

\* The names of the two mailboxes are not normalised to the same queue.
OwnQueues == QueueOf[HumanBox] # QueueOf[WorkerBox]

\* A letter is a message to the worker, or the reply to one that came from the human.
IsRouted(l) ==
    IF l.re = 0
    THEN l.from \in {HumanBox, WorkerBox} /\ l.to = WorkerBox
    ELSE l.from = WorkerBox /\ l.to = HumanBox

IsLetter(i) == rows[i] # "absent" /\ letter[i].re = 0

Lies(q, i) == \E k \in DOMAIN ready[q] : ready[q][k] = i

\* Letters reach the host they are addressed to.
RouteInv ==
    /\ \A i \in Ids : rows[i] # "absent" =>
           IsRouted(letter[i]) /\ (letter[i].re # 0 => IsLetter(letter[i].re))
    /\ \A i \in Ids : rows[i] = "absent" => letter[i] = NoLetter
    /\ \A t \in Threads : At(t, "insert") =>
           IsRouted(thread[t].mail) /\ (thread[t].mail.re # 0 => IsLetter(thread[t].mail.re))
    /\ \A q \in Queues, i \in Ids : Lies(q, i) => QueueOf[letter[i].to] = q
    /\ \A t \in Threads : Holds(t) => QueueOf[letter[Delivery(t).payload].to] = Delivery(t).queue
    /\ \A t \in Threads : thread[t].at \in {"mark_delivered", "ack", "message"} =>
           /\ thread[t].box \in Boxes
           /\ rows[thread[t].msg] # "absent"
           /\ QueueOf[letter[thread[t].msg].to] = QueueOf[thread[t].box]
    /\ client["worker"].stage \in {"run", "reply"} =>
           /\ IsLetter(client["worker"].msg)
           /\ letter[client["worker"].msg].from = HumanBox

\* Nobody but the worker uses the id of its reply, so its PUT is never refused.
FreshInv ==
    /\ \A t \in Threads : At(t, "insert") /\ thread[t].msg \in Generated => rows[thread[t].msg] = "absent"
    /\ \A t, u \in Threads : At(t, "insert") /\ At(u, "insert") /\ thread[t].msg \in Generated
                             /\ thread[t].msg = thread[u].msg => t = u

\* A program waits for a request of its own, which serves what it asked for.
WaitInv ==
    /\ \A c, d \in Programs : client[c].thread # 0 /\ client[c].thread = client[d].thread => c = d
    /\ \A c \in Programs :
           LET t == client[c].thread IN
           /\ Stage(c, "receiving") =>
                  /\ thread[t].at \in GetPoints \union {"message", "nothing", "error"}
                  /\ thread[t].box = IF c = "worker" THEN WorkerBox ELSE HumanBox
                  /\ c # "sender"
           /\ Stage(c, "sending") => thread[t].at \in PutPoints \union {"accepted", "refused", "error"} /\ c # "injector"
           /\ client[c].stage \in {"idle", "receiving"} => client[c].msg = 0
    /\ Stage("worker", "sending") =>
           LET t == client["worker"].thread
               i == client["worker"].msg
           IN  /\ thread[t].at # "refused"
               /\ At(t, "insert") => thread[t].mail.re = i /\ thread[t].msg \in Generated
               /\ thread[t].at \in Publishing \union {"accepted"} => letter[thread[t].msg].re = i
    /\ client["worker"].stage \in {"idle", "receiving", "run", "reply", "sending"}
    /\ client["sender"].stage \in {"idle", "sending"}
    /\ client["injector"].stage \in {"idle", "receiving", "inject", "notify", "give_up"}
    /\ Stage("injector", "notify") => client["injector"].msg \in injected

\* The request with the worker's reply has failed.
ReplyFailed == Stage("worker", "sending") /\ thread[client["worker"].thread].at \in {"mark_failed", "error"}

InAnswer(i) == \E t \in Threads : At(t, "message") /\ thread[t].msg = i /\ \E c \in Programs : client[c].thread = t
WorkedOn(i) == (client["worker"].msg = i /\ ~ReplyFailed) \/ client["injector"].msg = i
HasReply(i) == \E j \in Ids : letter[j].re = i /\ Placed(j)

\* Messages that left the broker and that nobody works on or has concluded.
Gone == {i \in settled : ~(InAnswer(i) \/ WorkedOn(i) \/ Arrived(i) \/ Discarded(i) \/ HasReply(i))}

\* Requests that may still take a message for a program that is dead.
Orphans == {t \in Threads : thread[t].at \in GetPoints /\ \A c \in Programs : client[c].thread # t}

\* Whatever is gone, or will be, was paid for by a failure.
DebtInv ==
    /\ IsFiniteSet(settled)
    /\ Cardinality(Gone) + Cardinality(Orphans) <= faults + crashes * Cardinality(Pollers)

LossInv == RouteInv /\ FreshInv /\ WaitInv /\ DebtInv
=============================================================================
