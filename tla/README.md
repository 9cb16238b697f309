# A verification project for openclaw_relay

`openclaw_relay` carries messages between OpenClaw gateways.  A human-facing
gateway **A** drops message files into a watch directory; the **relay** picks
them up, asks one of several **worker** gateways **B** (over HTTP, or over
RabbitMQ and an adapter on the worker's host), stores the reply and injects it
into the session of A the message came from.  Beside this round trip the relay
offers a **mailbox** over HTTP to clients on other hosts.

This directory holds TLA+ models of that program, translated from its source,
the TLC configurations that check them on small instances, and proofs that the
TLA+ proof system (TLAPS) checks for every instance.  Paths such as
`app.py:1328` are below `src/openclaw_relay/` unless another directory is named.

## 1. Inventory

Each part with its state, its operations, whom it interacts with, what is hard
about it, and what makes it correct.

**A. Poll loop and store** (`app.py` `run`, `poll_once`; `state.py`).  State:
SQLite tables `messages` (status, next_attempt_at, reply_text, ...), `attempts`,
`seen_files`, `mailbox_messages`, `audit_index`; every store call is a
transaction of its own.  One thread runs `poll_once` over and over: ingest every
pending file, dispatch, consume broker replies, collect session replies,
inject.  Each pass reads its rows once and then works through that snapshot.
An exception that leaves `poll_once` ends the process; systemd restarts it.
Hard: a crash between any two commits; other processes (`replay-deadletter`,
`cleanup`) and HTTP threads on the same tables.

**B. Ingestion** (`_process_pending_file`, `spool.py`, `watcher.py`).  A file is
claimed in `seen_files` by path, size and hash; its envelope reserves a
`messages` row by idempotency key; the file is copied into `processing/`; the
row gets its path; the claim is finalized: five commits or copies, each of which
a crash may follow, and a resumption of files left in `DISCOVERED`.  Correct:
a file becomes at most one message, exactly one unless it is invalid or a
duplicate, and what is dispatched is what the file said, if no other message
shared its file name.

**C. Dispatch over HTTP** (`_dispatch_reserved_messages`).  Rows `RESERVED` and
`FAILED_B`: post to the worker, wait for the answer, store it.  Before a retry
and after a timeout the session log of the worker is searched over ssh.
The search takes the first text of the agent after the request, whatever it
answers, and the requests of the relay share a session of the worker.  Correct: what
is stored was written by the worker's agent after the request; retries are bounded
and counted; a request is not repeated while the session shows it.

**D. Injection** (`_inject_replied_messages`).  Rows `B_REPLIED` and
`FAILED_A_INJECTION`: post the reply to A, with the same confirmations.
Correct: `DONE` only if A holds the reply; the worker is never asked again for
a stored reply; a row ends in `DONE` or a deadletter status.

**E. RabbitMQ transport of the relay** (`_publish_broker_message`,
`_consume_rabbitmq_replies`, `_collect_queued_worker_replies`, `broker.py`).
Rows go to `QUEUED_B`; replies come back through a queue or are found in the
session log.  That search is for the body of the message alone, since the adapter
sends nothing else to the worker.  Hard: redelivery, duplicates, error replies that
come late, a queue with two consumers, no timeout in `QUEUED_B`, an older exchange
whose request contains the body.

**F. Mailbox service** (`put_mailbox_message`, `get_mailbox_message`,
`health.py`).  Over SQLite (`queued` to `delivered` in one immediate
transaction) or over RabbitMQ (`publishing`, `queued`, `failed`, `delivered`).
HTTP threads run it concurrently.  Correct: every accepted message is taken by
one reader of its mailbox, in order; it may be lost on the way to that reader
and then reaches nobody.

**G. Worker adapter and reply consumer** (`rabbitmq_runtime.py`).  Take a
request from the worker's queue, run the agent, publish the reply, acknowledge;
take a reply and inject it.  Hard: death between answer and acknowledgement.

**H. Mailbox clients** (`deploy/client/*.py`).  Poll a mailbox, run an agent or
inject, send a reply.  Hard: death after the message was taken.

**I. replay-deadletter** (`replay_deadletter`, `cli.py`).  Another process: reads
the status, deletes attempts, writes a new status.

**J. Alert store** (`alerts.py`), **K. cleanup** (`cleanup.py`), **L. helpers**
(envelope parsing, back-off, session search), **M. health, tunnels, tokens**,
**N. mailbox authentication**, **O. dashboard, metrics, CLI, configuration,
logging, audit**.

The `hazards` of `PROJECT.json` list what is hard to test, line by line.

## 2. Plan

| step | modules | what for |
| --- | --- | --- |
| 1 (done) | `RelayStore`, `RelayLoop`, `RelayResponses`, `MessageLifecycle`, `MCRelayResponses`, `RelayResponses_proofs` | the round trip with transport `responses`, its abstract specification, its proofs |
| 2 (done) | `Ingestion`, `MCIngestion`, `Ingestion_proofs` | claims, reservations, copies and resumption under crashes; duplicates; a file name used twice; cleanup beside it |
| 3 (done) | `Broker`, `RelayRabbit` (extends `RelayLoop`), `MCRelayRabbit`, `RelayRabbit_proofs`, `RelayRabbitOne_proofs` | publication, adapter, reply queue, session collection, the second consumer; which parts of `MessageLifecycle` survive |
| 4 (done) | `Mailbox`, `MailboxService`, `MCMailbox`, `MailboxService_proofs` | an abstract FIFO mailbox, the SQLite service that implements it |
| 5 (done) | `MailboxRabbit`, `MailboxClients`, `MCMailboxClients`, `MailboxClients_proofs`, `MailboxLoss_proofs` | the broker service with the programs around it: loss and duplication end to end |
| 6 (done) | `AlertStore`, `MCAlerts`, `AlertStore_proofs` | groups of alerts in one webhook, the list, its bounded history, its file and what a torn one does |

`RelayResponses` and `RelayRabbit` both extend `RelayLoop` (the dispatch of a row up
to the transport, the injection half, replay, crash), which extends `RelayStore`.
`RelayRabbit` and `MailboxRabbit` both instantiate `Broker`; `MailboxClients` extends
`MailboxRabbit`.

Every safety property the passing runs check is stated by a theorem; liveness stays
with TLC.

## 3. The round trip

### Modules and code

* `RelayStore`: tables `messages` and `attempts`.  `status[m]` is `"ABSENT"` until
  ingestion's last commit makes the row dispatchable; `due[m]` says whether
  `next_attempt_at` is empty or past; `reply[m]` whether `reply_text` is stored;
  `attempts[m][target][result]` counts rows.  One operator per store call.
* `RelayLoop`: what both transports share: the dispatch of a row up to its transport
  (limits, TTL, bookkeeping of a failure), the injection half, replay, crash.
  `phase`, `batch`, `step` and `cur` are the program counter of the poll thread: the pass it is in, the snapshot rows it
  has not reached, the point in the loop body, the row under work.  Every action
  runs the thread to its next commit or outside call.  `received[t][m]` and
  `inflight[t][m]` count the copies of a request that stand in the session of
  gateway t or may still arrive; `followed[m]` says that a text of the worker's agent
  stands after the request in a session of the worker; `expired[m]` that
  the TTL is over; `op[o]` is the progress of each replay command.  Actions: the injection loop (`Inject`), the `Dispatch...` steps,
  `Replay`, `Crash`, and the world (`Ingest`, `Expire`, `BackoffElapses`, `WorkerWrites`,
  `LateArrival`).
* `RelayResponses`: the dispatch loop over HTTP, `Next`, `Spec`, `FairSpec`, the
  properties and the inductive invariant.
* `MessageLifecycle`: the abstract round trip.  `ImplementsLifecycle` maps
  statuses to its stages (`StageOf`), `followed` to itself and `delivered` to the
  messages that stand in the session of A.  It promises that a reply is stored only
  after the worker's agent has written after the request, not that the text answers it.
* `MCRelayResponses` instantiates the model for TLC.

The loop re-reads `due` and `reply` of a row when it reaches it, where the code
looks at its snapshot; nobody else changes these columns of a row in a pass
except time, which the code also reads when it reaches the row.  Requests are
counted, not numbered, because no code tells copies apart.  The reasons for
which a request may fail are reduced to four: an answer with text, an answer
without usable text, an error that reads "timed out", any other error; after
both errors the request may have arrived, may arrive later, or never.  A wrong
HTTP status is among the errors.  `MonitorFails` lets every session search come
back empty, which stands for a missing ssh configuration, an error and a log
that was rotated.

A session search (`remote.py:585-597`) returns the first text of the agent after the
first request that carries the message id; whose answer that text is, or whether it is
an intermediate remark, is not asked.  The requests of the relay go to one session per
worker, so the text may answer another message.  `WorkerWrites(m)` therefore needs
nothing but that the request stands in the session: it over-approximates every
reason for which a text may follow it, and `ReplyFollowsRequest` says what is left to
rely on.  Message ids are taken to be unique.

### Runs and what they show

| run | instance | shows |
| --- | --- | --- |
| `relay_round_trip` | 1 message, 2 attempts per side, 1 crash, 1 replay, searches may fail, late arrivals | all safety properties, `NoRedispatch`, `ImplementsLifecycle` and, under fairness, `EventuallySettled` |
| `relay_at_most_once` | 2 messages, 2 attempts, no crash, replay, failing search or late arrival | `AtMostOnce`: confirmation makes retries safe when session logs can be trusted |
| `relay_double_replay` | 2 operators, 2 replays | refutes "only DEADLETTER_B/A can be replayed" (`app.py:2332`) |

Why the bounds are enough: messages interact through the order in which the single
thread takes them and through the session of the worker they share.  A text that
follows one request because of another is a `WorkerWrites` of the first, so one
message meets every state of its own row and every reply a search may find for it, and
two meet the order (`relay_at_most_once` assumes a worker with a tunnel, so that its
session can be searched); two attempts per side are the least for which "first",
"last" and "confirmed before a retry" differ; one crash and one replay reach every
recovery path, and bounds on them are constants of the model so that
`SendsAreBounded` can name them.  The same instance with two crashes and two
replays (601,315 states) passes as well.

### Fairness

`WF(PollStep)`: `run` calls `poll_once` for ever, and systemd restarts it.
`SF(BeginInject)`: a token for gateway A can be had again and again, otherwise
`SkipInject` could be chosen for ever.  `WF(Expire)` and `WF(BackoffElapses)`:
time passes.  Nothing is assumed of workers, networks and operators: a message
nobody answers is settled by its TTL.

### Proofs

`RelayResponses_proofs` proves, for every set of messages, every limit and any
number of crashes and replays (by one operator at a time, `OneOperator`, which
`relay_double_replay` shows to be needed):

* `TypeCorrect` (also without `OneOperator`), `DoneDelivered`, `RepliesFollowRequests`,
  `BudgetKept`, `GiveUpJustified`, `SendsStayBounded`, `NeverRedispatched`, and
  `Refinement`: the relay implements `MessageLifecycle`.
* `NeverTwice`: `AtMostOnce`, under `NothingFails` (session searches can be trusted,
  nothing is late, crashes or is replayed), which is the instance of
  `relay_at_most_once` without its bounds.

None of the safety properties is inductive by itself.  `IInv` adds four parts:
`ThreadInv` (the rows of a pass keep the status they were picked for, since only
the thread moves them), `ReplayInv` (a replayed row stays deadlettered until the
replay is over), `ReplyInv` (what a stored reply and each step of the thread say
about the gateways) and `BudgetInv` (attempts are left wherever a failure may
still be recorded).  Each part has a lemma for `[Next]_vars` with one case per
action; `Refinement` has one lemma per kind of abstract step.

`SendsAreBounded` speaks of copies that were sent, which nothing in the store
counts.  `SendsInv` bounds them by what is recorded: a copy has its attempt, or the
thread is about to record it, or a crash or a replay has dropped the record.
`OnceInv` says why a copy is not repeated: whatever was received has an attempt, so
the next dispatch searches the session first and finds it.

Only model-checked: `EventuallySettled` (liveness under fairness is beyond the prover).

## 4. The ingestion of files

### Modules and code

`Ingestion` models `_process_pending_file` commit by commit, inside scans of the
watch directory (`watcher.py`).  A file is a content and a time stamp.  `seen` is
the table `seen_files`, by path and content, as `source_key` is; `rows` is
`messages` as ingestion sees it, by idempotency key; `processing[n]` is the copy
named n in the processing directory, with its `form`: `raw` as copied, `torn` when
the copy was cut short, `normal` once it was rewritten with the completed
envelope.  `pc`, `cur`, `source`, `envelope` and `resuming` are the thread's point
and locals.  `Claim`, `Parse`, `Reject`, `Reserve`, `Suppress`, `Resume`, `Copy`,
`Rewrite`, `SetArtifact`, `Finalize` and the two halves of a failed copy are the
steps between the commits of the function; the file is read again at `Parse` and
at `Copy`, because the code does.  Around them: `Write` and `Expire` (the writers and
time), `Crash`, `Settle` (what the passes after the scan make of a row; it runs
between scans, on the same thread), `Replay`, and `Cleanup` of another process.

Contents with a key of their own and contents whose key the relay derives from
path and time stamp behave differently when a file is written twice; the constant
`Keyed` says which is which.  A writer may use the name of a file again, for the same
message or for another one; `written[n]` remembers, for the properties alone, the files
that have stood under the name, and `Messages(n)` the messages they make.
Left out: the copies into `archive/` and `deadletter/`, which nothing reads back.

### Runs and what they show

| run | instance | shows |
| --- | --- | --- |
| `ingestion` | 2 writes under two names or one, a content with a key and one without, 1 crash, 1 failure of the disk | `ReservedHasArtifact`, `RowIsCarried`, `ArtifactIsTheMessage`, `CompletedOnce`, and under fairness `ClaimIsConcluded` |
| `ingestion_torn_copy` | 1 file, 1 crash | refutes "`from` may be left out" (`doc/インストールガイド.md:235`) when the relay dies between copy and rewrite |
| `ingestion_cleanup` | 1 name for 2 messages | refutes "the processing file of a deadlettered message is kept" (`doc/retentionとcleanup.md:45`) |

A copy of the same name in the processing directory is taken as it is
(`app.py:1313`).  So a row may be given the copy of another message that used its file
name, and its copy may be deleted with that message; both happen in the passing run, as
does a file that is replaced between claim and parse.  `ArtifactIsTheMessage` says how
far this goes: the copy of an unfinished row is always of a file written under its
name, it is missing only when another message of that name is done, and a name that
stood for one message gives exactly that message.  Two writes are the least for which
one file can be a duplicate of the other, for which the order of a scan matters, and
for which a file changes under the thread or comes again after it was concluded; a
crash and a failure of the disk meet every step, and each other.

Fairness is `WF(Thread)`: `run` scans for ever and is restarted.  Writers, time,
crashes and failures of the disk need none.

Three behaviours a reader of the code should know, which the properties above allow: a
reservation whose file expires before the crash is resumed stays `RESERVED` without a
path for ever (its claim is concluded as `REJECTED`); so does the row of a file that
took the place of another between claim and parse, when the relay then crashes, for
its claim is of the older content and nobody resumes it; and an unkeyed file written
again reserves a second row, since its derived key contains the time stamp, and both
rows share one processing file.

### Proofs

`Ingestion_proofs` proves, for every set of files and every bound, `TypeCorrect`,
`ReservedHasArtifactAlways`, `RowsAreCarried`, `CompletedOnceAlways`,
`ArtifactsAreTheirMessages` and `DeadlettersKeepArtifacts`, the last two for names used
as often as one likes.  The inductive invariant is
`IInv` = `TypeOK`, `ThreadInv` (what thread holds at each of its points: a claim that
is open, a row that exists, an artifact before it finalizes) and `ClaimInv` (a
claim concluded as `RESERVED` refers to a row with an artifact).  `CompletedOnce`
is an action property and follows from the same invariant, because the thread
reaches `SetArtifact` only for a row without path.

`RowIsCarried` needs `CarryInv`: a row remembers a file of its own key, which was claimed
before; the claim the thread works on is open, a first claim has no row yet, and a
claim is given up only when its file or its row is out of date.
`ArtifactIsTheMessage` needs `NameInv`: what is read, copied and dispatched under a name
was written under it, and the copy of a name disappears only when a row of that name is
done (`DoneUnder`), because the cleanup asks for the status.
`DeadlettersKeepArtifacts` is what is left of the property `ingestion_cleanup` refutes: a
deadlettered row has its copy or another row of the same name is done.

Only model-checked: the liveness property.

## 5. The mailbox

### Modules and code

`Mailbox` is what the API promises: messages are accepted once, taken from their
mailbox in the order of acceptance, and received at most once.  A taken message
may never be received: the API has no acknowledgement.

`MailboxService` is `put_mailbox_message` and `get_mailbox_message` over SQLite.
`table` holds the rows of `mailbox_messages` by their autoincrement `id`; `at[r]` is
the point reader r's GET has reached, `row[r]` the row it has selected, `locked` who
is inside a write transaction, `received` what was sent out.  `Put` is the whole
transaction of a PUT.  A GET is `Get`, `BeginImmediate`, `SelectOldest` or
`SelectNothing`, `Commit`, `Answer`; `Fail` is any exception before the commit,
the lock that does not come free in time included; `Answer` may be lost, which
stands for a client that went away and for an audit record that cannot be written
(`app.py:548`); `Crash` ends every request.

`ImplementsMailbox` reads the abstract state off the table: `accepted` is the rows,
`taken` those that are `delivered`.

### Runs, bounds, proofs

| run | instance | shows |
| --- | --- | --- |
| `mailbox_service` | 3 ids, 2 mailboxes, 2 readers of one and 1 of the other | `HandedOnce`, `InOrder`, `ImplementsMailbox` |

Three messages allow two in one mailbox beside one in another; two readers of a
mailbox race for its front; crashes and failures are not bounded.

`MailboxService_proofs` proves, for every set of ids, mailboxes and readers,
`TypeCorrect`, `HandedOnceAlways`, `InOrderAlways` and `Implementation` (the service
implements `Mailbox`).  `IInv` adds to the properties `LockInv` (a reader that has
selected a row is alone in its transaction), `RowInv` (a marked row is still the
oldest that waits; an answer under way is nobody else's and was not sent) and
`SentInv` (what was sent is marked).  The refinement has one lemma per abstract
step.  No liveness is claimed: nothing makes clients poll.

## 6. The RabbitMQ transport

### Modules and code

`Broker` is RabbitMQ as `broker.py` uses it: durable queues, `ready[q]`, and at most
one unsettled delivery per client, `held[c]`, because `RabbitMQDelivery` has a
connection of its own and closes it when it is settled.  `Publish` is a confirmed
publication; `PublishUnconfirmed` one that ends in an error, after which the message
may be in the queue all the same; `Fetch` is `basic_get`; `Settle` is `ack` (and a
`nack` without requeue); `Requeue` is a `nack` or a lost connection, which puts the
message back at the head; `RequeueAll` is the death of a process.

`RelayRabbit` adds three programs to `RelayLoop`:

* the relay: `PublishRequest`, `RecordPublication` and `MarkQueued` are publication,
  attempt and status, three steps a crash may part; `ConsumeReplies` is
  `_consume_rabbitmq_replies` with its error replies and put-backs; `CollectReply`
  and `CollectSkip` are `_collect_queued_worker_replies`.  The worker's sessions are
  searched for the body of the row alone (`app.py:2019-2022`, `remote.py:585-597`), for the
  adapter sends nothing else.  `view[m]` says what these searches are like, and `Views`
  which kinds an instance has: `own`, no other request contains the body and the
  search sees what section 3 says; `lookalike`, an answered exchange contains it (an
  older message with this body, a request of somebody else, a longer message), and
  its text may be stored for `m` at any time, before the request of `m` is delivered too;
  `none`, no search ever finds anything, because the worker has no tunnel (`app.py:2251`)
  or its session is not among the newest files that are searched.  `RelayDies` is `Crash` with
  the delivery going back.
* the worker adapter (`process_one`), whose `job` is the message it works on and the
  point it has reached; `received["B"]` counts what it sent to the worker.
  `AdapterDies` (of anything that leaves `process_one`), `AdapterLosesConnection` (it
  serves no heartbeats while the worker works) and `AdapterTokenTimesOut` are its
  faults; `AdapterAckFails` is the acknowledgement on a lost connection.
* the standalone reply consumer, which takes replies from the queue of the relay
  and injects them itself; `consumed` holds the rows one of whose replies it settled.

Bodies are reduced to their kind and row.  A reply with an unknown id, or without
text, needs a client that is none of the three and is left out.

### Runs and what they show

| run | instance | shows |
| --- | --- | --- |
| `rabbit_round_trip` | 1 message whose body no other request contains, 2 attempts per side, 1 crash, 1 fault of the adapter, unreadable session logs, no consumer | `QueuedIsCarried`, `ReplyHasOrigin`, `FailuresAreBounded`, `RunsAreBounded`, `GiveUpIsJustified`, `FollowsLifecycle` |
| `rabbit_progress` | 1 message with every kind of session search, late requests, 1 reply put back, 1 delivery to the consumer, fairness | `QueuedMovesOn`, `FailuresAreBounded`, `FollowsLifecycle` |
| `rabbit_token_timeout` | 1 message, 1 late token, nothing else | refutes "deleted from the queue only when the adapter is done" (`README.md:215`) |

`FollowsLifecycle` says that every step is one of `MessageLifecycle` but for three
departures it names: an error reply that comes late reopens a row whose reply is
stored (`Reopens`; the guard of `app.py:1900` does not list `FAILED_A_INJECTION`),
text reaches gateway A past the injection half (`Bypasses`), and the collection takes
an exchange that looks like the row's own (`TakesLookalike`).  `ReplyHasOrigin` says the
same of stored replies: the worker's agent wrote after the request, or the row has a
look-alike.  `QueuedMovesOn` names what strands a row in `QUEUED_B`, for which the code
has no timeout: an expired envelope (`_collect_queued_worker_replies` passes over it), a
request that got lost after the adapter gave up waiting, one that was dropped unsent, a
reply the consumer took, and, when the adapter gave up waiting for a worker that has the
request, a session no search can see (`OutOfSight`).

One message meets every state of its row, its request, its copies and its replies.
Rows interact through the order of the queues, which matters to none of these
properties, and through the sessions of the worker, whose other exchanges are the
`lookalike` view of a row.  Two attempts let copies and replies of a first and a second
publication cross.  The faults of the adapter are counted together, so one run
meets each of them, not two.  Puts-back, consumer, late requests and the other views
are in `rabbit_progress`, because all at once are out of reach of a quick run: the
round trip with look-alikes alone has 6,626,430 states, and passes.

### Fairness

The relay, the adapter and the consumer run for ever (`WF(RelayWorks)`,
`WF(AdapterStep)`, `WF(ConsumerInject)`); back-offs elapse; a worker that has a
request answers it (`WF(WorkerWrites)`), and a session search that may find a reply
finds it in the end (`SF(CollectReply)`, which asks nothing of a row whose view is `none`);
`SF(BeginInjectAfterCollect)` as above.
The envelope need not expire: with `WF(Expire)` the property would be empty.  That
workers answer is an assumption about them, not about the relay: without it a
queued row whose request timed out waits for ever, as it does for a worker without
a tunnel.

### Proofs

`RelayRabbit_proofs` proves, for any messages, limits, faults and operators, the
type invariant, `ReplyHasOrigin` (`StoredRepliesHaveOrigins`), `DoneIsDelivered` and
`QueuedIsCarried`, for every view of every message.  `IInv` has
these parts:

* `ControlInv`: the phase each point of the relay belongs to, and whose deliveries
  the relay and the adapter hold when they are about to settle them;
* `AnswerInv`: nothing in a queue, a hand, the job of the adapter, a batch or a replay
  claims a text the worker has not written (`GenuineInv`, `KnownInv`).
  `ReplyHasOrigin` is not inductive without it: the relay believes what it consumes;
* `CarryInv`: from the publication on, before the row says `QUEUED_B`, a row has
  something that carries it, and the delivery in the hand of the adapter counts only
  until the adapter is about to settle it.

`RelayRabbitOne_proofs` proves `FailuresAreBounded`, `GiveUpIsJustified` and the
refinement `FollowsLifecycle` when one operator replays at a time (`OneOperator`, as
in section 3).  `StatusInv` and `BudgetInv` are what `ThreadInv` and `BudgetInv` are there;
an error reply that reopens a row costs an attempt of its own, and the bound has the
put-backs and crashes that let one reply be counted twice.  The refinement has one
lemma per kind of step: stutters, changes of a status, texts of the agent, and
deliveries to gateway A, the departures among them.

The same module proves `RunsAreBounded`.  `RunsInv` counts in `Runs(m)` what the worker
was sent together with what can still reach it without another publication: the
requests about `m` in the inbox and the one the adapter is about to post.  A fetch and
a post then move a run from one place to another, and only a publication or a fault of
the adapter (a delivery put back) adds one.  `Spent(m)` is the failures on record and,
while the latest publication has none, one more; nothing but a death of the relay takes
from it, until a replay clears it and the bound grows by `MaxAttemptsB`.  The lemmas on
`Places` say what appending, taking and putting back do to the count of a queue.
TLC found `RunsInv` invariant before it was proved, with a replay, late arrivals, a crash
and a fault of the adapter.

Only model-checked, for the prover knows no liveness: `QueuedMovesOn`.

## 7. The mailbox over RabbitMQ, and its clients

### Modules and code

`MailboxRabbit` is the same API over the broker.  A PUT is `InsertRow`, `PublishRow`,
`MarkPublished`, a GET `FetchMessage`, `MarkDelivered`, `AckMessage`: every statement
and every call of the broker is a step of the request's thread, as no lock spans
them.  `rows[i]` is the status of the row, `letter[i]` who sent it to whom and what
it answers, `settled` what was taken off its queue for good.  `PutFails` and
`LoseConnection` are failures of a statement and of a connection; the audit record of a
message that is published and marked is among the statements (`app.py:503`).

`MailboxClients` adds the sender (an agent that chooses ids and may send again under
the same one; `relay-mailbox-send.sh` is the case in which nothing is sent twice),
the worker and the injector, single threads without a store, whose errors end the
process and which launchd starts again.  `Die` ends one at any point; its request
is served to the end and `AnswerNobody` throws the answer away.  `Crash` is the relay.

### Runs, bounds, fairness

| run | instance | shows |
| --- | --- | --- |
| `mailbox_rabbit` | 1 id that may be sent again, 2 generated ones, 3 threads, 1 failure, 1 crash | `HandedOnce`, `AcceptedIsKept`, `AnsweredOnce`, `LossIsBounded`, `EventuallyConcluded` |

One message is sent, answered, and its answer injected: the longest path there is.
The second generated id lets a reply be sent twice, if the code did that.  Three
programs wait for at most one request each, but a request outlives its program, so
three threads leave room for one that does.  Ids are used once by construction of
`IsFresh` (a time in nanoseconds is part of the hash).

`WF` of each thread, of the worker and of the injector: they poll for ever.  Nobody
has to send.  `EventuallyConcluded` holds up to `Lost`, which `LossIsBounded` relates
to the failures that happened.

Two behaviours a reader should know, which `AcceptedIsKept` allows: a GET may overtake
the end of the PUT, and the row of a message that was received then reads `queued`
for ever (`app.py:497`); and a PUT answered with an error may have been delivered.

### Proofs

`MailboxClients_proofs` proves, for any mailboxes, ids, threads, failures and crashes,
the type invariant, `HandedOnce`, `AcceptedIsKept` and `AnsweredOnce`.  Each depends on
those before it, so `IInv` is one invariant of the whole:

* `RequestInv`: what a thread or a program carries at each of its points; a message
  in a queue or a hand has a row, and a row has its letter;
* `PlaceInv`: a message is in at most one place: a position of one queue, the delivery of
  one thread, or settled.  It is nowhere yet while its PUT publishes it, and one PUT
  alone does that, because the insertion refuses an id with a row;
* `HandInv`: a message that an answer carries was settled for this answer and was
  handed to nobody;
* `KeptInv`: a confirmed message has a place, and no PUT still under way can mark its row;
* `ReplyInv`: a reply is in the body of one PUT or in one letter, and its message was
  handed out before.  While the worker has a message nobody replies to it, which is
  why the agent is asked once although the worker has no store.

The lemmas about `Broker` say what each of its operations does to the places of the
messages; two mailboxes may share a queue.  `RequeueAll` is the hard one: the deliveries
of a dead process return in any order, to several queues, and stay distinct.

`MailboxLoss_proofs` proves `LossIsBounded`, for hosts with queues of their own
(`OwnQueues`: the two mailbox names are not normalised to one, `broker.py:152`, as in the
run; the hypothesis is that of the theorem, no `ASSUME` of the model).  With one queue for
both, the worker would answer replies too, and TLC alone has checked the bound, on one
instance of that kind.  `LossInv` joins four invariants to `IInv`:

* `RouteInv`: a letter is for the worker, or is the reply to one from the human, in its
  row, in its PUT, in the queue of its mailbox and in the hands of whoever reads that;
* `FreshInv`: nobody else inserts the id that was generated for a reply, so the PUT of
  the worker is not refused;
* `WaitInv`: no two programs wait for the same request, and the request of a program is
  at a point of what it asked for;
* `DebtInv`: the settled messages that nobody has, injected, deadlettered, discarded or
  replied to (`Gone`), together with the requests that may still take a message for a
  program that is dead (`Orphans`), are at most `faults + crashes * 2`.

`Lost` itself is not inductive: an orphan has lost nothing yet, and a message whose reply
was confirmed to nobody counts as lost although the reply may still arrive.  `EngagesNext`
shows for each action that a program with a message keeps it, passes it on, or a failure is
counted in this very step; `OrphansNext` that a request becomes an orphan only when
its program dies, which then had no message.  `LostToGone` maps a lost message to
itself, or to its reply, in `Gone`; no two go to the same one, for a reply is not
accepted when its message is lost.

Only model-checked: `EventuallyConcluded`, for the prover knows no liveness.

## 8. The alerts

`AlertStore` is `alerts.py` behind its webhook, with the Alertmanager that calls it.
`active` and `recent` are the list and the history in memory, `file` what is on disk,
`lock` the thread inside `record_webhook`, `up` whether the relay runs.  `Record` changes
memory for every alert of a webhook, `OpenFile` truncates the file (`write_text`),
`WriteFile` writes it, `WriteFails` is an `OSError` in either.  A file whose write stopped
is `cut`, and reads as an empty one, or `garbled`, when it ends inside a character (the
texts are written with `ensure_ascii=False`).  `_load` does not catch the
`UnicodeDecodeError` of the latter (`alerts.py:53-56`), nor does `RelayApp.__init__`
(`app.py:94`): after such a `Restart` the relay does not come up, at this and at every
start, until somebody removes the file.

`firing`, `notified`, `waiting` and `doubt` are Alertmanager: what fires, the last report
of an alert it got an answer for, the thread each group waits for, and whether the last
report of an alert failed or one came late.  Alertmanager groups alerts by five labels
(`deploy/monitoring/alertmanager.yml`), not by all, so a webhook may hold several: `Notify`
sends all alerts of a group that are due, in any order.  `groups` is how the alerts are
grouped, chosen among `Groupings`.  Of an alert only the fingerprint and its state are
kept.

| run | instance | shows |
| --- | --- | --- |
| `alerts` | 2 alerts, each a group of its own or both in one, a history of 2, 2 threads, 1 failed write or late webhook, 1 crash | `NewestEntryDecides`, `AcceptedIsSaved`, and under fairness `EventuallyShown` |

Two alerts and a history of two make an alert fall out of the history while it is
still listed, and a webhook of both fill it.  Two threads let a webhook that is late meet
the next one of its group, or one of the other group.  `AcceptedIsSaved` speaks of a file that is
whole: a crash during a write loses every alert, and repetition brings back what still
fires.  `EventuallyShown` therefore holds up to `Unreadable`, a relay that a garbled file
keeps from starting; it names as well an alert whose last report while it fired was not
accepted, which Alertmanager has no reason to take back.

Threads run, one that waits for the lock gets it (`SF(Record)`: webhooks
are minutes apart), and Alertmanager repeats its webhooks (`WF(Notify)`), as its
`repeat_interval` says.  The run allows a deadlock: when nothing fires, nothing happens.

### Proofs

`AlertStore_proofs` proves, under `AlertAssumption` (finitely many alerts, groupings
whose groups cover them and do not overlap, a history of at least one entry) and for any
alerts, threads and bounds, the type invariant (so the history keeps within
`max_history`), `NewestEntryDecides` and `AcceptedIsSaved`.  The inductive invariant
`IInv` adds to them

* the agreement of list and history for the *file* (`Decides(file.active,
  file.recent)`), because a restart reads it: a torn file reads as two empty parts,
  which agree;
* `ThreadInv`: whoever opens or writes the file holds the lock, a webhook lists alerts of
  one group, each once, and a thread that serves an alert is the one its group waits
  for, unless a report of that alert came late.
  So two threads never serve the same alert unless it is in doubt;
* `SavedInv`: memory says what a report says from `Record` until its answer, and memory
  and file say it together from `WriteFile` on.  `AcceptedIsSaved` alone is not
  inductive: between record and answer the file still holds the older report.

That recorded entries become the newest and that only the oldest are dropped is the
lemma `ShortenedHistory`.  `EventuallyShown` is only model-checked.

## 9. Disagreements between code and documents

| run | what |
| --- | --- |
| `relay_double_replay` | two replay commands for one message, of which the second resets a row that is no longer deadlettered (`app.py:2312`) |
| `rabbit_token_timeout` | a token that is late is taken for a request that was sent (`rabbitmq_runtime.py:155`) |
| `ingestion_torn_copy` | a crash leaves a raw processing copy that is taken for the finished one (`app.py:1313`) |
| `ingestion_cleanup` | the cleanup of a finished message deletes the file of a deadlettered one (`cleanup.py:40`) |

Without a run:

* `doc/アーキテクチャ概要.md:90` calls `DEADLETTER_A` "retries used up on the side of A", but
  a row whose TTL runs out before its injection gets there with nothing tried;
  `GiveUpIsJustified` states what holds.
* `doc/RabbitMQ移行設計.md:312-316` lists the search for the body of a message in the
  sessions of a worker among what version 2 drops; `app.py:2019-2022` does it, and
  `ReplyHasOrigin` and `TakesLookalike` say what that costs.
* Nobody documents it otherwise, but an alerts file cut inside a character keeps the relay
  from starting (section 8).

## 10. What is not modelled

See `components` in `PROJECT.json`.

* Read-only rendering (dashboard, metrics), parsing of configuration and arguments,
  logging and the audit trail decide nothing about delivery.
* Mailbox authentication is a lookup of a header in the configuration; the models
  start where it has named the mailbox.
* Health probes, tunnels and the token cache start processes and sockets; delivery
  sees of them that a token can be missing or late.
* Field parsing of envelopes, the arithmetic of the back-off and the text matching
  of the session search are pure functions of one call.  Ingestion keeps the choice
  of the key and the expiry; of a search, which requests it takes for the row's own,
  that it takes the first text of the agent after the first of them, and that it may
  miss what is there.
* `InjectExpired` stands for the TTL alone.  The other errors of the envelope and an unknown
  worker are errors of the same file and configuration that the dispatch has read
  before, where they end the row.
* Deletion by age of archive, deadletter and reply files: nothing reads them back.
* A processing file that was deleted by hand makes `Envelope.from_file` raise
  `FileNotFoundError`, which leaves `poll_once`; in the model that is a `Crash`, whose
  repetition the bound `MaxCrashes` cuts off.  An outage of the broker during
  `_consume_rabbitmq_replies` ends the relay in the same way.
