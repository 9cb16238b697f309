------------------------------ MODULE RelayLoop ------------------------------
(***************************************************************************)
(* What both transports of the relay share (app.py): the poll loop with    *)
(* its per-pass snapshot of rows, the injection of replies into gateway A, *)
(* the replay-deadletter command of another process, crashes of the relay, *)
(* and the world outside: gateway sessions, requests still in the network, *)
(* envelopes whose TTL runs out, back-off times that pass.                 *)
(*                                                                         *)
(* The relay is one thread.  "step" is the point it has reached in the     *)
(* loop body for row "cur"; each action runs it to its next commit or its  *)
(* next call to the outside, so a crash or a replay falls between any two. *)
(***************************************************************************)
EXTENDS RelayStore

CONSTANTS Operators,     \* processes running replay-deadletter
          MaxCrashes,    \* bound: crashes of the relay
          MaxReplays,    \* bound: replay-deadletter commands
          MonitorFails,  \* the remote session search may find nothing or fail
          LateArrivals   \* a request given up on may still reach the gateway

ASSUME LoopAssumption ==
    /\ MaxCrashes \in Nat
    /\ MaxReplays \in Nat
    /\ MonitorFails \in BOOLEAN
    /\ LateArrivals \in BOOLEAN

VARIABLES phase,     \* which part of poll_once runs
          batch,     \* ids of the snapshot rows the pass has not reached yet
          step,      \* point in the loop body
          cur,       \* row under work, 0 between rows
          received,  \* received[t][m]: copies in the session of gateway t
          inflight,  \* inflight[t][m]: copies sent, neither seen nor known lost
          followed,  \* followed[m]: the agent has written a text after request m
          expired,   \* expired[m]: createdAt + ttlSeconds has passed
          op,        \* progress of each replay-deadletter command
          crashes, replays

loopVars == <<phase, batch, step, cur>>
gatewayVars == <<received, inflight, followed>>
opVars == <<op, replays>>
vars == <<rowVars, loopVars, gatewayVars, opVars, expired, crashes>>

Phases == {"ingest", "dispatch", "inject"}

InjectSteps == {"confirm_a", "post_a", "timed_out_a", "succeeded_a", "done_a",
                "failed_a", "backoff_a", "giveup_a"}

OpStages == {"idle", "clear", "set"}

LoopInit ==
    /\ RowInit
    /\ phase = "ingest" /\ batch = {} /\ step = "next" /\ cur = 0
    /\ received = [t \in Targets |-> [m \in Messages |-> 0]]
    /\ inflight = [t \in Targets |-> [m \in Messages |-> 0]]
    /\ followed = [m \in Messages |-> FALSE]
    /\ expired = [m \in Messages |-> FALSE]
    /\ op = [o \in Operators |-> [stage |-> "idle", msg |-> 0, target |-> "B"]]
    /\ crashes = 0 /\ replays = 0

-----------------------------------------------------------------------------
(* Control of the single relay thread.                                     *)

Goto(s) == step' = s /\ UNCHANGED <<phase, batch, cur>>

EndRow == step' = "next" /\ cur' = 0 /\ UNCHANGED <<phase, batch>>

At(m, s) == cur = m /\ step = s

\* The loop takes the rows of its snapshot in the order of their ids.
IsNextRow(m) ==
    /\ step = "next"
    /\ m \in batch
    /\ \A n \in batch : m <= n

SkipRow(m) ==
    /\ batch' = batch \ {m}
    /\ UNCHANGED <<phase, step, cur>>

TakeRow(m, s) ==
    /\ batch' = batch \ {m}
    /\ cur' = m /\ step' = s
    /\ UNCHANGED phase

BeginPass(p, wanted) ==
    /\ phase' = p
    /\ batch' = {m \in Messages : status[m] \in wanted}
    /\ UNCHANGED <<step, cur>>

PassOver(p) == phase = p /\ step = "next" /\ batch = {}

-----------------------------------------------------------------------------
(* Ingestion reaches this module by its last commit only.                  *)

Ingest(m) ==
    /\ phase = "ingest"
    /\ status[m] = "ABSENT"
    /\ UpdateArtifact(m)
    /\ UNCHANGED <<loopVars, gatewayVars, opVars, expired, crashes>>

BeginDispatch ==
    /\ PassOver("ingest")
    /\ BeginPass("dispatch", Dispatchable)
    /\ UNCHANGED <<rowVars, gatewayVars, opVars, expired, crashes>>

\* Without a token for gateway A the whole injection pass is skipped.
SkipInject ==
    /\ PassOver("dispatch")
    /\ phase' = "ingest"
    /\ UNCHANGED <<batch, step, cur>>
    /\ UNCHANGED <<rowVars, gatewayVars, opVars, expired, crashes>>

BeginInject ==
    /\ PassOver("dispatch")
    /\ BeginPass("inject", Injectable)
    /\ UNCHANGED <<rowVars, gatewayVars, opVars, expired, crashes>>

EndPoll ==
    /\ PassOver("inject")
    /\ phase' = "ingest"
    /\ UNCHANGED <<batch, step, cur>>
    /\ UNCHANGED <<rowVars, gatewayVars, opVars, expired, crashes>>

-----------------------------------------------------------------------------
(* Requests to a gateway and what the remote session search reports.       *)

Arrives(t, m) ==
    /\ received' = [received EXCEPT ![t][m] = @ + 1]
    /\ UNCHANGED inflight

StaysInNetwork(t, m) ==
    /\ inflight' = [inflight EXCEPT ![t][m] = @ + 1]
    /\ UNCHANGED received

\* A POST that ends without a usable answer says nothing about its arrival.
PostUncertain(t, m) ==
    /\ Arrives(t, m) \/ StaysInNetwork(t, m)
    /\ UNCHANGED followed

\* find_message: is the injected text in the session of A?
MaySeeInjection(m) == received["A"][m] > 0
MayMissInjection(m) == received["A"][m] = 0 \/ MonitorFails

-----------------------------------------------------------------------------
(* _inject_replied_messages, row by row.                                   *)

InjectSkip(m) ==
    /\ phase = "inject" /\ IsNextRow(m)
    /\ ~due[m] \/ ~reply[m]
    /\ SkipRow(m)
    /\ UNCHANGED <<rowVars, gatewayVars, opVars, expired, crashes>>

InjectReady(m) ==
    /\ phase = "inject" /\ IsNextRow(m)
    /\ due[m] /\ reply[m]

\* Envelope.from_file fails on an expired envelope: no attempt is made.  (Its other
\* errors, and an unknown worker, have ended the dispatch of the same file before.)
InjectExpired(m) ==
    /\ InjectReady(m) /\ expired[m]
    /\ UpdateStatus(m, "DEADLETTER_A")
    /\ SkipRow(m)
    /\ UNCHANGED <<gatewayVars, opVars, expired, crashes>>

InjectStart(m) ==
    /\ InjectReady(m) /\ ~expired[m]
    /\ TakeRow(m, IF CountAttempts(m, "A") > 0 THEN "confirm_a" ELSE "post_a")
    /\ UNCHANGED <<rowVars, gatewayVars, opVars, expired, crashes>>

ConfirmInjection(m) ==
    /\ At(m, "confirm_a")
    /\ \/ /\ MaySeeInjection(m)
          /\ Goto("succeeded_a")
          /\ UNCHANGED rowVars
       \/ /\ MayMissInjection(m)
          /\ CountAttempts(m, "A") < MaxAttemptsA
          /\ Goto("post_a")
          /\ UNCHANGED rowVars
       \/ /\ MayMissInjection(m)
          /\ CountAttempts(m, "A") >= MaxAttemptsA
          /\ UpdateStatus(m, "DEADLETTER_A")
          /\ EndRow
    /\ UNCHANGED <<gatewayVars, opVars, expired, crashes>>

PostInjection(m) ==
    /\ At(m, "post_a")
    /\ \/ /\ Arrives("A", m) /\ UNCHANGED followed
          /\ Goto("succeeded_a")
       \/ /\ PostUncertain("A", m)
          /\ step' \in {"timed_out_a", "failed_a"}
          /\ UNCHANGED <<phase, batch, cur>>
    /\ UNCHANGED <<rowVars, opVars, expired, crashes>>

\* Mutant of ConfirmTimedOutInjection: a timeout counts as delivery.
TrustTimedOutInjection(m) ==
    /\ At(m, "timed_out_a")
    /\ Goto("succeeded_a")
    /\ UNCHANGED <<rowVars, gatewayVars, opVars, expired, crashes>>

ConfirmTimedOutInjection(m) ==
    /\ At(m, "timed_out_a")
    /\ \/ MaySeeInjection(m) /\ Goto("succeeded_a")
       \/ MayMissInjection(m) /\ Goto("failed_a")
    /\ UNCHANGED <<rowVars, gatewayVars, opVars, expired, crashes>>

RecordInjectionSuccess(m) ==
    /\ At(m, "succeeded_a")
    /\ RecordAttempt(m, "A", "SUCCESS")
    /\ Goto("done_a")
    /\ UNCHANGED <<gatewayVars, opVars, expired, crashes>>

\* Mutant of MarkDone: a status no other part of the program knows.
MarkCompleted(m) ==
    /\ At(m, "done_a")
    /\ UpdateStatus(m, "COMPLETED")
    /\ EndRow
    /\ UNCHANGED <<gatewayVars, opVars, expired, crashes>>

MarkDone(m) ==
    /\ At(m, "done_a")
    /\ UpdateStatus(m, "DONE")
    /\ EndRow
    /\ UNCHANGED <<gatewayVars, opVars, expired, crashes>>

\* Mutant of RecordInjectionFailure: gives up one attempt early.
RecordInjectionFailureEarly(m) ==
    /\ At(m, "failed_a")
    /\ RecordAttempt(m, "A", "FAILED")
    /\ Goto(IF NextAttemptNo(m, "A") >= MaxAttemptsA - 1 THEN "giveup_a" ELSE "backoff_a")
    /\ UNCHANGED <<gatewayVars, opVars, expired, crashes>>

RecordInjectionFailure(m) ==
    /\ At(m, "failed_a")
    /\ RecordAttempt(m, "A", "FAILED")
    /\ Goto(IF NextAttemptNo(m, "A") >= MaxAttemptsA THEN "giveup_a" ELSE "backoff_a")
    /\ UNCHANGED <<gatewayVars, opVars, expired, crashes>>

\* Mutant of ConcludeInjectionFailure: the retry is queued on the side of B.
ConcludeInjectionFailureAtB(m) ==
    /\ \/ At(m, "giveup_a") /\ UpdateStatus(m, "DEADLETTER_A")
       \/ At(m, "backoff_a") /\ UpdateStatusLater(m, "FAILED_B")
    /\ EndRow
    /\ UNCHANGED <<gatewayVars, opVars, expired, crashes>>

ConcludeInjectionFailure(m) ==
    /\ \/ At(m, "giveup_a") /\ UpdateStatus(m, "DEADLETTER_A")
       \/ At(m, "backoff_a") /\ UpdateStatusLater(m, "FAILED_A_INJECTION")
    /\ EndRow
    /\ UNCHANGED <<gatewayVars, opVars, expired, crashes>>

Inject(m) ==
    \/ InjectSkip(m) \/ InjectExpired(m) \/ InjectStart(m)
    \/ ConfirmInjection(m) \/ PostInjection(m) \/ ConfirmTimedOutInjection(m)
    \/ RecordInjectionSuccess(m) \/ MarkDone(m)
    \/ RecordInjectionFailure(m) \/ ConcludeInjectionFailure(m)

-----------------------------------------------------------------------------
(* find_message_reply: what the sessions of the worker show of request m.   *)
(* The reply is the first text of the agent that stands after the request: *)
(* the code does not ask what that text answers.  The requests of the      *)
(* relay share a session, so it may answer another one or be an            *)
(* intermediate remark; followed[m] says no more than that it stands there. *)

\* Mutant of MaySeeReply: the text need not be one of the agent, so that the
\* request is its own reply.
MaySeeAnyText(m) == received["B"][m] > 0

MaySeeReply(m) == received["B"][m] > 0 /\ followed[m]
MaySeeRequest(m) == received["B"][m] > 0 /\ ~followed[m]
MayMissRequest(m) == received["B"][m] = 0 \/ MonitorFails

-----------------------------------------------------------------------------
(* _dispatch_reserved_messages: the head of the loop body and the end of a  *)
(* failed attempt, which both transports share.                            *)

DispatchReady(m) == phase = "dispatch" /\ IsNextRow(m) /\ due[m]

DispatchSkip(m) ==
    /\ phase = "dispatch" /\ IsNextRow(m)
    /\ ~due[m]
    /\ SkipRow(m)
    /\ UNCHANGED <<rowVars, gatewayVars, opVars, expired, crashes>>

DispatchExhausted(m) ==
    /\ DispatchReady(m) /\ RetryExhausted(m, "B")
    /\ UpdateStatus(m, "DEADLETTER_B")
    /\ SkipRow(m)
    /\ UNCHANGED <<gatewayVars, opVars, expired, crashes>>

\* Mutant of DispatchExpired: the expired envelope is put off, no attempt counted.
DispatchExpiredUncounted(m) ==
    /\ DispatchReady(m) /\ ~RetryExhausted(m, "B")
    /\ expired[m]
    /\ UpdateStatusLater(m, "FAILED_B")
    /\ SkipRow(m)
    /\ UNCHANGED <<gatewayVars, opVars, expired, crashes>>

\* An expired envelope costs an attempt like a failed request; here the limit
\* is compared with attempt_no, which counts successful attempts as well.
DispatchExpired(m) ==
    /\ DispatchReady(m) /\ ~RetryExhausted(m, "B")
    /\ expired[m]
    /\ RecordAttempt(m, "B", "FAILED")
    /\ TakeRow(m, IF NextAttemptNo(m, "B") >= MaxAttemptsB THEN "giveup_b" ELSE "backoff_b")
    /\ UNCHANGED <<gatewayVars, opVars, expired, crashes>>

\* Mutant of RecordDispatchFailure: the retry is scheduled, the attempt forgotten.
ForgetDispatchFailure(m) ==
    /\ At(m, "failed_b")
    /\ Goto("recorded_b")
    /\ UNCHANGED <<rowVars, gatewayVars, opVars, expired, crashes>>

\* _schedule_b_retry
RecordDispatchFailure(m) ==
    /\ At(m, "failed_b")
    /\ RecordAttempt(m, "B", "FAILED")
    /\ Goto("recorded_b")
    /\ UNCHANGED <<gatewayVars, opVars, expired, crashes>>

DecideDispatchRetry(m) ==
    /\ At(m, "recorded_b")
    /\ Goto(IF RetryExhausted(m, "B") THEN "giveup_b" ELSE "backoff_b")
    /\ UNCHANGED <<rowVars, gatewayVars, opVars, expired, crashes>>

ConcludeDispatchFailure(m) ==
    /\ \/ At(m, "giveup_b") /\ UpdateStatus(m, "DEADLETTER_B")
       \/ /\ At(m, "backoff_b") \/ At(m, "await_b")
          /\ UpdateStatusLater(m, "FAILED_B")
    /\ EndRow
    /\ UNCHANGED <<gatewayVars, opVars, expired, crashes>>

-----------------------------------------------------------------------------
(* replay_deadletter: one read and two commits of a separate process.      *)

ReplayRead(o, m) ==
    /\ replays < MaxReplays
    /\ op[o].stage = "idle"
    /\ status[m] \in Deadletters
    /\ op' = [op EXCEPT ![o] = [stage |-> "clear", msg |-> m,
                                target |-> IF status[m] = "DEADLETTER_B" THEN "B" ELSE "A"]]
    /\ replays' = replays + 1
    /\ UNCHANGED <<rowVars, loopVars, gatewayVars, expired, crashes>>

ReplayClear(o) ==
    /\ op[o].stage = "clear"
    /\ ClearAttempts(op[o].msg, op[o].target)
    /\ op' = [op EXCEPT ![o].stage = "set"]
    /\ UNCHANGED <<replays, loopVars, gatewayVars, expired, crashes>>

\* Mutant of ReplaySet: every deadletter is replayed from the start.
ReplayFromStart(o) ==
    /\ op[o].stage = "set"
    /\ UpdateStatus(op[o].msg, "RESERVED")
    /\ op' = [op EXCEPT ![o] = [stage |-> "idle", msg |-> 0, target |-> "B"]]
    /\ UNCHANGED <<replays, loopVars, gatewayVars, expired, crashes>>

ReplaySet(o) ==
    /\ op[o].stage = "set"
    /\ UpdateStatus(op[o].msg, IF op[o].target = "B" THEN "RESERVED" ELSE "B_REPLIED")
    /\ op' = [op EXCEPT ![o] = [stage |-> "idle", msg |-> 0, target |-> "B"]]
    /\ UNCHANGED <<replays, loopVars, gatewayVars, expired, crashes>>

-----------------------------------------------------------------------------
(* The relay process dies (or an exception leaves poll_once) and systemd   *)
(* starts it again: everything but the database and the spool is gone.     *)

Crash ==
    /\ crashes < MaxCrashes
    /\ crashes' = crashes + 1
    /\ phase' = "ingest" /\ batch' = {} /\ step' = "next" /\ cur' = 0
    /\ UNCHANGED <<rowVars, gatewayVars, opVars, expired>>

(* The world outside.                                                      *)

Expire(m) ==
    /\ status[m] # "ABSENT" /\ ~expired[m]
    /\ expired' = [expired EXCEPT ![m] = TRUE]
    /\ UNCHANGED <<rowVars, loopVars, gatewayVars, opVars, crashes>>

BackoffElapses(m) ==
    /\ ~due[m]
    /\ due' = [due EXCEPT ![m] = TRUE]
    /\ UNCHANGED <<status, reply, attempts>>
    /\ UNCHANGED <<loopVars, gatewayVars, opVars, expired, crashes>>

\* The agent writes a text into the session in which request m stands: an answer
\* to m, to another request of that session, or a remark on the way to either.
WorkerWrites(m) ==
    /\ received["B"][m] > 0 /\ ~followed[m]
    /\ followed' = [followed EXCEPT ![m] = TRUE]
    /\ UNCHANGED <<received, inflight>>
    /\ UNCHANGED <<rowVars, loopVars, opVars, expired, crashes>>

LateArrival(t, m) ==
    /\ LateArrivals
    /\ inflight[t][m] > 0
    /\ inflight' = [inflight EXCEPT ![t][m] = @ - 1]
    /\ received' = [received EXCEPT ![t][m] = @ + 1]
    /\ UNCHANGED followed
    /\ UNCHANGED <<rowVars, loopVars, opVars, expired, crashes>>

Replay ==
    \E o \in Operators :
        \/ \E m \in Messages : ReplayRead(o, m)
        \/ ReplayClear(o)
        \/ ReplaySet(o)

World(m) ==
    \/ Ingest(m) \/ Expire(m) \/ BackoffElapses(m) \/ WorkerWrites(m)
    \/ \E t \in Targets : LateArrival(t, m)

-----------------------------------------------------------------------------
(* Properties of both transports.                                          *)

Sent(t, m) == received[t][m] + inflight[t][m]

\* An operator has begun to reset m: its attempts may be gone already.
BeingReplayed(m) == \E o \in Operators : op[o].stage # "idle" /\ op[o].msg = m

\* A row is DONE only when the reply stands in the session of gateway A, however
\* the injection was concluded: by its response, or by a session search after a
\* timeout, a crash or a retry (app.py, _inject_replied_messages).
DoneIsDelivered ==
    \A m \in Messages : status[m] = "DONE" => received["A"][m] > 0

\* Rows reach the injection half with a reply, and a reply is stored, or sent to A,
\* only when the worker has the request and its agent wrote a text after it, over
\* all timeouts, searches of the session log, crashes and replays.  That the text
\* answers this request is not promised: the search does not look at it.
ReplyFollowsRequest ==
    \A m \in Messages :
        /\ status[m] \in Injectable \union {"DONE", "DEADLETTER_A"} => reply[m]
        /\ reply[m] => followed[m]
        /\ Sent("A", m) > 0 => reply[m]

\* The relay gives up on a worker only when attempts are used up (an expired
\* envelope uses them up too), and on gateway A only then or once the TTL is over.
GiveUpIsJustified ==
    \A m \in Messages : ~BeingReplayed(m) =>
        /\ status[m] = "DEADLETTER_B" => CountAttempts(m, "B") >= MaxAttemptsB
        /\ status[m] = "DEADLETTER_A" =>
               expired[m] \/ CountAttempts(m, "A") >= MaxAttemptsA

\* Once the reply is stored the worker is not asked again; a failed injection
\* retries the injection alone (doc: Relay開発手順.md, Phase 5).
NoRedispatch ==
    [][\A m \in Messages : Sent("B", m)' > Sent("B", m) => ~reply[m]]_vars

\* A message that was accepted is finished or given up in the end.
EventuallySettled ==
    \A m \in Messages : status[m] \in Dispatchable \union Queued \union Injectable ~> status[m] \in Settled

-----------------------------------------------------------------------------
(* The abstract round trip.                                                *)

StageOf(s) ==
    CASE s = "ABSENT" -> "absent"
      [] s \in Dispatchable \union Queued -> "pending"
      [] s \in Injectable -> "replied"
      [] s = "DONE" -> "done"
      [] s = "DEADLETTER_B" -> "dead_b"
      [] s = "DEADLETTER_A" -> "dead_a"

Lifecycle == INSTANCE MessageLifecycle WITH
    stage <- [m \in Messages |-> StageOf(status[m])],
    followed <- {m \in Messages : followed[m]},
    delivered <- {m \in Messages : received["A"][m] > 0}

\* The relay implements the abstract round trip.
ImplementsLifecycle == Lifecycle!Spec
=============================================================================
