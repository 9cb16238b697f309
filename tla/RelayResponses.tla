--------------------------- MODULE RelayResponses ---------------------------
(***************************************************************************)
(* The relay with transport "responses": _dispatch_reserved_messages posts *)
(* each row to its worker over HTTP, waits for the answer in the same      *)
(* request, and after a timeout or on a retry first asks the session log   *)
(* of the worker whether the request arrived and a text follows it.        *)
(***************************************************************************)
EXTENDS RelayLoop

DispatchSteps == {"confirm_b", "post_b", "timed_out_b", "got_reply", "got_no_text",
                  "found_reply", "store_reply", "store_found", "seen_b", "await_b",
                  "failed_b", "recorded_b", "backoff_b", "giveup_b"}

Steps == {"next"} \union DispatchSteps \union InjectSteps

TypeOK ==
    /\ RowTypeOK
    /\ phase \in Phases
    /\ batch \subseteq Messages
    /\ step \in Steps
    /\ cur \in Messages \union {0}
    /\ received \in [Targets -> [Messages -> Nat]]
    /\ inflight \in [Targets -> [Messages -> Nat]]
    /\ followed \in [Messages -> BOOLEAN]
    /\ expired \in [Messages -> BOOLEAN]
    /\ op \in [Operators -> [stage : OpStages, msg : Messages \union {0}, target : Targets]]
    /\ crashes \in Nat /\ replays \in Nat

Init == LoopInit

-----------------------------------------------------------------------------
(* The rest of the loop body, once a row is due and has attempts left.     *)

DispatchNoToken(m) ==
    /\ DispatchReady(m) /\ ~RetryExhausted(m, "B")
    /\ ~expired[m]
    /\ SkipRow(m)
    /\ UNCHANGED <<rowVars, gatewayVars, opVars, expired, crashes>>

\* Mutant of DispatchStart: a retry is sent without asking the session log.
DispatchUnconfirmed(m) ==
    /\ DispatchReady(m) /\ ~RetryExhausted(m, "B")
    /\ ~expired[m]
    /\ TakeRow(m, "post_b")
    /\ UNCHANGED <<rowVars, gatewayVars, opVars, expired, crashes>>

DispatchStart(m) ==
    /\ DispatchReady(m) /\ ~RetryExhausted(m, "B")
    /\ ~expired[m]
    /\ TakeRow(m, IF CountAttempts(m, "B") > 0 THEN "confirm_b" ELSE "post_b")
    /\ UNCHANGED <<rowVars, gatewayVars, opVars, expired, crashes>>

\* A request that was tried before: it is not repeated while the session shows it.
ConfirmDispatch(m) ==
    /\ At(m, "confirm_b")
    /\ \/ MaySeeReply(m) /\ Goto("found_reply") /\ UNCHANGED rowVars
       \/ /\ MaySeeRequest(m)
          /\ UpdateStatusLater(m, "FAILED_B")
          /\ EndRow
       \/ MayMissRequest(m) /\ Goto("post_b") /\ UNCHANGED rowVars
    /\ UNCHANGED <<gatewayVars, opVars, expired, crashes>>

-----------------------------------------------------------------------------
(* The request and its outcomes.                                           *)

PostDispatch(m) ==
    /\ At(m, "post_b")
    /\ \/ /\ Arrives("B", m)
          /\ followed' = [followed EXCEPT ![m] = TRUE]
          /\ Goto("got_reply")
       \/ /\ Arrives("B", m) /\ UNCHANGED followed
          /\ Goto("got_no_text")
       \/ /\ PostUncertain("B", m)
          /\ step' \in {"timed_out_b", "failed_b"}
          /\ UNCHANGED <<phase, batch, cur>>
    /\ UNCHANGED <<rowVars, opVars, expired, crashes>>

ConfirmTimedOutDispatch(m) ==
    /\ At(m, "timed_out_b")
    /\ \/ MaySeeReply(m) /\ Goto("found_reply")
       \/ MaySeeRequest(m) /\ Goto("seen_b")
       \/ MayMissRequest(m) /\ Goto("failed_b")
    /\ UNCHANGED <<rowVars, gatewayVars, opVars, expired, crashes>>

\* The success of the request is recorded before its text is extracted, so a
\* response without text leaves a SUCCESS and a FAILED attempt behind.
RecordDispatchSuccess(m) ==
    /\ \/ At(m, "got_reply") /\ Goto("store_reply")
       \/ At(m, "found_reply") /\ Goto("store_found")
       \/ At(m, "got_no_text") /\ Goto("failed_b")
    /\ RecordAttempt(m, "B", "SUCCESS")
    /\ UNCHANGED <<gatewayVars, opVars, expired, crashes>>

StoreReply(m) ==
    /\ At(m, "store_reply") \/ At(m, "store_found")
    /\ UpdateReply(m)
    /\ EndRow
    /\ UNCHANGED <<gatewayVars, opVars, expired, crashes>>

\* Writing the artifact fails inside the try block: a retry like any other.
StoreReplyFails(m) ==
    /\ At(m, "store_reply")
    /\ Goto("failed_b")
    /\ UNCHANGED <<rowVars, gatewayVars, opVars, expired, crashes>>

\* Timed out, but the worker has the request: the failure counts, the row waits.
RecordSeenRequest(m) ==
    /\ At(m, "seen_b")
    /\ RecordAttempt(m, "B", "FAILED")
    /\ Goto("await_b")
    /\ UNCHANGED <<gatewayVars, opVars, expired, crashes>>

Dispatch(m) ==
    \/ DispatchSkip(m) \/ DispatchExhausted(m) \/ DispatchExpired(m)
    \/ DispatchNoToken(m) \/ DispatchStart(m)
    \/ ConfirmDispatch(m) \/ PostDispatch(m) \/ ConfirmTimedOutDispatch(m)
    \/ RecordDispatchSuccess(m) \/ StoreReply(m) \/ StoreReplyFails(m)
    \/ RecordSeenRequest(m) \/ RecordDispatchFailure(m) \/ DecideDispatchRetry(m)
    \/ ConcludeDispatchFailure(m)

-----------------------------------------------------------------------------
\* With this transport the passes over broker replies and queued rows return
\* at once, so injection follows dispatch.
PollStep ==
    \/ BeginDispatch \/ BeginInject \/ SkipInject \/ EndPoll
    \/ \E m \in Messages : Dispatch(m) \/ Inject(m)

Next ==
    \/ PollStep
    \/ \E m \in Messages : World(m)
    \/ Replay
    \/ Crash

Spec == Init /\ [][Next]_vars

\* The poll thread keeps running; time passes; a token for gateway A can be
\* had again and again.  Nothing is assumed of workers, networks or operators.
Fairness ==
    /\ WF_vars(PollStep)
    /\ SF_vars(BeginInject)
    /\ \A m \in Messages : WF_vars(Expire(m)) /\ WF_vars(BackoffElapses(m))

FairSpec == Spec /\ Fairness

-----------------------------------------------------------------------------
(* Properties.                                                             *)

\* Failures recorded since the last replay never exceed the configured limits,
\* whatever path recorded them and wherever a crash cut the path short.
RetryBudget ==
    \A m \in Messages, t \in Targets : attempts[m][t]["FAILED"] <= MaxAttempts(t)

\* Copies sent to one gateway are bounded by the attempts of all replays and by
\* one more per crash: no combination of timeouts, unreadable session logs,
\* empty responses and restarts makes the relay flood a gateway.
SendsAreBounded ==
    \A m \in Messages, t \in Targets :
        Sent(t, m) <= MaxAttempts(t) * (1 + replays) + crashes

\* With session logs that can be searched and show every request that arrived,
\* and without crash or replay, no gateway ever holds a request twice: retries
\* and timeouts are confirmed before anything is sent again.
AtMostOnce ==
    \A m \in Messages, t \in Targets : received[t][m] <= 1

-----------------------------------------------------------------------------
(* What documents and messages of the program say and the code departs     *)
(* from; each is refuted by a run of its own.                              *)

\* Only deadlettered messages can be replayed (the error replay_deadletter raises
\* otherwise).  The status is read first and written in a later transaction, so
\* of two commands for one message the later resets whatever the relay has made
\* of it by then.
OnlyDeadlettersAreReplayed ==
    [][\A o \in Operators : ReplaySet(o) => status[op[o].msg] \in Deadletters]_vars

-----------------------------------------------------------------------------
(* The inductive invariant behind the safety properties, for a single      *)
(* operator.                                                               *)

\* Where the thread is, and that its rows still have the status they were
\* picked for.
ThreadInv ==
    /\ step = "next" <=> cur = 0
    /\ step \in DispatchSteps => phase = "dispatch"
    /\ step \in InjectSteps => phase = "inject"
    /\ phase = "ingest" => batch = {}
    /\ cur \notin batch
    /\ \A m \in batch \union ({cur} \ {0}) :
           /\ phase = "dispatch" => status[m] \in Dispatchable
           /\ phase = "inject" => status[m] \in Injectable

\* A replay in progress finds its row as it read it.
ReplayInv ==
    \A o \in Operators : op[o].stage # "idle" =>
        /\ op[o].msg \in Messages
        /\ status[op[o].msg] = IF op[o].target = "B" THEN "DEADLETTER_B" ELSE "DEADLETTER_A"

\* What the stored reply says of the gateways.
ReplyInv ==
    /\ \A m \in Messages :
           /\ reply[m] <=> status[m] \in Injectable \union {"DONE", "DEADLETTER_A"}
           /\ reply[m] => followed[m]
           /\ Sent("A", m) > 0 => reply[m]
           /\ Sent("B", m) > 0 => status[m] # "ABSENT"
           /\ status[m] = "DONE" => received["A"][m] > 0
    /\ step \in {"got_reply", "found_reply", "store_reply", "store_found"} => followed[cur]
    /\ step \in {"succeeded_a", "done_a"} => received["A"][cur] > 0

\* Attempts left when a failure may still be recorded, used up when given up.
BudgetInv ==
    /\ RetryBudget
    /\ GiveUpIsJustified
    /\ step \in {"confirm_b", "post_b", "timed_out_b", "got_reply", "got_no_text",
                 "found_reply", "store_reply", "seen_b", "failed_b"}
           => ~RetryExhausted(cur, "B")
    /\ step \in {"post_a", "timed_out_a", "failed_a"} => CountAttempts(cur, "A") < MaxAttemptsA
    /\ step = "giveup_b" => CountAttempts(cur, "B") >= MaxAttemptsB
    /\ step = "giveup_a" => CountAttempts(cur, "A") >= MaxAttemptsA

\* Replays are issued by one operator at a time.
OneOperator == \A o, p \in Operators : o = p

IInv == TypeOK /\ ThreadInv /\ ReplayInv /\ ReplyInv /\ BudgetInv

-----------------------------------------------------------------------------
(* How copies sent relate to the attempts on record, for a single operator. *)

Tried(m, t) == IF t = "B" THEN attempts[m]["B"]["FAILED"] ELSE CountAttempts(m, "A")

\* A copy may have been sent for which no attempt is on record yet, or none at B is
\* needed any more.
Posted(m, t) ==
    IF t = "B"
    THEN \/ reply[m]
         \/ cur = m /\ step \in {"timed_out_b", "got_reply", "got_no_text", "found_reply",
                                 "store_reply", "store_found", "seen_b", "failed_b"}
    ELSE cur = m /\ step \in {"timed_out_a", "succeeded_a", "failed_a"}

Spent(m, t) == Tried(m, t) + (IF Posted(m, t) THEN 1 ELSE 0)

\* Replays that have cleared the attempts of their row.
Cleared == IF \E o \in Operators : op[o].stage = "clear" THEN replays - 1 ELSE replays

\* Each copy sent is paid for by an attempt, by a replay that cleared one, or by a crash
\* that came before the attempt was recorded.
SendsInv ==
    /\ \A o \in Operators : op[o].stage = "clear" => replays > 0
    /\ \A m \in Messages, t \in Targets :
           /\ Sent(t, m) <= Spent(m, t) + MaxAttempts(t) * Cleared + crashes
           /\ Sent(t, m) <= MaxAttempts(t) + MaxAttempts(t) * Cleared + crashes

-----------------------------------------------------------------------------
(* Why no copy is sent twice while nothing goes wrong but the network.     *)

NothingFails == ~MonitorFails /\ ~LateArrivals /\ MaxCrashes = 0 /\ MaxReplays = 0

\* Between the request and the record of its attempt.
UnderWay(m, t) ==
    /\ cur = m
    /\ step \in IF t = "B"
                THEN {"timed_out_b", "got_reply", "got_no_text", "found_reply", "seen_b", "failed_b"}
                ELSE {"timed_out_a", "succeeded_a", "failed_a"}

\* A copy in a session has an attempt on record, or is about to have one; what is about
\* to be sent is in no session.
OnceInv ==
    /\ AtMostOnce
    /\ \A o \in Operators : op[o].stage = "idle"
    /\ \A m \in Messages, t \in Targets :
           received[t][m] > 0 => CountAttempts(m, t) > 0 \/ UnderWay(m, t)
    /\ \A m \in Messages : At(m, "post_b") => received["B"][m] = 0
    /\ \A m \in Messages : At(m, "post_a") => received["A"][m] = 0

=============================================================================
