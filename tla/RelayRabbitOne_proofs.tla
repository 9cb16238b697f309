----------------------- MODULE RelayRabbitOne_proofs -----------------------
(***************************************************************************)
(* What holds of the relay with transport "rabbitmq" when one operator     *)
(* runs replay-deadletter at a time: attempts stay within their limits,    *)
(* the relay implements MessageLifecycle but for two departures, and the   *)
(* worker is run no more often than attempts and faults account for.       *)
(***************************************************************************)
EXTENDS RelayRabbit_proofs, FiniteSetTheorems

-----------------------------------------------------------------------------
(* The second part of the invariant, for a single operator.                *)

\* The row the relay works on, and those it still has to reach, keep the status they
\* were picked for; so does the row of a replay.
LEMMA StatusNext ==
  ASSUME OneOperator, IInv, StatusInv, [RabbitNext]_allVars
  PROVE  StatusInv'
<1> USE DEF rowVars, loopVars, gatewayVars, opVars, brokerVars, jobVars, consumerVars,
        rabbitVars, Goto, EndRow, SkipRow, TakeRow, At
<1>t. /\ RowTypeOK /\ status \in [Messages -> Statuses]
      /\ cur \in Messages \union {0} /\ batch \subseteq Messages
      /\ op \in [Operators -> [stage : OpStages, msg : Messages \union {0}, target : Targets]]
      /\ \A o \in Operators : op[o].stage # "idle" => op[o].msg \in Messages
      /\ step \in RabbitSteps
  BY DEF IInv, RabbitTypeOK, RowTypeOK, AnswerInv, KnownInv
<1>c. /\ step = "next" <=> cur = 0
      /\ step \in DispatchSteps => phase = "dispatch"
      /\ step \in ReplySteps => phase = "consume"
      /\ step \in InjectSteps => phase = "inject"
  BY DEF IInv, ControlInv
<1>n. Messages \subseteq Nat \ {0}
  BY StoreAssumption
<1>0. \A s \in {"RESERVED", "FAILED_B", "QUEUED_B", "B_REPLIED", "FAILED_A_INJECTION", "DONE",
               "DEADLETTER_B", "DEADLETTER_A"} : s \in Statuses
  BY DEF Statuses, Dispatchable, Queued, Injectable, Settled, Deadletters
<1> DEFINE Picked == /\ phase \in {"ingest", "consume"} => batch = {}
                     /\ cur \notin batch
                     /\ \A m \in batch \union ({cur} \ {0}) :
                            /\ phase = "dispatch" => status[m] \in Dispatchable
                            /\ phase = "collect" => status[m] \in Queued
                            /\ phase = "inject" => status[m] \in Injectable
           Open == step \in {"backoff_reply", "giveup_reply"} => status[cur] \notin Concluded
           Ops == \A o \in Operators : op[o].stage # "idle" =>
                      status[op[o].msg] = IF op[o].target = "B" THEN "DEADLETTER_B" ELSE "DEADLETTER_A"
           Moves == \/ cur' = 0 \/ cur' = cur \/ (cur' \in batch /\ cur' \notin batch')
           Goal == Picked' /\ Open' /\ Ops'
<1>p. Picked /\ Open /\ Ops
  BY DEF StatusInv
<1> SUFFICES Goal
  BY DEF StatusInv
\* Rows other than those of a replay move, and only behind the relay.
<1>f. ASSUME UNCHANGED <<op, phase>>, batch' \subseteq batch, Moves,
             \A k \in Messages : status'[k] = status[k] \/
                 (status[k] \notin Deadletters /\ k \notin batch' /\ (k # cur' \/ phase = "consume")),
             step' \notin {"backoff_reply", "giveup_reply"} \/ (UNCHANGED <<step, cur, status>>)
      PROVE  Goal
  <2>1. Picked'
    BY <1>f, <1>p, <1>t, <1>n
  <2>2. Open'
    BY <1>f, <1>p
  <2>3. Ops'
    BY <1>f, <1>p, <1>t DEF Deadletters
  <2> QED BY <2>1, <2>2, <2>3
<1>x. ASSUME UNCHANGED <<status, op, phase>>, batch' \subseteq batch, Moves,
             step' \notin {"backoff_reply", "giveup_reply"} \/ (UNCHANGED <<step, cur>>)
      PROVE  Goal
  BY <1>x, <1>f
\* A pass begins.
<1>b. ASSUME UNCHANGED <<status, op>>, cur' = 0, step' = "next",
             \/ phase' \in {"ingest", "consume"} /\ batch' = {}
             \/ phase' = "inject" /\ batch' = {}
             \/ phase' = "dispatch" /\ batch' = {m \in Messages : status[m] \in Dispatchable}
             \/ phase' = "collect" /\ batch' = {m \in Messages : status[m] \in Queued}
             \/ phase' = "inject" /\ batch' = {m \in Messages : status[m] \in Injectable}
      PROVE  Goal
  <2>1. Picked'
    BY <1>b, <1>n
  <2> QED BY <1>b, <1>p, <2>1
<1> HIDE DEF Picked, Open, Ops
<1>u. ASSUME NEW m \in Messages,
             NEW s \in {"RESERVED", "FAILED_B", "QUEUED_B", "B_REPLIED", "FAILED_A_INJECTION", "DONE",
                        "DEADLETTER_B", "DEADLETTER_A"},
             UpdateStatus(m, s) \/ UpdateStatusLater(m, s),
             status[m] \notin Deadletters, m \notin batch', m # cur' \/ phase = "consume",
             UNCHANGED <<op, phase>>, batch' \subseteq batch, Moves,
             step' \notin {"backoff_reply", "giveup_reply"}
      PROVE  Goal
  <2>1. \A k \in Messages : status'[k] = IF k = m THEN s ELSE status[k]
    BY <1>u, <1>0, <1>t, UpdateStatusEffect
  <2> QED BY <1>u, <2>1, <1>f
<1>d. /\ \A m \in batch \union ({cur} \ {0}) : phase \in {"dispatch", "collect", "inject"} =>
             status[m] \notin Deadletters
      /\ \A m \in Messages : status[m] \notin Concluded => status[m] \notin Deadletters
  BY <1>p DEF Picked, Dispatchable, Queued, Injectable, Deadletters, Concluded
<1> HIDE DEF Goal
<1>1. ASSUME NEW m \in Messages, PublishDispatch(m) PROVE Goal
  <2>0. /\ UNCHANGED <<op, phase>> /\ batch' \subseteq batch /\ Moves
        /\ step' \notin {"backoff_reply", "giveup_reply"}
    BY <1>1, <1>c, <1>n DEF PublishDispatch, PublishRequest, RecordPublication, MarkQueued, DispatchSkip,
       DispatchExhausted, DispatchExpired, RecordDispatchFailure, DecideDispatchRetry,
       ConcludeDispatchFailure, PublishReady, DispatchReady, IsNextRow
  <2>1. CASE UNCHANGED status
    BY <2>0, <2>1, <1>x
  <2>2. CASE DispatchExhausted(m)
    BY <2>0, <2>2, <1>d, <1>c, <1>n, <1>u DEF DispatchExhausted, DispatchReady, IsNextRow
  <2>3. CASE MarkQueued(m) \/ ConcludeDispatchFailure(m)
    <3>1. cur = m /\ phase = "dispatch" /\ cur' = 0 /\ batch' = batch
      BY <2>3, <1>c DEF MarkQueued, ConcludeDispatchFailure, DispatchSteps
    <3>2. status[m] \notin Deadletters /\ m \notin batch
      BY <3>1, <1>d, <1>n, <1>p DEF Picked
    <3> QED BY <2>0, <2>3, <3>1, <3>2, <1>n, <1>u DEF MarkQueued, ConcludeDispatchFailure
  <2> QED BY <1>1, <2>1, <2>2, <2>3 DEF PublishDispatch, PublishRequest, RecordPublication,
          DispatchSkip, DispatchExpired, RecordDispatchFailure, DecideDispatchRetry, RecordAttempt
<1>2. ASSUME NEW m \in Messages, ConsumeReplies(m) PROVE Goal
  <2>p. phase = "consume" /\ batch = {}
    BY <1>2, <1>c, <1>p DEF ConsumeReplies, TakeReply, IgnoreReply, StoreBrokerReply, RecordErrorReply,
       ConcludeErrorReply, AckReply, PutBackReply, ReplySteps, Picked
  <2>1. CASE TakeReply(m)
    <3>1. Picked' /\ Open' /\ Ops'
      BY <2>p, <2>1, <1>p DEF TakeReply, Picked, Open, Ops
    <3> QED BY <3>1 DEF Goal
  <2>2. CASE IgnoreReply(m) \/ AckReply(m)
    BY <2>2, <1>x DEF IgnoreReply, AckReply
  <2>3. CASE StoreBrokerReply(m)
    <3>1. \A k \in Messages : status'[k] = IF k = m THEN "B_REPLIED" ELSE status[k]
      BY <2>3, <1>t, UpdateReplyEffect DEF StoreBrokerReply
    <3> QED BY <2>p, <2>3, <3>1, <1>d, <1>f DEF StoreBrokerReply
  <2>4. CASE RecordErrorReply(m)
    <3>1. Picked' /\ Open' /\ Ops'
      BY <2>p, <2>4, <1>p DEF RecordErrorReply, RecordAttempt, Picked, Open, Ops
    <3> QED BY <3>1 DEF Goal
  <2>5. CASE ConcludeErrorReply(m)
    <3>1. status[m] \notin Concluded
      BY <2>5, <1>p DEF ConcludeErrorReply, Open
    <3> QED BY <2>p, <2>5, <3>1, <1>d, <1>u DEF ConcludeErrorReply
  <2>6. CASE PutBackReply(m)
    BY <2>6, <1>b DEF PutBackReply
  <2> QED BY <1>2, <2>1, <2>2, <2>3, <2>4, <2>5, <2>6 DEF ConsumeReplies
<1>3. ASSUME NEW m \in Messages, CollectSkip(m) \/ CollectReply(m) PROVE Goal
  <2>1. CASE CollectSkip(m)
    BY <2>1, <1>x, <1>c DEF CollectSkip, IsNextRow
  <2>2. CASE CollectReply(m)
    <3>1. \A k \in Messages : status'[k] = IF k = m THEN "B_REPLIED" ELSE status[k]
      BY <2>2, <1>t, UpdateReplyEffect DEF CollectReply
    <3>2. status[m] \notin Deadletters /\ cur = 0
      BY <2>2, <1>c, <1>d DEF CollectReply, IsNextRow
    <3> QED BY <2>2, <3>1, <3>2, <1>n, <1>f DEF CollectReply, IsNextRow
  <2> QED BY <1>3, <2>1, <2>2
<1>4. CASE \/ BeginConsume \/ BeginCollect \/ BeginInjectAfterCollect \/ SkipInjectAfterCollect
           \/ (BeginDispatch \/ EndPoll) /\ UNCHANGED rabbitVars
  BY <1>4, <1>b, <1>c DEF BeginConsume, BeginCollect, BeginInjectAfterCollect,
     SkipInjectAfterCollect, BeginDispatch, EndPoll, BeginPass, PassOver
<1>5. ASSUME NEW m \in Messages, Inject(m), UNCHANGED rabbitVars PROVE Goal
  <2>0. /\ UNCHANGED <<op, phase>> /\ batch' \subseteq batch /\ Moves
        /\ step' \notin {"backoff_reply", "giveup_reply"}
    BY <1>5, <1>c, <1>n DEF Inject, InjectSkip, InjectExpired, InjectStart, ConfirmInjection, PostInjection,
       ConfirmTimedOutInjection, RecordInjectionSuccess, MarkDone, RecordInjectionFailure,
       ConcludeInjectionFailure, InjectReady, IsNextRow
  <2>1. CASE UNCHANGED status
    BY <2>0, <2>1, <1>x
  <2>2. CASE InjectExpired(m)
    BY <2>0, <2>2, <1>d, <1>c, <1>n, <1>u DEF InjectExpired, InjectReady, IsNextRow
  <2>3. CASE ConfirmInjection(m) \/ MarkDone(m) \/ ConcludeInjectionFailure(m)
    <3>1. cur = m /\ phase = "inject" /\ batch' = batch
      BY <2>3, <1>c DEF ConfirmInjection, MarkDone, ConcludeInjectionFailure, InjectSteps
    <3>2. status[m] \notin Deadletters /\ m \notin batch
      BY <3>1, <1>d, <1>n, <1>p DEF Picked
    <3> QED BY <2>0, <2>1, <2>3, <3>1, <3>2, <1>n, <1>u DEF ConfirmInjection, MarkDone, ConcludeInjectionFailure
  <2> QED BY <1>5, <2>1, <2>2, <2>3 DEF Inject, InjectSkip, InjectStart, PostInjection,
          ConfirmTimedOutInjection, RecordInjectionSuccess, RecordInjectionFailure, RecordAttempt
<1>y. UNCHANGED <<status, op, phase, batch, cur, step>> => Goal
  BY <1>x
<1>6. ASSUME NEW m \in Messages, AdapterWorks(m) PROVE Goal
  BY <1>6, <1>y DEF AdapterWorks, AdapterTake, AdapterPost, AdapterReply, AdapterAck, adapterKeeps, adapterLeaves
<1>7. CASE AdapterAckFails \/ AdapterFails
  BY <1>7, <1>y DEF AdapterAckFails, AdapterFails, AdapterDies, AdapterLosesConnection,
     AdapterTokenTimesOut, adapterKeeps, adapterLeaves
<1>8. CASE ConsumerTake \/ ConsumerInject
  BY <1>8, <1>y DEF ConsumerTake, ConsumerInject, consumerKeeps
<1>10. ASSUME NEW m \in Messages, World(m) PROVE Goal
  <2>1. CASE Ingest(m)
    <3>1. \A k \in Messages : status'[k] = IF k = m THEN "RESERVED" ELSE status[k]
      BY <2>1, <1>t DEF Ingest, UpdateArtifact
    <3>2. cur = 0 /\ batch = {} /\ status[m] \notin Deadletters
      BY <2>1, <1>c, <1>t, <1>p DEF Ingest, RabbitSteps, Picked, Deadletters
    <3> QED BY <2>1, <3>1, <3>2, <1>c, <1>n, <1>f DEF Ingest
  <2>2. CASE UNCHANGED <<status, op, phase, batch, cur, step>>
    BY <2>2, <1>y
  <2> QED BY <1>10, <2>1, <2>2 DEF World, Expire, BackoffElapses, WorkerWrites, LateArrival
<1>11. CASE Replay
  <2>1. ASSUME NEW o \in Operators, NEW m \in Messages, ReplayRead(o, m) PROVE Goal
    <3>1. /\ op' = [op EXCEPT ![o] = [stage |-> "clear", msg |-> m,
                              target |-> IF status[m] = "DEADLETTER_B" THEN "B" ELSE "A"]]
          /\ status[m] \in Deadletters /\ UNCHANGED <<status, phase, batch, cur, step>>
      BY <2>1 DEF ReplayRead
    <3>2. /\ op'[o].msg = m /\ op'[o].target = IF status[m] = "DEADLETTER_B" THEN "B" ELSE "A"
          /\ \A p \in Operators : p # o => op'[p] = op[p]
      BY <3>1, <1>t
    <3>3. Ops'
      BY <3>1, <3>2, <1>p DEF Ops, Deadletters
    <3> QED BY <3>1, <3>3, <1>p DEF Goal, Picked, Open
  <2>2. ASSUME NEW o \in Operators, ReplayClear(o) PROVE Goal
    <3>1. /\ op' = [op EXCEPT ![o] = [op[o] EXCEPT !.stage = "set"]]
          /\ op[o].stage = "clear" /\ UNCHANGED <<status, phase, batch, cur, step>>
      BY <2>2 DEF ReplayClear, ClearAttempts
    <3>2. op[o] \in [stage : OpStages, msg : Messages \union {0}, target : Targets]
      BY <1>t
    <3>3. /\ op'[o].msg = op[o].msg /\ op'[o].target = op[o].target
          /\ \A p \in Operators : p # o => op'[p] = op[p]
      BY <3>1, <3>2, <1>t
    <3>4. Ops'
      BY <3>1, <3>3, <1>p DEF Ops
    <3> QED BY <3>1, <3>4, <1>p DEF Goal, Picked, Open
  <2>3. ASSUME NEW o \in Operators, ReplaySet(o) PROVE Goal
    <3> DEFINE m == op[o].msg
    <3>1. /\ op[o].stage = "set" /\ m \in Messages /\ status[m] \in Deadletters
          /\ op' = [op EXCEPT ![o] = [stage |-> "idle", msg |-> 0, target |-> "B"]]
          /\ UNCHANGED <<phase, batch, cur, step>>
      BY <2>3, <1>t, <1>p DEF ReplaySet, Ops, Deadletters
    <3>2. PICK s \in {"RESERVED", "B_REPLIED"} : UpdateStatus(m, s)
      BY <2>3 DEF ReplaySet
    <3>3. \A k \in Messages : status'[k] = IF k = m THEN s ELSE status[k]
      BY <3>1, <3>2, <1>0, <1>t, UpdateStatusEffect
    <3> HIDE DEF m
    <3>4. \A k \in batch \union ({cur} \ {0}) : phase \in {"dispatch", "collect", "inject"} => k # m
      BY <3>1, <1>d
    <3>5. Picked'
      BY <3>1, <3>3, <3>4, <1>p, <1>t DEF Picked
    <3>6. Open'
      <4>1. step \in {"backoff_reply", "giveup_reply"} => cur \in Messages /\ cur # m
        BY <3>1, <1>c, <1>t, <1>p DEF Open, Concluded, Deadletters
      <4> QED BY <3>1, <3>3, <4>1, <1>p DEF Open
    <3>7. Ops'
      <4>1. op'[o].stage = "idle" /\ \A p \in Operators : p = o
        BY <3>1, <1>t DEF OneOperator
      <4> QED BY <4>1 DEF Ops
    <3> QED BY <3>5, <3>6, <3>7 DEF Goal
  <2> QED BY <1>11, <2>1, <2>2, <2>3 DEF Replay
<1>12. CASE RelayDies
  BY <1>12, <1>b DEF RelayDies, Crash
<1>13. CASE UNCHANGED allVars
  BY <1>13, <1>y DEF allVars, vars
<1>14. CASE RelayWorks
  BY <1>1, <1>2, <1>3, <1>4, <1>5, <1>14 DEF RelayWorks
<1>15. CASE AdapterStep
  BY <1>6, <1>7, <1>15 DEF AdapterStep
<1>16. CASE ((\E m \in Messages : World(m)) \/ Replay) /\ UNCHANGED rabbitVars
  BY <1>10, <1>11, <1>16
<1> QED BY <1>7, <1>8, <1>12, <1>13, <1>14, <1>15, <1>16 DEF RabbitNext

\* A limit k + w + x grows with w + x.
LEMMA LimitGrows ==
  \A k, w, x, y, z \in Nat :
      /\ k + w + x \in Nat
      /\ y + z >= w + x => k + y + z >= k + w + x
      /\ y + z > w + x => k + y + z > k + w + x
OBVIOUS

\* Attempts are left wherever another failure at B can be recorded, and used up where
\* the relay gives up.
LEMMA BudgetNext ==
  ASSUME OneOperator, IInv, StatusInv, BudgetInv, [RabbitNext]_allVars
  PROVE  BudgetInv'
<1> USE DEF rowVars, loopVars, gatewayVars, opVars, brokerVars, jobVars, consumerVars,
        rabbitVars, Goto, EndRow, SkipRow, TakeRow, At
<1>n. Messages \subseteq Nat \ {0} /\ MaxAttemptsB \in Nat \ {0} /\ MaxAttemptsA \in Nat \ {0}
  BY StoreAssumption
<1>t. /\ RowTypeOK /\ status \in [Messages -> Statuses] /\ expired \in [Messages -> BOOLEAN]
      /\ cur \in Messages \union {0} /\ batch \subseteq Messages
      /\ op \in [Operators -> [stage : OpStages, msg : Messages \union {0}, target : Targets]]
      /\ \A o \in Operators : op[o].stage # "idle" => op[o].msg \in Messages
      /\ step \in RabbitSteps /\ crashes \in Nat /\ putBacks \in Nat
      /\ "A" \in Targets /\ "B" \in Targets /\ "SUCCESS" \in Results /\ "FAILED" \in Results
  BY DEF IInv, RabbitTypeOK, RowTypeOK, AnswerInv, KnownInv, Targets, Results
<1>a. \A m \in Messages, t \in Targets, r \in Results : attempts[m][t][r] \in Nat
  BY <1>t DEF RowTypeOK
<1>a2. \A m \in Messages, t \in Targets, r \in Results : attempts'[m][t][r] \in Nat
  <2>1. RowTypeOK'
    BY TypeNext DEF IInv, RabbitTypeOK
  <2> QED BY <2>1 DEF RowTypeOK
<1>c. /\ step = "next" <=> cur = 0
      /\ step \in DispatchSteps => phase = "dispatch"
      /\ step \in ReplySteps => phase = "consume"
      /\ step \in InjectSteps => phase = "inject"
  BY DEF IInv, ControlInv
<1>0. \A s \in {"RESERVED", "FAILED_B", "QUEUED_B", "B_REPLIED", "FAILED_A_INJECTION", "DONE",
               "DEADLETTER_B", "DEADLETTER_A"} : s \in Statuses
  BY DEF Statuses, Dispatchable, Queued, Injectable, Settled, Deadletters
<1> DEFINE Limit == MaxAttemptsB + crashes + putBacks
           GivenUp(m) == \/ status[m] = "DEADLETTER_B"
                         \/ cur = m /\ step \in {"recorded_b", "giveup_b", "giveup_reply"}
           Within(m) == IF GivenUp(m) THEN FailuresAtB(m) <= Limit ELSE FailuresAtB(m) < Limit
           Used(m) == /\ status[m] = "DEADLETTER_B" => CountAttempts(m, "B") >= MaxAttemptsB
                      /\ status[m] = "DEADLETTER_A" => expired[m] \/ CountAttempts(m, "A") >= MaxAttemptsA
           Point == /\ step \in {"failed_b", "backoff_b", "backoff_reply", "published_b", "queued_b"} =>
                           FailuresAtB(cur) < MaxAttemptsB
                    /\ step = "recorded_b" => FailuresAtB(cur) <= MaxAttemptsB
                    /\ step \in {"giveup_b", "giveup_reply"} => CountAttempts(cur, "B") >= MaxAttemptsB
                    /\ step = "giveup_a" => CountAttempts(cur, "A") >= MaxAttemptsA
           Ops == \A o \in Operators : op[o].stage = "set" /\ op[o].target = "B" => FailuresAtB(op[o].msg) = 0
           Marks == {"failed_b", "backoff_b", "backoff_reply", "published_b", "queued_b",
                     "recorded_b", "giveup_b", "giveup_reply", "giveup_a"}
           Goal == /\ \A m \in Messages : ~BeingReplayed(m)' => Used(m)'
                   /\ \A m \in Messages : Within(m)'
                   /\ Point' /\ Ops'
<1>p. /\ \A m \in Messages : ~BeingReplayed(m) => Used(m)
      /\ \A m \in Messages : Within(m)
      /\ Point /\ Ops
  BY DEF BudgetInv, GiveUpIsJustified
<1>b. Limit \in Nat /\ MaxAttemptsB <= Limit /\ \A m \in Messages : FailuresAtB(m) \in Nat
  BY <1>n, <1>t, <1>a DEF FailuresAtB
<1> SUFFICES Goal
  BY DEF BudgetInv, GiveUpIsJustified
<1>e. ASSUME NEW m \in Messages, UNCHANGED <<attempts>>
      PROVE  /\ FailuresAtB(m)' = FailuresAtB(m)
             /\ \A t \in Targets : CountAttempts(m, t)' = CountAttempts(m, t)
  BY <1>e DEF FailuresAtB, CountAttempts
<1>l. crashes \in Nat /\ putBacks \in Nat /\ MaxAttemptsB \in Nat
  BY <1>n, <1>t
\* Nothing is recorded; the limit may grow, and does when the relay leaves a row it is
\* about to give up.
<1>x. ASSUME UNCHANGED <<status, attempts, op>>, \A m \in Messages : expired[m] => expired'[m],
             crashes' \in Nat, putBacks' \in Nat,
             crashes' + putBacks' >= crashes + putBacks,
             \/ UNCHANGED <<step, cur>>
             \/ step' \notin Marks /\ step \notin {"recorded_b", "giveup_b", "giveup_reply"}
             \/ step' \notin Marks /\ crashes' + putBacks' > crashes + putBacks
      PROVE  Goal
  <2>1. \A m \in Messages : ~BeingReplayed(m)' => Used(m)'
    BY <1>x, <1>e, <1>p, <1>t DEF BeingReplayed
  <2>2. ASSUME NEW m \in Messages PROVE Within(m)'
    <3>0. crashes' \in Nat /\ putBacks' \in Nat /\ crashes' + putBacks' >= crashes + putBacks
      BY <1>x
    <3>1. Limit' >= Limit /\ Limit' \in Nat
      BY <3>0, <1>l, LimitGrows, Zenon
    <3>2. FailuresAtB(m)' = FailuresAtB(m) /\ FailuresAtB(m) \in Nat /\ Within(m)
      BY <1>x, <1>e, <1>b, <1>p
    <3>3. CASE GivenUp(m)' <=> GivenUp(m)
      <4> HIDE DEF Limit, GivenUp
      <4> QED BY <3>1, <3>2, <3>3, <1>b
    <3>4. CASE crashes' + putBacks' > crashes + putBacks
      <4>1. Limit' > Limit
        BY <3>0, <3>4, <1>l, LimitGrows, Zenon
      <4> HIDE DEF Limit, GivenUp
      <4> QED BY <3>2, <4>1, <3>1, <1>b
    <3>5. CASE UNCHANGED <<step, cur>>
      BY <3>3, <3>5, <1>x
    <3>6. CASE step' \notin Marks /\ step \notin {"recorded_b", "giveup_b", "giveup_reply"}
      BY <3>3, <3>6, <1>x
    <3> HIDE DEF Within, GivenUp, Limit
    <3> QED BY <1>x, <3>4, <3>5, <3>6
  <2>3. Point'
    <3>1. CASE step' \notin Marks
      BY <3>1
    <3>2. CASE UNCHANGED <<step, cur>>
      <4>1. step \in Marks => cur \in Messages
        BY <1>t, <1>c
      <4> QED BY <3>2, <4>1, <1>x, <1>e, <1>p, <1>t
    <3> QED BY <1>x, <3>1, <3>2
  <2>4. Ops'
    BY <1>x, <1>e, <1>p, <1>t DEF OpStages
  <2> QED BY <2>1, <2>2, <2>3, <2>4
\* One row moves, not one that an operator replays.
<1>f. ASSUME NEW m \in Messages, cur \in {0, m}, cur' \in {0, m}, UNCHANGED <<op, expired, crashes, putBacks>>,
             status[m] \notin Deadletters,
             \A k \in Messages : k # m => status'[k] = status[k],
             \A k \in Messages, t \in Targets, r \in Results : k # m => attempts'[k][t][r] = attempts[k][t][r],
             Used(m)', Within(m)', Point'
      PROVE  Goal
  <2>1. \A k \in Messages : k # m =>
            /\ FailuresAtB(k)' = FailuresAtB(k)
            /\ \A t \in Targets : CountAttempts(k, t)' = CountAttempts(k, t)
    BY <1>f, <1>t DEF FailuresAtB, CountAttempts
  <2>2. \A k \in Messages : ~BeingReplayed(k)' => Used(k)'
    BY <1>f, <2>1, <1>p, <1>t DEF BeingReplayed
  <2>3. ASSUME NEW k \in Messages PROVE Within(k)'
    <3>1. k # m => (GivenUp(k)' <=> GivenUp(k)) /\ Limit' = Limit
      BY <1>f, <1>n
    <3> HIDE DEF GivenUp, Limit
    <3> QED BY <1>f, <2>1, <3>1, <1>p
  <2>4. Ops'
    <3>1. \A o \in Operators : op[o].stage = "set" => op[o].msg \in Messages /\ op[o].msg # m
      BY <1>f, <1>t DEF StatusInv, Deadletters
    <3> QED BY <1>f, <2>1, <3>1, <1>p
  <2> QED BY <1>f, <2>2, <2>3, <2>4
<1>y. UNCHANGED <<status, attempts, op, expired, crashes, putBacks, step, cur>> => Goal
  BY <1>x, <1>l
\* The row the relay works on or takes up keeps its status.
<1>k. ASSUME NEW m \in Messages, cur \in {0, m}, cur' = m,
             UNCHANGED <<status, op, expired, crashes, putBacks>>, status[m] \notin Deadletters,
             \A k \in Messages, t \in Targets, r \in Results : k # m => attempts'[k][t][r] = attempts[k][t][r],
             step' \in {"published_b", "queued_b", "failed_b", "backoff_b", "backoff_reply"} =>
                 FailuresAtB(m)' < MaxAttemptsB,
             step' = "recorded_b" => FailuresAtB(m)' <= MaxAttemptsB,
             step' \in {"giveup_b", "giveup_reply"} =>
                 FailuresAtB(m)' <= Limit /\ CountAttempts(m, "B")' >= MaxAttemptsB,
             step' \notin Marks \/ step' = "giveup_a" => FailuresAtB(m)' < Limit,
             step' = "giveup_a" => CountAttempts(m, "A")' >= MaxAttemptsA
      PROVE  Goal
  <2>1. Used(m)'
    BY <1>k DEF Deadletters
  <2>2. Within(m)'
    <3>1. FailuresAtB(m)' \in Nat /\ Limit' = Limit
      BY <1>k, <1>a2, <1>t DEF FailuresAtB
    <3>2. GivenUp(m)' <=> step' \in {"recorded_b", "giveup_b", "giveup_reply"}
      BY <1>k DEF Deadletters
    <3>3. IF step' \in {"recorded_b", "giveup_b", "giveup_reply"} THEN FailuresAtB(m)' <= Limit
                                                              ELSE FailuresAtB(m)' < Limit
      <4> HIDE DEF Limit
      <4> QED BY <1>k, <1>b, <1>n, <3>1
    <3> HIDE DEF GivenUp, Limit
    <3> QED BY <3>1, <3>2, <3>3
  <2>3. Point'
    BY <1>k
  <2> HIDE DEF Used, Within, Point, Goal
  <2> QED BY <1>k, <2>1, <2>2, <2>3, <1>f
\* A row gets another status, and the relay is through with it.
<1>h. ASSUME NEW m \in Messages, cur \in {0, m}, cur' \in {0, m},
             UNCHANGED <<attempts, op, expired, crashes, putBacks>>, status[m] \notin Deadletters,
             \A k \in Messages : k # m => status'[k] = status[k],
             step' \notin Marks,
             status'[m] = "DEADLETTER_B" => CountAttempts(m, "B") >= MaxAttemptsB,
             status'[m] = "DEADLETTER_A" => expired[m] \/ CountAttempts(m, "A") >= MaxAttemptsA,
             status'[m] # "DEADLETTER_B" =>
                 cur = 0 \/ step \notin {"recorded_b", "giveup_b", "giveup_reply"}
      PROVE  Goal
  <2>1. Used(m)'
    BY <1>h, <1>e, <1>t
  <2>2. Within(m)'
    <3>1. FailuresAtB(m)' = FailuresAtB(m) /\ FailuresAtB(m) \in Nat /\ Limit' = Limit /\ Within(m)
      BY <1>h, <1>e, <1>b, <1>p
    <3>2. GivenUp(m)' <=> status'[m] = "DEADLETTER_B"
      BY <1>h
    <3>3. status'[m] # "DEADLETTER_B" => ~GivenUp(m)
      BY <1>h, <1>n DEF Deadletters
    <3> HIDE DEF GivenUp, Limit
    <3> QED BY <3>1, <3>2, <3>3, <1>b
  <2>3. Point'
    BY <1>h
  <2> HIDE DEF Used, Within, Point, Goal
  <2> QED BY <1>h, <2>1, <2>2, <2>3, <1>f
<1>d. /\ \A m \in batch \union ({cur} \ {0}) : phase \in {"dispatch", "collect", "inject"} =>
             status[m] \notin Deadletters
      /\ \A m \in Messages : status[m] \notin Concluded => status[m] \notin Deadletters
      /\ step \in Marks => status[cur] \notin Deadletters
  BY <1>c, <1>t DEF StatusInv, Dispatchable, Queued, Injectable, Deadletters, Concluded,
     DispatchSteps, ReplySteps, InjectSteps
<1>i. \A m \in Messages : status[m] \notin Deadletters /\ step \notin {"recorded_b", "giveup_b", "giveup_reply"}
          => FailuresAtB(m) < Limit
  BY <1>p DEF Deadletters
<1>j. \A m \in Messages : /\ CountAttempts(m, "B") \in Nat /\ CountAttempts(m, "B") >= FailuresAtB(m)
                          /\ RetryExhausted(m, "B") <=> FailuresAtB(m) >= MaxAttemptsB
                          /\ RetryExhausted(m, "B")' <=> FailuresAtB(m)' >= MaxAttemptsB
  BY <1>a, <1>t DEF CountAttempts, FailuresAtB, RetryExhausted, MaxAttempts
<1>r. ASSUME NEW m \in Messages, NEW t \in Targets, NEW r \in Results, RecordAttempt(m, t, r)
      PROVE  /\ UNCHANGED status
             /\ \A k \in Messages, u \in Targets, q \in Results : k # m => attempts'[k][u][q] = attempts[k][u][q]
             /\ FailuresAtB(m)' = IF t = "B" /\ r = "FAILED" THEN FailuresAtB(m) + 1 ELSE FailuresAtB(m)
             /\ CountAttempts(m, t)' = CountAttempts(m, t) + 1
  <2>1. /\ UNCHANGED <<status, due, reply>>
        /\ attempts'[m][t][r] = attempts[m][t][r] + 1
        /\ \A n \in Messages, u \in Targets, q \in Results :
               n # m \/ u # t \/ q # r => attempts'[n][u][q] = attempts[n][u][q]
    BY <1>r, <1>t, RecordAttemptEffect
  <2>2. FailuresAtB(m)' = IF t = "B" /\ r = "FAILED" THEN FailuresAtB(m) + 1 ELSE FailuresAtB(m)
    BY <2>1, <1>t DEF FailuresAtB
  <2>3. CountAttempts(m, t)' = CountAttempts(m, t) + 1
    <3>1. CASE r = "SUCCESS"
      <4>1. attempts'[m][t]["SUCCESS"] = attempts[m][t]["SUCCESS"] + 1 /\ attempts'[m][t]["FAILED"] = attempts[m][t]["FAILED"]
        BY <2>1, <3>1, <1>t
      <4>2. attempts[m][t]["SUCCESS"] \in Nat /\ attempts[m][t]["FAILED"] \in Nat
        BY <1>a, <1>t
      <4> QED BY <4>1, <4>2 DEF CountAttempts
    <3>2. CASE r = "FAILED"
      <4>1. attempts'[m][t]["FAILED"] = attempts[m][t]["FAILED"] + 1 /\ attempts'[m][t]["SUCCESS"] = attempts[m][t]["SUCCESS"]
        BY <2>1, <3>2, <1>t
      <4>2. attempts[m][t]["SUCCESS"] \in Nat /\ attempts[m][t]["FAILED"] \in Nat
        BY <1>a, <1>t
      <4> QED BY <4>1, <4>2 DEF CountAttempts
    <3> QED BY <3>1, <3>2 DEF Results
  <2> QED BY <2>1, <2>2, <2>3
<1>s. ASSUME NEW m \in Messages,
             NEW s \in {"RESERVED", "FAILED_B", "QUEUED_B", "B_REPLIED", "FAILED_A_INJECTION", "DONE",
                        "DEADLETTER_B", "DEADLETTER_A"},
             UpdateStatus(m, s) \/ UpdateStatusLater(m, s),
             cur \in {0, m}, cur' \in {0, m}, UNCHANGED <<op, expired, crashes, putBacks>>,
             status[m] \notin Deadletters, step' \notin Marks,
             s = "DEADLETTER_B" => CountAttempts(m, "B") >= MaxAttemptsB,
             s = "DEADLETTER_A" => expired[m] \/ CountAttempts(m, "A") >= MaxAttemptsA,
             s # "DEADLETTER_B" => cur = 0 \/ step \notin {"recorded_b", "giveup_b", "giveup_reply"}
      PROVE  Goal
  <2>1. UNCHANGED attempts /\ \A k \in Messages : status'[k] = IF k = m THEN s ELSE status[k]
    BY <1>s, <1>0, <1>t, UpdateStatusEffect
  <2>2. status'[m] = s /\ \A k \in Messages : k # m => status'[k] = status[k]
    BY <2>1
  <2> HIDE DEF Goal
  <2> QED BY <1>s, <2>1, <2>2, <1>h
<1> HIDE DEF Goal
<1>1. ASSUME NEW m \in Messages, PublishDispatch(m) PROVE Goal
  <2>0. phase = "dispatch" /\ status[m] \notin Deadletters
    BY <1>1, <1>c, <1>d, <1>n DEF PublishDispatch, PublishRequest, RecordPublication, MarkQueued, DispatchSkip,
       DispatchExhausted, DispatchExpired, RecordDispatchFailure, DecideDispatchRetry,
       ConcludeDispatchFailure, PublishReady, DispatchReady, IsNextRow, DispatchSteps
  <2>p. UNCHANGED putBacks
    BY <1>1 DEF PublishDispatch, PublishRequest, RecordPublication, MarkQueued
  <2>1. CASE PublishRequest(m)
    <3>1. FailuresAtB(m)' < MaxAttemptsB
      BY <2>1, <1>j, <1>b, <1>n, <1>e DEF PublishRequest, PublishReady
    <3>2. cur = 0 /\ step' \in {"published_b", "failed_b"}
      BY <2>1, <1>c DEF PublishRequest, PublishReady, DispatchReady, IsNextRow
    <3> HIDE DEF Limit
    <3> QED BY <2>0, <2>1, <3>1, <3>2, <1>k DEF PublishRequest
  <2>2. CASE RecordPublication(m)
    <3>1. FailuresAtB(m)' < MaxAttemptsB
      BY <2>2, <1>r, <1>t, <1>p DEF RecordPublication
    <3>2. UNCHANGED status
      BY <2>2, <1>r, <1>t DEF RecordPublication
    <3>3. \A k \in Messages, t \in Targets, r \in Results : k # m => attempts'[k][t][r] = attempts[k][t][r]
      BY <2>2, <1>r, <1>t DEF RecordPublication
    <3> HIDE DEF Limit
    <3> QED BY <2>0, <2>2, <3>1, <3>2, <3>3, <1>k DEF RecordPublication
  <2>3. CASE MarkQueued(m)
    <3>1. \A k \in Messages : status'[k] = IF k = m THEN "QUEUED_B" ELSE status[k]
      BY <2>3, <1>0, <1>t, UpdateStatusEffect DEF MarkQueued
    <3> QED BY <2>0, <2>3, <3>1, <1>h DEF MarkQueued, UpdateStatus
  <2>4. CASE DispatchSkip(m)
    BY <2>p, <2>4, <1>y DEF DispatchSkip
  <2>5. CASE DispatchExhausted(m)
    <3>2. CountAttempts(m, "B") >= MaxAttemptsB
      BY <2>5, <1>j, <1>b, <1>n DEF DispatchExhausted
    <3>3. step = "next" /\ cur = 0
      BY <2>5, <1>c DEF DispatchExhausted, DispatchReady, IsNextRow
    <3>4. UpdateStatus(m, "DEADLETTER_B") /\ cur' = 0 /\ step' = "next" /\ UNCHANGED <<op, expired, crashes, putBacks>>
      BY <2>p, <2>5, <3>3 DEF DispatchExhausted
    <3> QED BY <2>0, <3>2, <3>3, <3>4, <1>s
  <2>6. CASE DispatchExpired(m)
    <3>1. /\ UNCHANGED status /\ FailuresAtB(m)' = FailuresAtB(m) + 1
          /\ CountAttempts(m, "B")' = CountAttempts(m, "B") + 1
          /\ \A k \in Messages, t \in Targets, r \in Results : k # m => attempts'[k][t][r] = attempts[k][t][r]
      BY <2>6, <1>r, <1>t DEF DispatchExpired
    <3>2. FailuresAtB(m) < MaxAttemptsB /\ FailuresAtB(m) \in Nat
      BY <2>6, <1>j, <1>b, <1>n DEF DispatchExpired
    <3>3. cur = 0 /\ cur' = m /\ UNCHANGED <<op, expired, crashes, putBacks>>
      <4>1. cur = 0
        BY <2>6, <1>c DEF DispatchExpired, DispatchReady, IsNextRow
      <4> QED BY <2>p, <2>6, <4>1 DEF DispatchExpired
    <3>4. step' = IF CountAttempts(m, "B")' >= MaxAttemptsB THEN "giveup_b" ELSE "backoff_b"
      BY <2>6, <3>1 DEF DispatchExpired, NextAttemptNo
    <3>5. FailuresAtB(m)' <= Limit /\ CountAttempts(m, "B")' \in Nat /\ CountAttempts(m, "B")' >= FailuresAtB(m)'
      <4> HIDE DEF Limit
      <4> QED BY <3>1, <3>2, <1>b, <1>j, <1>n
    <3>6. step' = "giveup_b" \/ (step' = "backoff_b" /\ FailuresAtB(m)' < MaxAttemptsB)
      BY <3>1, <3>2, <3>4, <3>5, <1>n
    <3> HIDE DEF Limit
    <3> QED BY <2>0, <3>1, <3>3, <3>4, <3>5, <3>6, <1>k
  <2>7. CASE RecordDispatchFailure(m)
    <3>1. /\ UNCHANGED status /\ FailuresAtB(m)' = FailuresAtB(m) + 1
          /\ \A k \in Messages, t \in Targets, r \in Results : k # m => attempts'[k][t][r] = attempts[k][t][r]
      BY <2>7, <1>r, <1>t DEF RecordDispatchFailure
    <3>2. FailuresAtB(m)' <= MaxAttemptsB
      BY <2>7, <3>1, <1>p, <1>b, <1>n DEF RecordDispatchFailure
    <3>3. UNCHANGED status
      BY <3>1
    <3>4. \A k \in Messages, t \in Targets, r \in Results : k # m => attempts'[k][t][r] = attempts[k][t][r]
      BY <3>1
    <3> HIDE DEF Limit
    <3> QED BY <2>0, <2>p, <2>7, <3>2, <3>3, <3>4, <1>k DEF RecordDispatchFailure
  <2>8. CASE DecideDispatchRetry(m)
    <3>1. FailuresAtB(m)' = FailuresAtB(m) /\ FailuresAtB(m) \in Nat /\ FailuresAtB(m) <= MaxAttemptsB
          /\ CountAttempts(m, "B")' = CountAttempts(m, "B") /\ UNCHANGED attempts
      BY <2>8, <1>e, <1>p, <1>b, <1>t DEF DecideDispatchRetry
    <3>2. step' = IF FailuresAtB(m) >= MaxAttemptsB THEN "giveup_b" ELSE "backoff_b"
      BY <2>8, <1>j DEF DecideDispatchRetry
    <3>3. /\ step' = "giveup_b" => FailuresAtB(m)' <= Limit /\ CountAttempts(m, "B")' >= MaxAttemptsB
          /\ step' = "backoff_b" => FailuresAtB(m)' < MaxAttemptsB
      <4> HIDE DEF Limit
      <4> QED BY <3>1, <3>2, <1>b, <1>j, <1>n
    <3> HIDE DEF Limit
    <3>4. step' \in {"giveup_b", "backoff_b"}
      BY <3>2
    <3> QED BY <2>0, <2>p, <2>8, <3>3, <3>4, <1>k DEF DecideDispatchRetry
  <2>9. CASE ConcludeDispatchFailure(m)
    <3>1. CASE step = "giveup_b" /\ UpdateStatus(m, "DEADLETTER_B")
      <4>2. CountAttempts(m, "B") >= MaxAttemptsB
        BY <2>9, <3>1, <1>p DEF ConcludeDispatchFailure
      <4> QED BY <2>0, <2>p, <2>9, <3>1, <4>2, <1>s DEF ConcludeDispatchFailure
    <3>2. CASE step \in {"backoff_b", "await_b"} /\ UpdateStatusLater(m, "FAILED_B")
      BY <2>0, <2>p, <2>9, <3>2, <1>s DEF ConcludeDispatchFailure
    <3> QED BY <2>9, <3>1, <3>2 DEF ConcludeDispatchFailure
  <2> QED BY <1>1, <2>1, <2>2, <2>3, <2>4, <2>5, <2>6, <2>7, <2>8, <2>9 DEF PublishDispatch
<1>z. UNCHANGED <<status, attempts, op, expired, crashes, putBacks>> /\ step' \notin Marks
          /\ step \notin {"recorded_b", "giveup_b", "giveup_reply"} => Goal
  <2> HIDE DEF Marks
  <2> QED BY <1>x, <1>l
<1>2. ASSUME NEW m \in Messages, ConsumeReplies(m) PROVE Goal
  <2>1. CASE TakeReply(m) \/ IgnoreReply(m) \/ AckReply(m)
    BY <2>1, <1>z DEF TakeReply, IgnoreReply, AckReply
  <2>2. CASE StoreBrokerReply(m)
    <3>1. /\ status'[m] = "B_REPLIED" /\ UNCHANGED attempts
          /\ \A k \in Messages : k # m => status'[k] = status[k]
      BY <2>2, <1>t, UpdateReplyEffect DEF StoreBrokerReply
    <3>2. status[m] \notin Deadletters
      BY <2>2, <1>d DEF StoreBrokerReply
    <3>3. cur = m /\ cur' = m /\ step = "took_reply" /\ step' = "ack_reply"
          /\ UNCHANGED <<op, expired, crashes, putBacks>>
      BY <2>2 DEF StoreBrokerReply
    <3> QED BY <3>1, <3>2, <3>3, <1>h
  <2>3. CASE RecordErrorReply(m)
    <3>1. /\ UNCHANGED status /\ FailuresAtB(m)' = FailuresAtB(m) + 1
          /\ \A k \in Messages, t \in Targets, r \in Results : k # m => attempts'[k][t][r] = attempts[k][t][r]
      BY <2>3, <1>r, <1>t DEF RecordErrorReply
    <3>2. /\ status[m] \notin Deadletters /\ cur = m /\ cur' = m /\ step = "took_reply"
          /\ UNCHANGED <<op, expired, crashes, putBacks>>
      BY <2>3, <1>d DEF RecordErrorReply
    <3>3. FailuresAtB(m)' <= Limit
      <4>1. FailuresAtB(m) < Limit /\ FailuresAtB(m) \in Nat /\ Limit \in Nat
        BY <3>2, <1>i, <1>b
      <4> HIDE DEF Limit
      <4> QED BY <4>1, <3>1
    <3>4. step' = IF FailuresAtB(m)' >= MaxAttemptsB THEN "giveup_reply" ELSE "backoff_reply"
      BY <2>3, <1>j DEF RecordErrorReply
    <3>5. /\ step' = "backoff_reply" => FailuresAtB(m)' < MaxAttemptsB
          /\ step' = "giveup_reply" => CountAttempts(m, "B")' >= MaxAttemptsB
      <4>1. CountAttempts(m, "B")' \in Nat /\ CountAttempts(m, "B")' >= FailuresAtB(m)' /\ FailuresAtB(m)' \in Nat
        BY <1>a2, <1>t DEF CountAttempts, FailuresAtB
      <4> QED BY <3>4, <4>1, <1>n
    <3>6. step' \in {"backoff_reply", "giveup_reply"} /\ UNCHANGED status
          /\ \A k \in Messages, t \in Targets, r \in Results : k # m => attempts'[k][t][r] = attempts[k][t][r]
      BY <3>1, <3>4
    <3> HIDE DEF Limit
    <3> QED BY <3>2, <3>3, <3>5, <3>6, <1>k
  <2>4. CASE ConcludeErrorReply(m)
    <3>1. status[m] \notin Deadletters /\ cur = m /\ cur' = m /\ step' = "ack_reply"
          /\ UNCHANGED <<op, expired, crashes, putBacks>>
      BY <2>4, <1>d DEF ConcludeErrorReply
    <3>2. step = "giveup_reply" => CountAttempts(m, "B") >= MaxAttemptsB
      BY <3>1, <1>p
    <3> QED BY <2>4, <3>1, <3>2, <1>s DEF ConcludeErrorReply
  <2>5. CASE PutBackReply(m)
    <3>1. /\ UNCHANGED <<status, attempts, op, expired, crashes>> /\ putBacks' = putBacks + 1
          /\ step' = "next"
      BY <2>5 DEF PutBackReply
    <3>2. /\ crashes' \in Nat /\ putBacks' \in Nat /\ crashes' + putBacks' >= crashes + putBacks
          /\ crashes' + putBacks' > crashes + putBacks
      BY <3>1, <1>l
    <3>3. step' \notin Marks
      BY <3>1
    <3> HIDE DEF Marks
    <3> QED BY <3>1, <3>2, <3>3, <1>x
  <2> QED BY <1>2, <2>1, <2>2, <2>3, <2>4, <2>5 DEF ConsumeReplies
<1>3. ASSUME NEW m \in Messages, CollectSkip(m) \/ CollectReply(m) PROVE Goal
  <2>1. CASE CollectSkip(m)
    BY <2>1, <1>y DEF CollectSkip
  <2>2. CASE CollectReply(m)
    <3>1. /\ status'[m] = "B_REPLIED" /\ UNCHANGED attempts
          /\ \A k \in Messages : k # m => status'[k] = status[k]
      BY <2>2, <1>t, UpdateReplyEffect DEF CollectReply
    <3>2. status[m] \notin Deadletters /\ cur = 0
      BY <2>2, <1>c, <1>d DEF CollectReply, IsNextRow
    <3>3. cur' = cur /\ step = "next" /\ step' = "next"
          /\ UNCHANGED <<op, expired, crashes, putBacks>>
      BY <2>2 DEF CollectReply, IsNextRow
    <3> QED BY <3>1, <3>2, <3>3, <1>h
  <2> QED BY <1>3, <2>1, <2>2
<1>4. CASE \/ BeginConsume \/ BeginCollect \/ BeginInjectAfterCollect \/ SkipInjectAfterCollect
           \/ (BeginDispatch \/ EndPoll) /\ UNCHANGED rabbitVars
  BY <1>4, <1>y DEF BeginConsume, BeginCollect, BeginInjectAfterCollect,
     SkipInjectAfterCollect, BeginDispatch, EndPoll, BeginPass
<1>5. ASSUME NEW m \in Messages, Inject(m), UNCHANGED rabbitVars PROVE Goal
  <2>0. phase = "inject" /\ status[m] \notin Deadletters /\ UNCHANGED <<op, expired, crashes, putBacks>>
        /\ cur \in {0, m} /\ cur' \in {0, m} /\ step \notin {"recorded_b", "giveup_b", "giveup_reply"}
    BY <1>5, <1>c, <1>d, <1>n DEF Inject, InjectSkip, InjectExpired, InjectStart, ConfirmInjection, PostInjection,
       ConfirmTimedOutInjection, RecordInjectionSuccess, MarkDone, RecordInjectionFailure,
       ConcludeInjectionFailure, InjectReady, IsNextRow, InjectSteps
  <2>1. CASE InjectSkip(m) \/ InjectStart(m) \/ PostInjection(m) \/ ConfirmTimedOutInjection(m)
    <3>1. UNCHANGED <<status, attempts>> /\ step' \notin Marks
      BY <2>1 DEF InjectSkip, InjectStart, PostInjection, ConfirmTimedOutInjection, IsNextRow
    <3> QED BY <2>0, <3>1, <1>z
  <2>2. CASE InjectExpired(m)
    <3>1. UpdateStatus(m, "DEADLETTER_A") /\ expired[m] /\ step' \notin Marks
      BY <2>2 DEF InjectExpired, InjectReady, IsNextRow
    <3> QED BY <2>0, <3>1, <1>s
  <2>3. CASE ConfirmInjection(m)
    <3>1. CASE UNCHANGED rowVars
      <4>1. step' \notin Marks
        BY <2>3 DEF ConfirmInjection
      <4> QED BY <2>0, <3>1, <4>1, <1>z
    <3>2. CASE UpdateStatus(m, "DEADLETTER_A") /\ CountAttempts(m, "A") >= MaxAttemptsA /\ step' = "next"
      BY <2>0, <3>2, <1>s
    <3> QED BY <2>3, <3>1, <3>2 DEF ConfirmInjection
  <2>4. CASE MarkDone(m)
    BY <2>0, <2>4, <1>s DEF MarkDone
  <2>5. CASE ConcludeInjectionFailure(m)
    <3>1. step = "giveup_a" => CountAttempts(m, "A") >= MaxAttemptsA
      BY <2>5, <1>p DEF ConcludeInjectionFailure
    <3> QED BY <2>0, <2>5, <3>1, <1>s DEF ConcludeInjectionFailure
  <2>6. CASE RecordInjectionSuccess(m) \/ RecordInjectionFailure(m)
    <3>1. PICK r \in Results : RecordAttempt(m, "A", r)
      BY <2>6, <1>t DEF RecordInjectionSuccess, RecordInjectionFailure
    <3>2. /\ UNCHANGED status /\ FailuresAtB(m)' = FailuresAtB(m)
          /\ CountAttempts(m, "A")' = CountAttempts(m, "A") + 1
          /\ \A k \in Messages, u \in Targets, q \in Results : k # m => attempts'[k][u][q] = attempts[k][u][q]
      BY <3>1, <1>r, <1>t
    <3>3. FailuresAtB(m)' < Limit
      BY <2>0, <3>2, <1>i
    <3>4. /\ step' \in {"done_a", "giveup_a", "backoff_a"}
          /\ step' = "giveup_a" => CountAttempts(m, "A")' >= MaxAttemptsA
      BY <2>6, <3>2 DEF RecordInjectionSuccess, RecordInjectionFailure, NextAttemptNo
    <3>5. cur' = m /\ \A k \in Messages, u \in Targets, q \in Results : k # m => attempts'[k][u][q] = attempts[k][u][q]
      BY <2>6, <3>2 DEF RecordInjectionSuccess, RecordInjectionFailure
    <3>6. UNCHANGED status
      BY <3>2
    <3> HIDE DEF Limit
    <3> QED BY <2>0, <3>3, <3>4, <3>5, <3>6, <1>k
  <2> QED BY <1>5, <2>1, <2>2, <2>3, <2>4, <2>5, <2>6 DEF Inject
<1>6. ASSUME NEW m \in Messages, AdapterWorks(m) PROVE Goal
  BY <1>6, <1>y DEF AdapterWorks, AdapterTake, AdapterPost, AdapterReply, AdapterAck, adapterKeeps, adapterLeaves
<1>7. CASE AdapterAckFails \/ AdapterFails
  BY <1>7, <1>y DEF AdapterAckFails, AdapterFails, AdapterDies, AdapterLosesConnection,
     AdapterTokenTimesOut, adapterKeeps, adapterLeaves
<1>8. CASE ConsumerTake \/ ConsumerInject
  BY <1>8, <1>y DEF ConsumerTake, ConsumerInject, consumerKeeps
<1>10. ASSUME NEW m \in Messages, World(m), UNCHANGED rabbitVars PROVE Goal
  <2>1. CASE Ingest(m)
    <3>1. /\ status'[m] = "RESERVED" /\ UNCHANGED attempts
          /\ \A k \in Messages : k # m => status'[k] = status[k]
      BY <2>1, <1>t DEF Ingest, UpdateArtifact
    <3>2. cur = 0 /\ cur' = 0 /\ step = "next" /\ step' = "next" /\ status[m] \notin Deadletters
      BY <2>1, <1>c, <1>t DEF Ingest, RabbitSteps, Deadletters
    <3>3. UNCHANGED <<op, expired, crashes, putBacks>>
      BY <1>10, <2>1 DEF Ingest
    <3> QED BY <3>1, <3>2, <3>3, <1>h
  <2>2. CASE Expire(m)
    <3>1. \A k \in Messages : expired[k] => expired'[k]
      BY <2>2, <1>t DEF Expire
    <3>2. UNCHANGED <<status, attempts, op, crashes, putBacks, step, cur>>
      BY <1>10, <2>2 DEF Expire
    <3> QED BY <3>1, <3>2, <1>x, <1>l
  <2>3. CASE UNCHANGED <<status, attempts, op, expired, crashes, step, cur>>
    BY <1>10, <2>3, <1>y
  <2> QED BY <1>10, <2>1, <2>2, <2>3 DEF World, BackoffElapses, WorkerWrites, LateArrival
<1>11. CASE Replay /\ UNCHANGED rabbitVars
  <2>q. \A o \in Operators, m \in Messages : BeingReplayed(m) <=> op[o].stage # "idle" /\ op[o].msg = m
    BY DEF OneOperator, BeingReplayed
  <2>1. ASSUME NEW o \in Operators, NEW m \in Messages, ReplayRead(o, m) PROVE Goal
    <3>1. /\ op' = [op EXCEPT ![o] = [stage |-> "clear", msg |-> m,
                              target |-> IF status[m] = "DEADLETTER_B" THEN "B" ELSE "A"]]
          /\ op[o].stage = "idle" /\ UNCHANGED <<status, attempts, expired, crashes, putBacks, cur, step>>
      BY <1>11, <2>1 DEF ReplayRead
    <3>2. \A k \in Messages : Used(k)' /\ Within(k)'
      <4>1. \A k \in Messages : Used(k) /\ Within(k)
        BY <3>1, <2>q, <1>p
      <4>2. \A k \in Messages : Used(k)' = Used(k) /\ Within(k)' = Within(k)
        BY <3>1, <1>e, <1>t
      <4> QED BY <4>1, <4>2
    <3>3. Point'
      <4>1. step \in Marks => cur \in Messages
        BY <1>t, <1>c
      <4> QED BY <4>1, <3>1, <1>e, <1>p, <1>t
    <3>4. Ops'
      <4>1. op'[o].stage = "clear" /\ \A p \in Operators : p = o
        BY <3>1, <1>t DEF OneOperator
      <4> QED BY <4>1
    <3> QED BY <3>2, <3>3, <3>4 DEF Goal
  <2>c. ASSUME NEW o \in Operators, op[o].stage # "idle"
        PROVE  /\ op[o].msg \in Messages /\ op[o].target \in Targets
               /\ status[op[o].msg] = IF op[o].target = "B" THEN "DEADLETTER_B" ELSE "DEADLETTER_A"
               /\ step \in Marks => op[o].msg # cur
    <3>1. /\ op[o].msg \in Messages /\ op[o].target \in Targets
          /\ status[op[o].msg] = IF op[o].target = "B" THEN "DEADLETTER_B" ELSE "DEADLETTER_A"
      BY <2>c, <1>t DEF StatusInv
    <3> HIDE DEF Marks
    <3> QED BY <3>1, <1>d DEF Deadletters
  <2>2. ASSUME NEW o \in Operators, ReplayClear(o) PROVE Goal
    <3>0. PICK m, t : m = op[o].msg /\ t = op[o].target
      OBVIOUS
    <3>1. /\ op' = [op EXCEPT ![o] = [op[o] EXCEPT !.stage = "set"]]
          /\ op[o].stage = "clear" /\ UNCHANGED <<status, expired, crashes, putBacks, cur, step>>
          /\ ClearAttempts(m, t)
      BY <1>11, <2>2, <3>0 DEF ReplayClear, ClearAttempts
    <3>2. /\ m \in Messages /\ t \in Targets /\ (step \in Marks => m # cur)
          /\ \A k \in Messages, u \in Targets, q \in Results :
                 attempts'[k][u][q] = IF k = m /\ u = t THEN 0 ELSE attempts[k][u][q]
      BY <3>0, <3>1, <2>c, <1>t, ClearAttemptsEffect
    <3>3. op'[o].stage = "set" /\ op'[o].msg = m /\ op'[o].target = t
      <4>1. op[o] \in [stage : OpStages, msg : Messages \union {0}, target : Targets]
        BY <1>t
      <4> QED BY <3>0, <3>1, <4>1, <1>t
    <3>s. op[o].stage # "idle" /\ \A p \in Operators : p = o
      BY <3>1 DEF OneOperator
    <3>4. \A k \in Messages : k # m =>
              /\ FailuresAtB(k)' = FailuresAtB(k)
              /\ \A u \in Targets : CountAttempts(k, u)' = CountAttempts(k, u)
      BY <3>2, <1>t DEF FailuresAtB, CountAttempts
    <3>5. FailuresAtB(m)' = IF t = "B" THEN 0 ELSE FailuresAtB(m)
      BY <3>2, <1>t DEF FailuresAtB
    <3>6. ASSUME NEW k \in Messages, ~BeingReplayed(k)' PROVE Used(k)'
      <4>1. k # m
        BY <3>3, <3>6 DEF BeingReplayed
      <4>2. ~BeingReplayed(k)
        BY <4>1, <3>0, <2>q
      <4> QED BY <4>1, <4>2, <3>1, <3>4, <1>p, <1>t
    <3>7. ASSUME NEW k \in Messages PROVE Within(k)'
      <4>1. Limit' = Limit /\ Limit \in Nat /\ Limit > 0 /\ Within(k) /\ (GivenUp(k)' <=> GivenUp(k))
        <5>1. Limit' = Limit /\ (GivenUp(k)' <=> GivenUp(k)) /\ Within(k)
          BY <3>1, <1>p
        <5>2. Limit \in Nat /\ Limit > 0
          <6> HIDE DEF Limit
          <6> QED BY <1>b, <1>n
        <5> QED BY <5>1, <5>2
      <4>2. FailuresAtB(k)' = FailuresAtB(k) \/ FailuresAtB(k)' = 0
        BY <3>4, <3>5
      <4> HIDE DEF Limit, GivenUp
      <4> QED BY <4>1, <4>2
    <3>8. Point'
      <4>1. step \in Marks => cur \in Messages /\ cur # m
        BY <1>t, <1>c, <3>2
      <4> QED BY <4>1, <3>1, <3>4, <1>p, <1>t
    <3>9. Ops'
      BY <3>3, <3>5, <3>s
    <3> QED BY <3>6, <3>7, <3>8, <3>9 DEF Goal
  <2>3. ASSUME NEW o \in Operators, ReplaySet(o) PROVE Goal
    <3> DEFINE m == op[o].msg
    <3>1. /\ op' = [op EXCEPT ![o] = [stage |-> "idle", msg |-> 0, target |-> "B"]]
          /\ op[o].stage = "set" /\ UNCHANGED <<expired, crashes, putBacks, cur, step, attempts>>
      BY <1>11, <2>3 DEF ReplaySet, UpdateStatus
    <3>2. PICK s \in {"RESERVED", "B_REPLIED"} :
              UpdateStatus(m, s) /\ (s = "RESERVED" <=> op[o].target = "B")
      BY <2>3 DEF ReplaySet
    <3>3. \A k \in Messages : status'[k] = IF k = m THEN s ELSE status[k]
      BY <3>1, <3>2, <1>0, <1>t, UpdateStatusEffect
    <3>4. op'[o].stage = "idle" /\ \A p \in Operators : p = o
      BY <3>1, <1>t DEF OneOperator
    <3>5. /\ m \in Messages /\ (step \in Marks => m # cur)
          /\ status[m] = IF op[o].target = "B" THEN "DEADLETTER_B" ELSE "DEADLETTER_A"
          /\ op[o].target = "B" => FailuresAtB(m) = 0
      BY <3>1, <2>c, <1>p
    <3>0. \A k \in Messages : k # m => ~BeingReplayed(k)
      BY <2>q
    <3> HIDE DEF m
    <3>6. ASSUME NEW k \in Messages PROVE Used(k)'
      <4>1. CASE k = m
        BY <4>1, <3>3
      <4>2. CASE k # m
        BY <4>2, <3>0, <3>1, <3>3, <1>e, <1>p, <1>t
      <4> QED BY <4>1, <4>2
    <3>7. ASSUME NEW k \in Messages PROVE Within(k)'
      <4>1. Limit' = Limit /\ FailuresAtB(k)' = FailuresAtB(k)
        BY <3>1, <1>e
      <4>2. CASE k # m
        <5>1. GivenUp(k)' <=> GivenUp(k)
          BY <4>2, <3>1, <3>3
        <5> HIDE DEF Limit, GivenUp
        <5> QED BY <4>1, <5>1, <1>p
      <4>3. CASE k = m
        <5>1. FailuresAtB(m) < Limit
          <6>1. CASE op[o].target = "B"
            <7>1. Limit \in Nat /\ Limit > 0
              <8> HIDE DEF Limit
              <8> QED BY <1>b, <1>n
            <7> HIDE DEF Limit
            <7> QED BY <6>1, <3>5, <7>1
          <6>2. CASE op[o].target # "B"
            <7>1. ~GivenUp(m)
              BY <6>2, <3>5
            <7> HIDE DEF Limit, GivenUp
            <7> QED BY <7>1, <3>5, <1>p
          <6> QED BY <6>1, <6>2
        <5>2. ~GivenUp(k)'
          BY <4>3, <3>1, <3>3, <3>5
        <5> HIDE DEF Limit, GivenUp
        <5> QED BY <4>1, <4>3, <5>1, <5>2
      <4> QED BY <4>2, <4>3
    <3>8. Point'
      <4>1. step \in Marks => cur \in Messages
        BY <1>t, <1>c
      <4> QED BY <4>1, <3>1, <1>e, <1>p, <1>t
    <3>9. Ops'
      BY <3>4
    <3> QED BY <3>6, <3>7, <3>8, <3>9 DEF Goal
  <2> QED BY <1>11, <2>1, <2>2, <2>3 DEF Replay
<1>12. CASE RelayDies
  <2>1. /\ UNCHANGED <<status, attempts, op, expired, putBacks>> /\ crashes' = crashes + 1 /\ step' = "next"
    BY <1>12 DEF RelayDies, Crash
  <2>2. /\ crashes' \in Nat /\ putBacks' \in Nat /\ crashes' + putBacks' >= crashes + putBacks
        /\ crashes' + putBacks' > crashes + putBacks
    BY <2>1, <1>l
  <2>3. step' \notin Marks
    BY <2>1
  <2> HIDE DEF Marks
  <2> QED BY <2>1, <2>2, <2>3, <1>x
<1>13. CASE UNCHANGED allVars
  BY <1>13, <1>y DEF allVars, vars
<1>14. CASE RelayWorks
  BY <1>1, <1>2, <1>3, <1>4, <1>5, <1>14 DEF RelayWorks
<1>15. CASE AdapterStep
  BY <1>6, <1>7, <1>15 DEF AdapterStep
<1>16. CASE ((\E m \in Messages : World(m)) \/ Replay) /\ UNCHANGED rabbitVars
  BY <1>10, <1>11, <1>16
<1> QED BY <1>7, <1>8, <1>12, <1>13, <1>14, <1>15, <1>16 DEF RabbitNext
\* The initial states satisfy the second part of the invariant.
LEMMA InitOne == RabbitInit => IInvOne
<1> SUFFICES ASSUME RabbitInit PROVE IInvOne
  OBVIOUS
<1> USE DEF RabbitInit, LoopInit, RowInit
<1>1. IInv
  BY InvInit
<1>2. StatusInv
  BY DEF StatusInv
<1>3. BudgetInv
  <2>1. \A m \in Messages : FailuresAtB(m) = 0
    BY DEF FailuresAtB, Targets, Results
  <2>2. 0 < MaxAttemptsB + crashes + putBacks
    BY StoreAssumption
  <2>3. \A m \in Messages :
            IF \/ status[m] = "DEADLETTER_B"
               \/ cur = m /\ step \in {"recorded_b", "giveup_b", "giveup_reply"}
            THEN FailuresAtB(m) <= MaxAttemptsB + crashes + putBacks
            ELSE FailuresAtB(m) < MaxAttemptsB + crashes + putBacks
    BY <2>1, <2>2
  <2>4. GiveUpIsJustified
    BY DEF GiveUpIsJustified
  <2> QED BY <2>3, <2>4 DEF BudgetInv
<1> QED BY <1>1, <1>2, <1>3 DEF IInvOne

\* With one operator, both parts of the invariant hold in every reachable state.
LEMMA InvarianceOne == ASSUME OneOperator PROVE RabbitSpec => []IInvOne
<1>1. IInvOne /\ [RabbitNext]_allVars => IInvOne'
  BY InvNext, StatusNext, BudgetNext DEF IInvOne
<1> QED BY <1>1, InitOne, PTL DEF RabbitSpec

\* Failures recorded at B exceed max_attempts_b only by the deaths of the relay and the
\* error replies put back (app.py, _consume_rabbitmq_replies and _schedule_b_retry).
THEOREM FailuresStayBounded == ASSUME OneOperator PROVE RabbitSpec => []FailuresAreBounded
<1>1. IInvOne => FailuresAreBounded
  <2> SUFFICES ASSUME IInvOne, NEW m \in Messages
               PROVE  attempts[m]["B"]["FAILED"] <= MaxAttemptsB + crashes + putBacks
    BY DEF FailuresAreBounded
  <2>1. FailuresAtB(m) \in Nat /\ crashes \in Nat /\ putBacks \in Nat /\ MaxAttemptsB \in Nat
    BY StoreAssumption DEF FailuresAtB, IInvOne, IInv, RabbitTypeOK, RowTypeOK, Targets, Results
  <2>2. \/ FailuresAtB(m) <= MaxAttemptsB + crashes + putBacks
        \/ FailuresAtB(m) < MaxAttemptsB + crashes + putBacks
    BY DEF IInvOne, BudgetInv
  <2> QED BY <2>1, <2>2 DEF FailuresAtB
<1> QED BY <1>1, InvarianceOne, PTL

\* A deadlettered row has used up its attempts, or its TTL on the way back, with the
\* failures counted by the relay at the broker and at the worker alike (app.py).
THEOREM GiveUpJustified == ASSUME OneOperator PROVE RabbitSpec => []GiveUpIsJustified
<1>1. IInvOne => GiveUpIsJustified
  BY DEF IInvOne, BudgetInv
<1> QED BY <1>1, InvarianceOne, PTL

-----------------------------------------------------------------------------
(* The relay with a broker implements MessageLifecycle, but for the two      *)
(* departures Reopens and Bypasses.                                        *)

\* The stage of the lifecycle each status stands for.
LEMMA StageOfValues ==
  /\ StageOf("ABSENT") = "absent"
  /\ StageOf("RESERVED") = "pending" /\ StageOf("FAILED_B") = "pending"
  /\ StageOf("QUEUED_B") = "pending"
  /\ StageOf("B_REPLIED") = "replied" /\ StageOf("FAILED_A_INJECTION") = "replied"
  /\ StageOf("DONE") = "done"
  /\ StageOf("DEADLETTER_B") = "dead_b" /\ StageOf("DEADLETTER_A") = "dead_a"
BY DEF StageOf, Dispatchable, Queued, Injectable

\* A step that touches neither a status nor what the worker wrote nor what gateway A has.
LEMMA StutterStep ==
  ASSUME UNCHANGED status, UNCHANGED followed,
         \A n \in Messages : received'["A"][n] > 0 <=> received["A"][n] > 0
  PROVE  UNCHANGED Lifecycle!vars
BY DEF Lifecycle!vars

\* A step that changes the status of one row along an edge of the lifecycle.
LEMMA StatusStep ==
  ASSUME RowTypeOK, NEW m \in Messages, NEW s \in Statuses,
         status' = [status EXCEPT ![m] = s],
         UNCHANGED <<followed, received>>,
         \/ StageOf(s) = StageOf(status[m])
         \/ status[m] = "ABSENT" /\ s = "RESERVED"
         \/ StageOf(status[m]) = "pending" /\ s = "B_REPLIED" /\ followed[m]
         \/ StageOf(status[m]) = "replied" /\ s = "DONE" /\ received["A"][m] > 0
         \/ StageOf(status[m]) = "pending" /\ s = "DEADLETTER_B"
         \/ StageOf(status[m]) = "replied" /\ s = "DEADLETTER_A"
         \/ status[m] = "DEADLETTER_B" /\ s = "RESERVED"
         \/ status[m] = "DEADLETTER_A" /\ s = "B_REPLIED"
  PROVE  [Lifecycle!Next]_(Lifecycle!vars)
<1> DEFINE stage == [n \in Messages |-> StageOf(status[n])]
           stageN == [n \in Messages |-> StageOf(status'[n])]
<1>1. stageN = [stage EXCEPT ![m] = StageOf(s)]
  BY DEF RowTypeOK
<1>2. /\ {n \in Messages : followed'[n]} = {n \in Messages : followed[n]}
      /\ {n \in Messages : received'["A"][n] > 0} = {n \in Messages : received["A"][n] > 0}
  OBVIOUS
<1>3. CASE StageOf(s) = StageOf(status[m])
  <2>1. stageN = stage
    BY <1>1, <1>3
  <2> QED BY <2>1, <1>2 DEF Lifecycle!vars
<1>4. CASE status[m] = "ABSENT" /\ s = "RESERVED"
  <2>1. Lifecycle!Accept(m)
    BY <1>1, <1>2, <1>4, StageOfValues DEF Lifecycle!Accept, Lifecycle!Moves
  <2> QED BY <2>1 DEF Lifecycle!Next
<1>5. CASE StageOf(status[m]) = "pending" /\ s = "B_REPLIED" /\ followed[m]
  <2>1. Lifecycle!StoreReply(m)
    BY <1>1, <1>2, <1>5, StageOfValues DEF Lifecycle!StoreReply, Lifecycle!Moves
  <2> QED BY <2>1 DEF Lifecycle!Next
<1>6. CASE StageOf(status[m]) = "replied" /\ s = "DONE" /\ received["A"][m] > 0
  <2>1. Lifecycle!Finish(m)
    BY <1>1, <1>2, <1>6, StageOfValues DEF Lifecycle!Finish, Lifecycle!Moves
  <2> QED BY <2>1 DEF Lifecycle!Next
<1>7. CASE \/ StageOf(status[m]) = "pending" /\ s = "DEADLETTER_B"
           \/ StageOf(status[m]) = "replied" /\ s = "DEADLETTER_A"
  <2>1. Lifecycle!GiveUp(m)
    BY <1>1, <1>2, <1>7, StageOfValues DEF Lifecycle!GiveUp, Lifecycle!Moves
  <2> QED BY <2>1 DEF Lifecycle!Next
<1>8. CASE \/ status[m] = "DEADLETTER_B" /\ s = "RESERVED"
           \/ status[m] = "DEADLETTER_A" /\ s = "B_REPLIED"
  <2>1. Lifecycle!Resume(m)
    BY <1>1, <1>2, <1>8, StageOfValues DEF Lifecycle!Resume, Lifecycle!Moves
  <2> QED BY <2>1 DEF Lifecycle!Next
<1> QED BY <1>3, <1>4, <1>5, <1>6, <1>7, <1>8

\* The worker writes a text after m.
LEMMA WriteStep ==
  ASSUME RowTypeOK, followed \in [Messages -> BOOLEAN],
         NEW m \in Messages, status[m] # "ABSENT",
         UNCHANGED status, followed' = [followed EXCEPT ![m] = TRUE],
         \A n \in Messages : received'["A"][n] > 0 <=> received["A"][n] > 0
  PROVE  [Lifecycle!Next]_(Lifecycle!vars)
<1>1. StageOf(status[m]) # "absent"
  BY StageOfValues
     DEF RowTypeOK, Statuses, Dispatchable, Queued, Injectable, Settled, Deadletters
<1>2. {n \in Messages : followed'[n]} = {n \in Messages : followed[n]} \union {m}
  OBVIOUS
<1>3. Lifecycle!Write(m)
  BY <1>1, <1>2 DEF Lifecycle!Write
<1> QED BY <1>3 DEF Lifecycle!Next

\* A copy of the reply of m reaches gateway A.
LEMMA DeliverStep ==
  ASSUME NEW m \in Messages, StageOf(status[m]) = "replied",
         UNCHANGED status, UNCHANGED followed,
         received'["A"][m] > 0,
         \A n \in Messages : n # m => received'["A"][n] = received["A"][n]
  PROVE  [Lifecycle!Next]_(Lifecycle!vars)
<1>1. {n \in Messages : received'["A"][n] > 0}
        = {n \in Messages : received["A"][n] > 0} \union {m}
  OBVIOUS
<1>2. Lifecycle!Deliver(m)
  BY <1>1 DEF Lifecycle!Deliver
<1> QED BY <1>2 DEF Lifecycle!Next

\* Every step of the programs is a step of the lifecycle, one of the three departures, or
\* leaves the lifecycle alone.
LEMMA RefinementStep ==
  ASSUME OneOperator, IInvOne, [RabbitNext]_allVars
  PROVE  [\/ Lifecycle!Next
          \/ \E m \in Messages : Reopens(m) \/ TakesLookalike(m)
          \/ Bypasses]_(Lifecycle!vars)
<1> USE DEF rowVars, loopVars, gatewayVars, opVars, brokerVars, jobVars, consumerVars,
        rabbitVars, Goto, EndRow, SkipRow, TakeRow, At
<1> DEFINE Follows == [Lifecycle!Next]_(Lifecycle!vars)
           Goal == [\/ Lifecycle!Next
                    \/ \E m \in Messages : Reopens(m) \/ TakesLookalike(m)
                    \/ Bypasses]_(Lifecycle!vars)
<1> SUFFICES Goal
  OBVIOUS
<1>g. Follows => Goal
  OBVIOUS
<1>t. /\ RowTypeOK /\ status \in [Messages -> Statuses]
      /\ cur \in Messages \union {0} /\ batch \subseteq Messages
      /\ received \in [Targets -> [Messages -> Nat]] /\ followed \in [Messages -> BOOLEAN]
      /\ op \in [Operators -> [stage : OpStages, msg : Messages \union {0}, target : Targets]]
      /\ \A o \in Operators : op[o].stage # "idle" => op[o].msg \in Messages
      /\ step \in RabbitSteps /\ "A" \in Targets /\ "B" \in Targets
  BY DEF IInvOne, IInv, RabbitTypeOK, RowTypeOK, AnswerInv, KnownInv, Targets
<1>c. /\ step = "next" <=> cur = 0
      /\ step \in DispatchSteps => phase = "dispatch"
      /\ step \in ReplySteps => phase = "consume" /\ InHand("relay", cur)
      /\ step \in InjectSteps => phase = "inject"
  BY DEF IInvOne, IInv, ControlInv
<1>n. Messages \subseteq Nat \ {0}
  BY StoreAssumption
<1>0. \A s \in {"RESERVED", "FAILED_B", "QUEUED_B", "B_REPLIED", "FAILED_A_INJECTION", "DONE",
               "DEADLETTER_B", "DEADLETTER_A"} : s \in Statuses
  BY DEF Statuses, Dispatchable, Queued, Injectable, Settled, Deadletters
<1>p. \A m \in batch \union ({cur} \ {0}) :
          /\ phase = "dispatch" => StageOf(status[m]) = "pending" /\ status[m] \in Dispatchable
          /\ phase = "collect" => StageOf(status[m]) = "pending"
          /\ phase = "inject" => StageOf(status[m]) = "replied"
  BY StageOfValues DEF IInvOne, StatusInv, Dispatchable, Queued, Injectable
<1>o. \A m \in Messages : status[m] \notin Concluded /\ status[m] # "ABSENT" =>
          \/ StageOf(status[m]) = "pending"
          \/ StageOf(status[m]) = "replied" /\ reply[m]
  <2>1. \A m \in Messages : status[m] = "FAILED_A_INJECTION" => reply[m]
    BY DEF IInvOne, IInv, AnswerInv, ReplyHasOrigin, Injectable
  <2>2. \A m \in Messages : status[m] \in Statuses
    BY <1>t
  <2> QED BY <2>1, <2>2, StageOfValues
        DEF Statuses, Dispatchable, Queued, Injectable, Settled, Deadletters, Concluded
<1>k. cur # 0 => status[cur] # "ABSENT"
  BY DEF IInvOne, IInv, AnswerInv, KnownInv
<1>s. UNCHANGED <<status, followed, received>> => Goal
  BY StutterStep
<1>u. ASSUME NEW m \in Messages,
             NEW s \in {"RESERVED", "FAILED_B", "QUEUED_B", "B_REPLIED", "FAILED_A_INJECTION", "DONE",
                        "DEADLETTER_B", "DEADLETTER_A"},
             UpdateStatus(m, s) \/ UpdateStatusLater(m, s) \/ (s = "B_REPLIED" /\ UpdateReply(m)),
             UNCHANGED <<followed, received>>,
             \/ StageOf(s) = StageOf(status[m])
             \/ StageOf(status[m]) = "pending" /\ s = "B_REPLIED" /\ followed[m]
             \/ StageOf(status[m]) = "replied" /\ s = "DONE" /\ received["A"][m] > 0
             \/ StageOf(status[m]) = "pending" /\ s = "DEADLETTER_B"
             \/ StageOf(status[m]) = "replied" /\ s = "DEADLETTER_A"
             \/ status[m] = "DEADLETTER_B" /\ s = "RESERVED"
             \/ status[m] = "DEADLETTER_A" /\ s = "B_REPLIED"
      PROVE  Goal
  <2>1. status' = [status EXCEPT ![m] = s]
    BY <1>u, <1>t DEF UpdateStatus, UpdateStatusLater, UpdateReply
  <2>2. Follows
    BY <1>u, <2>1, <1>0, <1>t, StatusStep
  <2> HIDE DEF Follows, Goal
  <2> QED BY <2>2, <1>g
<1> HIDE DEF Follows
<1>1. ASSUME NEW m \in Messages, PublishDispatch(m) PROVE Goal
  <2>0. StageOf(status[m]) = "pending" /\ UNCHANGED <<followed, received>>
    BY <1>1, <1>c, <1>p, <1>n DEF PublishDispatch, PublishRequest, RecordPublication, MarkQueued, DispatchSkip,
       DispatchExhausted, DispatchExpired, RecordDispatchFailure, DecideDispatchRetry,
       ConcludeDispatchFailure, PublishReady, DispatchReady, IsNextRow, DispatchSteps
  <2> HIDE DEF Goal
  <2>1. CASE UNCHANGED status
    BY <2>0, <2>1, <1>s
  <2>2. CASE MarkQueued(m)
    BY <2>0, <2>2, <1>u, StageOfValues DEF MarkQueued
  <2>3. CASE DispatchExhausted(m)
    BY <2>0, <2>3, <1>u DEF DispatchExhausted
  <2>4. CASE ConcludeDispatchFailure(m)
    BY <2>0, <2>4, <1>u, StageOfValues DEF ConcludeDispatchFailure
  <2> QED BY <1>1, <2>1, <2>2, <2>3, <2>4 DEF PublishDispatch, PublishRequest, RecordPublication,
          DispatchSkip, DispatchExpired, RecordDispatchFailure, DecideDispatchRetry, RecordAttempt
<1>2. ASSUME NEW m \in Messages, ConsumeReplies(m) PROVE Goal
  <2>1. CASE TakeReply(m) \/ IgnoreReply(m) \/ RecordErrorReply(m) \/ AckReply(m) \/ PutBackReply(m)
    <3> HIDE DEF Goal
    <3> QED BY <2>1, <1>s DEF TakeReply, IgnoreReply, RecordErrorReply, RecordAttempt, AckReply, PutBackReply
  <2>2. CASE StoreBrokerReply(m)
    <3>1. Holds("relay") /\ Delivery("relay").payload.msg = m
      BY <2>2, <1>c DEF StoreBrokerReply, ReplySteps, InHand
    <3>2. followed[m]
      <4>1. Genuine(Delivery("relay").payload)
        BY <3>1 DEF IInvOne, IInv, AnswerInv, GenuineInv, Clients
      <4> QED BY <3>1, <4>1, <2>2 DEF Genuine, StoreBrokerReply
    <3>3. StageOf(status[m]) \in {"pending", "replied"}
      BY <2>2, <1>k, <1>n, <1>o DEF StoreBrokerReply
    <3> HIDE DEF Goal
    <3> QED BY <2>2, <3>2, <3>3, <1>u, StageOfValues DEF StoreBrokerReply
  <2>3. CASE ConcludeErrorReply(m)
    <3>1. CASE reply[m]
      BY <2>3, <3>1 DEF Reopens
    <3>2. CASE ~reply[m]
      <4>1. status[m] \notin Concluded /\ status[m] # "ABSENT"
        BY <2>3, <1>k, <1>n DEF ConcludeErrorReply, IInvOne, StatusInv
      <4>2. StageOf(status[m]) = "pending"
        BY <3>2, <4>1, <1>o
      <4> HIDE DEF Goal
      <4> QED BY <2>3, <4>2, <1>u, StageOfValues DEF ConcludeErrorReply
    <3> QED BY <3>1, <3>2
  <2> QED BY <1>2, <2>1, <2>2, <2>3 DEF ConsumeReplies
<1>h. ASSUME ConsumerInject \/ \E m \in Messages : LateArrival("A", m) PROVE Goal
  BY <1>h DEF Bypasses
<1> HIDE DEF Goal
<1>3. ASSUME NEW m \in Messages, CollectSkip(m) \/ CollectReply(m) PROVE Goal
  <2>1. CASE CollectSkip(m)
    BY <2>1, <1>s DEF CollectSkip
  <2>2. CASE CollectReply(m)
    <3>1. CASE view[m] = "lookalike"
      BY <2>2, <3>1 DEF TakesLookalike, Goal
    <3>2. CASE view[m] # "lookalike"
      BY <2>2, <3>2, <1>p, <1>u DEF CollectReply, MayFindReply, MaySeeReply, IsNextRow
    <3> QED BY <3>1, <3>2
  <2> QED BY <1>3, <2>1, <2>2
<1>4. CASE \/ BeginConsume \/ BeginCollect \/ BeginInjectAfterCollect \/ SkipInjectAfterCollect
           \/ (BeginDispatch \/ EndPoll) /\ UNCHANGED rabbitVars
  BY <1>4, <1>s DEF BeginConsume, BeginCollect, BeginInjectAfterCollect,
     SkipInjectAfterCollect, BeginDispatch, EndPoll
<1>5. ASSUME NEW m \in Messages, Inject(m), UNCHANGED rabbitVars PROVE Goal
  <2>0. StageOf(status[m]) = "replied"
    BY <1>5, <1>c, <1>p, <1>n DEF Inject, InjectSkip, InjectExpired, InjectStart, ConfirmInjection, PostInjection,
       ConfirmTimedOutInjection, RecordInjectionSuccess, MarkDone, RecordInjectionFailure,
       ConcludeInjectionFailure, InjectReady, IsNextRow, InjectSteps
  <2>1. CASE UNCHANGED <<status, followed, received>>
    BY <2>1, <1>s
  <2>2. CASE InjectExpired(m)
    BY <2>0, <2>2, <1>u DEF InjectExpired
  <2>3. CASE ConfirmInjection(m)
    BY <2>0, <2>1, <2>3, <1>u DEF ConfirmInjection
  <2>4. CASE PostInjection(m)
    <3>1. UNCHANGED <<status, followed>>
      BY <2>4 DEF PostInjection, PostUncertain
    <3>2. \/ UNCHANGED received
          \/ /\ received'["A"][m] > 0
             /\ \A n \in Messages : n # m => received'["A"][n] = received["A"][n]
      BY <2>4, <1>t DEF PostInjection, Arrives, PostUncertain, StaysInNetwork
    <3>3. CASE UNCHANGED received
      BY <3>1, <3>3, <1>s
    <3>4. CASE /\ received'["A"][m] > 0
               /\ \A n \in Messages : n # m => received'["A"][n] = received["A"][n]
      <4>1. Follows
        BY <2>0, <3>1, <3>4, DeliverStep DEF Follows
      <4> QED BY <4>1, <1>g
    <3> QED BY <3>2, <3>3, <3>4
  <2>5. CASE MarkDone(m)
    <3>1. received["A"][m] > 0
      BY <2>5 DEF MarkDone, IInvOne, IInv, AnswerInv
    <3> QED BY <2>0, <2>5, <3>1, <1>u DEF MarkDone
  <2>6. CASE ConcludeInjectionFailure(m)
    BY <2>0, <2>6, <1>u, StageOfValues DEF ConcludeInjectionFailure
  <2> QED BY <1>5, <2>1, <2>2, <2>3, <2>4, <2>5, <2>6 DEF Inject, InjectSkip, InjectStart,
          ConfirmTimedOutInjection, RecordInjectionSuccess, RecordInjectionFailure, RecordAttempt
<1>6. ASSUME NEW m \in Messages, AdapterWorks(m) PROVE Goal
  <2>1. CASE AdapterPost(m)
    <3>1. status[m] # "ABSENT" /\ UNCHANGED status
      BY <2>1, <1>n DEF AdapterPost, IInvOne, IInv, AnswerInv, KnownInv, adapterKeeps, adapterLeaves
    <3>2. \A n \in Messages : received'["A"][n] = received["A"][n]
      BY <2>1, <1>t DEF AdapterPost, Arrives, PostUncertain, StaysInNetwork, Targets
    <3>3. followed' = [followed EXCEPT ![m] = TRUE] \/ UNCHANGED followed
      BY <2>1 DEF AdapterPost, PostUncertain
    <3>4. CASE followed' = [followed EXCEPT ![m] = TRUE]
      <4>1. Follows
        BY <3>1, <3>2, <3>4, <1>t, WriteStep DEF Follows
      <4> QED BY <4>1, <1>g
    <3>5. CASE UNCHANGED followed
      <4>1. Follows
        BY <3>1, <3>2, <3>5, StutterStep DEF Follows
      <4> QED BY <4>1, <1>g
    <3> QED BY <3>3, <3>4, <3>5
  <2>2. CASE AdapterTake(m) \/ AdapterReply(m) \/ AdapterAck(m)
    BY <2>2, <1>s DEF AdapterTake, AdapterReply, AdapterAck, adapterKeeps, adapterLeaves
  <2> QED BY <1>6, <2>1, <2>2 DEF AdapterWorks
<1>7. CASE AdapterAckFails \/ AdapterFails
  BY <1>7, <1>s DEF AdapterAckFails, AdapterFails, AdapterDies, AdapterLosesConnection,
     AdapterTokenTimesOut, adapterKeeps, adapterLeaves
<1>8. CASE ConsumerTake
  BY <1>8, <1>s DEF ConsumerTake, consumerKeeps
<1>10. ASSUME NEW m \in Messages, World(m) PROVE Goal
  <2>1. CASE Ingest(m)
    <3>1. status' = [status EXCEPT ![m] = "RESERVED"] /\ UNCHANGED <<followed, received>> /\ status[m] = "ABSENT"
      BY <2>1 DEF Ingest, UpdateArtifact
    <3>2. Follows
      BY <3>1, <1>0, <1>t, StatusStep DEF Follows
    <3> QED BY <3>2, <1>g
  <2>2. CASE Expire(m) \/ BackoffElapses(m)
    BY <2>2, <1>s DEF Expire, BackoffElapses
  <2>3. CASE WorkerWrites(m)
    <3>1. status[m] # "ABSENT"
      <4>1. Sent("B", m) > 0
        BY <2>3, <1>t DEF WorkerWrites, Sent, IInvOne, IInv, RabbitTypeOK
      <4> QED BY <4>1 DEF IInvOne, IInv, AnswerInv, KnownInv
    <3>2. Follows
      BY <2>3, <3>1, <1>t, WriteStep DEF Follows, WorkerWrites
    <3> QED BY <3>2, <1>g
  <2>4. CASE LateArrival("A", m)
    BY <2>4, <1>h
  <2>5. CASE LateArrival("B", m)
    <3>1. UNCHANGED <<status, followed>> /\ \A n \in Messages : received'["A"][n] = received["A"][n]
      BY <2>5, <1>t DEF LateArrival, Targets
    <3>2. Follows
      BY <3>1, StutterStep DEF Follows
    <3> QED BY <3>2, <1>g
  <2> QED BY <1>10, <2>1, <2>2, <2>3, <2>4, <2>5 DEF World, Targets
<1>11. CASE Replay
  <2>1. ASSUME NEW o \in Operators, NEW m \in Messages, ReplayRead(o, m) PROVE Goal
    BY <2>1, <1>s DEF ReplayRead
  <2>2. ASSUME NEW o \in Operators, ReplayClear(o) PROVE Goal
    BY <2>2, <1>s DEF ReplayClear, ClearAttempts
  <2>3. ASSUME NEW o \in Operators, ReplaySet(o) PROVE Goal
    <3>1. /\ op[o].msg \in Messages /\ UNCHANGED <<followed, received>>
          /\ status[op[o].msg] = IF op[o].target = "B" THEN "DEADLETTER_B" ELSE "DEADLETTER_A"
      BY <2>3, <1>t DEF ReplaySet, IInvOne, StatusInv
    <3> QED BY <2>3, <3>1, <1>u DEF ReplaySet
  <2> QED BY <1>11, <2>1, <2>2, <2>3 DEF Replay
<1>12. CASE RelayDies
  BY <1>12, <1>s DEF RelayDies, Crash
<1>13. CASE UNCHANGED allVars
  BY <1>13, <1>s DEF allVars, vars
<1>14. CASE RelayWorks
  BY <1>1, <1>2, <1>3, <1>4, <1>5, <1>14 DEF RelayWorks
<1>15. CASE AdapterStep
  BY <1>6, <1>7, <1>15 DEF AdapterStep
<1>16. CASE ((\E m \in Messages : World(m)) \/ Replay) /\ UNCHANGED rabbitVars
  BY <1>10, <1>11, <1>16
<1> QED BY <1>7, <1>8, <1>h, <1>12, <1>13, <1>14, <1>15, <1>16 DEF RabbitNext

\* The relay with transport "rabbitmq" implements the lifecycle of a round trip, but for
\* an error reply that reopens a row, the reply of an exchange that looks like the row,
\* and text that reaches gateway A from the consumer or late: every other step, under any
\* number of deaths, duplicates and lost connections, is one the abstract specification
\* allows.
THEOREM Refinement == ASSUME OneOperator PROVE RabbitSpec => FollowsLifecycle
<1>1. RabbitInit => Lifecycle!Init
  BY StageOfValues DEF RabbitInit, LoopInit, RowInit, Lifecycle!Init, Targets
<1>2. IInvOne /\ [RabbitNext]_allVars =>
          [\/ Lifecycle!Next
           \/ \E m \in Messages : Reopens(m) \/ TakesLookalike(m)
           \/ Bypasses]_(Lifecycle!vars)
  BY RefinementStep
<1> QED BY <1>1, <1>2, InvarianceOne, PTL DEF RabbitSpec, FollowsLifecycle

-----------------------------------------------------------------------------
(* Runs of the worker are bounded.                                         *)

\* A set of places is no larger than one that holds all of them shifted by k.
LEMMA ShiftedPlaces ==
  ASSUME NEW A, NEW B, A \subseteq Int, B \subseteq Int, IsFiniteSet(B), NEW k \in Int,
         \A i \in A : i + k \in B
  PROVE  IsFiniteSet(A) /\ Cardinality(A) <= Cardinality(B)
<1> DEFINE f == [i \in A |-> i + k]
<1>1. f \in [A -> B]
  OBVIOUS
<1>2. \A i, j \in A : f[i] = f[j] => i = j
  OBVIOUS
<1>3. f \in Injection(A, B)
  BY <1>1, <1>2 DEF Injection, IsInjective
<1> HIDE DEF f
<1> QED BY <1>3, FS_Injection

\* A queue has finitely many places.
LEMMA PlacesFinite ==
  ASSUME NEW s \in Seq(Payloads), NEW m
  PROVE  /\ IsFiniteSet(Places(s, m)) /\ Cardinality(Places(s, m)) \in Nat
         /\ Places(s, m) \subseteq Int
<1>1. DOMAIN s = 1..Len(s) /\ Len(s) \in Nat
  OBVIOUS
<1>2. IsFiniteSet(1..Len(s))
  BY <1>1, FS_Interval
<1>3. Places(s, m) \in SUBSET (1..Len(s))
  BY <1>1 DEF Places
<1>4. IsFiniteSet(Places(s, m))
  BY <1>2, <1>3, FS_Subset
<1> QED BY <1>3, <1>4, FS_CardinalityType

\* A message appended or put in front adds a place to its own; one taken away takes one.
LEMMA PlacesAppend ==
  ASSUME NEW s \in Seq(Payloads), NEW p \in Payloads, NEW m, NEW t, t = Append(s, p)
  PROVE  Cardinality(Places(t, m)) <= Cardinality(Places(s, m)) + (IF p.msg = m THEN 1 ELSE 0)
<1>1. /\ t \in Seq(Payloads) /\ Len(s) \in Nat /\ DOMAIN s = 1..Len(s) /\ DOMAIN t = 1..(Len(s) + 1)
      /\ \A i \in 1..Len(s) : t[i] = s[i]
      /\ t[Len(s) + 1] = p
  BY AppendProperties
<1>2. Places(t, m) \subseteq IF p.msg = m THEN Places(s, m) \union {Len(s) + 1} ELSE Places(s, m)
  BY <1>1 DEF Places
<1>3. IsFiniteSet(Places(s, m)) /\ Cardinality(Places(s, m)) \in Nat /\ Cardinality(Places(t, m)) \in Nat
  BY <1>1, PlacesFinite
<1>4. CASE p.msg = m
  <2> DEFINE U == Places(s, m) \union {Len(s) + 1}
  <2>1. IsFiniteSet(U) /\ (Cardinality(U) = Cardinality(Places(s, m)) \/ Cardinality(U) = Cardinality(Places(s, m)) + 1)
    BY <1>3, FS_AddElement
  <2>2. Cardinality(Places(t, m)) <= Cardinality(U)
    BY <1>2, <1>4, <2>1, FS_Subset
  <2> QED BY <1>3, <1>4, <2>1, <2>2
<1>5. CASE p.msg # m
  <2>1. Cardinality(Places(t, m)) <= Cardinality(Places(s, m))
    BY <1>2, <1>3, <1>5, FS_Subset
  <2> QED BY <1>3, <1>5, <2>1
<1> QED BY <1>4, <1>5

LEMMA PlacesTail ==
  ASSUME NEW s \in Seq(Payloads), s # <<>>, NEW m, NEW t, t = Tail(s), NEW p, p = Head(s)
  PROVE  Cardinality(Places(t, m)) + (IF p.msg = m THEN 1 ELSE 0) <= Cardinality(Places(s, m))
<1>1. /\ t \in Seq(Payloads) /\ Len(s) \in Nat /\ Len(s) > 0 /\ DOMAIN s = 1..Len(s)
      /\ DOMAIN t = 1..(Len(s) - 1) /\ p = s[1]
      /\ \A i \in 1..(Len(s) - 1) : t[i] = s[i + 1]
  OBVIOUS
<1>2. /\ IsFiniteSet(Places(s, m)) /\ Cardinality(Places(s, m)) \in Nat /\ Cardinality(Places(t, m)) \in Nat
      /\ Places(s, m) \subseteq Int /\ Places(t, m) \subseteq Int
  BY <1>1, PlacesFinite
<1>3. \A i \in Places(t, m) : i + 1 \in Places(s, m) \ {1}
  BY <1>1 DEF Places
<1>4. IsFiniteSet(Places(s, m) \ {1}) /\ Places(s, m) \ {1} \subseteq Int
  BY <1>2, FS_RemoveElement
<1>5. Cardinality(Places(t, m)) <= Cardinality(Places(s, m) \ {1})
  BY <1>2, <1>3, <1>4, ShiftedPlaces
<1>6. CASE p.msg = m
  <2>1. 1 \in Places(s, m)
    BY <1>1, <1>6 DEF Places
  <2>2. Cardinality(Places(s, m) \ {1}) = Cardinality(Places(s, m)) - 1
    BY <1>2, <2>1, FS_RemoveElement
  <2> QED BY <1>2, <1>5, <1>6, <2>2
<1>7. CASE p.msg # m
  <2>1. Cardinality(Places(s, m) \ {1}) = Cardinality(Places(s, m))
    <3>1. Places(s, m) \ {1} = Places(s, m)
      BY <1>1, <1>7 DEF Places
    <3> QED BY <3>1
  <2> QED BY <1>2, <1>5, <1>7, <2>1
<1> QED BY <1>6, <1>7

LEMMA PlacesInFront ==
  ASSUME NEW s \in Seq(Payloads), NEW p \in Payloads, NEW m, NEW t, t = <<p>> \o s
  PROVE  Cardinality(Places(t, m)) <= Cardinality(Places(s, m)) + (IF p.msg = m THEN 1 ELSE 0)
<1>1. /\ t \in Seq(Payloads) /\ Len(t) = Len(s) + 1
      /\ \A i \in 1..Len(t) : t[i] = IF i = 1 THEN p ELSE s[i - 1]
  BY ConcatProperties, ZenonT(10), SMTT(30)
<1>2. /\ Len(s) \in Nat /\ DOMAIN s = 1..Len(s) /\ DOMAIN t = 1..(Len(s) + 1)
  BY <1>1, LenProperties
<1>3. /\ IsFiniteSet(Places(s, m)) /\ Cardinality(Places(s, m)) \in Nat
      /\ IsFiniteSet(Places(t, m)) /\ Cardinality(Places(t, m)) \in Nat
      /\ Places(s, m) \subseteq Int /\ Places(t, m) \subseteq Int
  BY <1>1, PlacesFinite
<1> DEFINE R == Places(t, m) \ {1}
<1>4. PICK k \in Int : \A i \in R : i + k \in Places(s, m)
  <2>1. \A i \in R : i + (-1) \in Places(s, m)
    BY <1>1, <1>2 DEF Places
  <2> QED BY <2>1
<1>5. Cardinality(R) <= Cardinality(Places(s, m))
  <2> HIDE DEF R
  <2>1. R \subseteq Int
    BY <1>3 DEF R
  <2> QED BY <1>3, <1>4, <2>1, ShiftedPlaces
<1>6. Cardinality(R) = IF p.msg = m THEN Cardinality(Places(t, m)) - 1 ELSE Cardinality(Places(t, m))
  <2>1. 1 \in Places(t, m) <=> p.msg = m
    BY <1>1, <1>2 DEF Places
  <2>2. Cardinality(R) = IF 1 \in Places(t, m) THEN Cardinality(Places(t, m)) - 1 ELSE Cardinality(Places(t, m))
    BY <1>3, FS_RemoveElement
  <2> QED BY <2>1, <2>2
<1> HIDE DEF R
<1> QED BY <1>3, <1>5, <1>6
\* What the operations of the broker do to the requests that wait for the adapter.
LEMMA WaitingEffect ==
  ASSUME BrokerTypeOK, NEW m
  PROVE  /\ Waiting(m) \in Nat
         /\ UNCHANGED ready => Waiting(m)' = Waiting(m)
         /\ \A p \in Payloads :
                /\ Publish("inbox", p) => Waiting(m)' <= Waiting(m) + (IF p.msg = m THEN 1 ELSE 0)
                /\ Publish("reply", p) => Waiting(m)' = Waiting(m)
         /\ \A c \in Clients :
                /\ Fetch(c, "inbox") =>
                       Waiting(m)' + (IF Head(ready["inbox"]).msg = m THEN 1 ELSE 0) <= Waiting(m)
                /\ Fetch(c, "reply") => Waiting(m)' = Waiting(m)
                /\ Settle(c) => Waiting(m)' = Waiting(m)
                /\ Requeue(c) /\ Delivery(c).queue = "reply" => Waiting(m)' = Waiting(m)
                /\ Requeue(c) /\ Delivery(c).queue = "inbox" => Waiting(m)' <= Waiting(m) + 1
<1>0. /\ ready \in [Queues -> Seq(Payloads)] /\ "inbox" \in Queues /\ "reply" \in Queues
      /\ ready["inbox"] \in Seq(Payloads)
  BY DEF BrokerTypeOK, Queues
<1>1. Waiting(m) \in Nat
  BY <1>0, PlacesFinite DEF Waiting
<1>2. ready'["inbox"] = ready["inbox"] => Waiting(m)' = Waiting(m)
  BY DEF Waiting
<1>3. ASSUME NEW p \in Payloads, Publish("inbox", p)
      PROVE  Waiting(m)' <= Waiting(m) + (IF p.msg = m THEN 1 ELSE 0)
  <2>1. ready'["inbox"] = Append(ready["inbox"], p)
    BY <1>0, <1>3 DEF Publish
  <2> QED BY <1>0, <2>1, PlacesAppend DEF Waiting
<1>4. ASSUME NEW p \in Payloads, Publish("reply", p) PROVE Waiting(m)' = Waiting(m)
  BY <1>0, <1>2, <1>4 DEF Publish
<1>5. ASSUME NEW c \in Clients, Fetch(c, "inbox")
      PROVE  Waiting(m)' + (IF Head(ready["inbox"]).msg = m THEN 1 ELSE 0) <= Waiting(m)
  <2>1. ready["inbox"] # <<>> /\ ready'["inbox"] = Tail(ready["inbox"])
    BY <1>0, <1>5 DEF Fetch
  <2> QED BY <1>0, <2>1, PlacesTail DEF Waiting
<1>6. ASSUME NEW c \in Clients, Fetch(c, "reply") PROVE Waiting(m)' = Waiting(m)
  BY <1>0, <1>2, <1>6 DEF Fetch
<1>7. ASSUME NEW c \in Clients, Settle(c) PROVE Waiting(m)' = Waiting(m)
  BY <1>2, <1>7 DEF Settle
<1>8. ASSUME NEW c \in Clients, Requeue(c), Delivery(c).queue = "reply" PROVE Waiting(m)' = Waiting(m)
  BY <1>0, <1>2, <1>8 DEF Requeue
<1>9. ASSUME NEW c \in Clients, Requeue(c), Delivery(c).queue = "inbox" PROVE Waiting(m)' <= Waiting(m) + 1
  <2>1. Delivery(c).payload \in Payloads
    BY <1>9, HeldDelivery DEF Requeue
  <2>2. PICK p \in Payloads : p = Delivery(c).payload
    BY <2>1
  <2>3. ready'["inbox"] = <<p>> \o ready["inbox"]
    BY <1>0, <1>9, <2>2 DEF Requeue
  <2>4. Waiting(m)' <= Waiting(m) + (IF p.msg = m THEN 1 ELSE 0)
    BY <1>0, <2>3, PlacesInFront DEF Waiting
  <2>5. Waiting(m)' \in Nat
    <3>1. BrokerTypeOK'
      BY <1>9, RequeueEffect
    <3> QED BY <1>0, <3>1, PlacesFinite DEF Waiting, BrokerTypeOK
  <2> QED BY <1>1, <2>4, <2>5
<1> QED BY <1>1, <1>2, <1>3, <1>4, <1>5, <1>6, <1>7, <1>8, <1>9

\* No client fetches from a queue of another.
LEMMA RoutesNext == ASSUME RabbitTypeOK, Routes, [RabbitNext]_allVars PROVE Routes'
<1> USE DEF rabbitVars, brokerVars
<1>t. BrokerTypeOK /\ "relay" \in Clients /\ "adapter" \in Clients /\ "consumer" \in Clients
      /\ "inbox" \in Queues /\ "reply" \in Queues
  BY DEF RabbitTypeOK, Clients, Queues
<1>1. UNCHANGED held => Routes'
  BY DEF Routes, Holds, Delivery
<1>2. ASSUME NEW q \in Queues, NEW p, Publish(q, p) PROVE Routes'
  BY <1>1, <1>2 DEF Publish
<1>3. ASSUME NEW c \in Clients, NEW q \in Queues, Fetch(c, q), q = IF c = "adapter" THEN "inbox" ELSE "reply"
      PROVE  Routes'
  <2>1. /\ Holds(c)' /\ Delivery(c)' = [queue |-> q, payload |-> Head(ready[q])]
        /\ \A d \in Clients : d # c => held'[d] = held[d]
    BY <1>3, <1>t, FetchEffect
  <2>2. Delivery(c)'.queue = q
    BY <2>1
  <2> QED BY <1>3, <2>1, <2>2 DEF Routes, Holds, Delivery
<1>4. ASSUME NEW c \in Clients, Settle(c) \/ Requeue(c) PROVE Routes'
  <2>1. ~Holds(c)' /\ \A d \in Clients : d # c => held'[d] = held[d]
    BY <1>4, <1>t, SettleEffect, RequeueEffect
  <2> QED BY <2>1 DEF Routes, Holds, Delivery
<1> HIDE DEF Routes
<1>5. ASSUME NEW m \in Messages, PublishDispatch(m) PROVE Routes'
  BY <1>5, <1>t, <1>1, <1>2 DEF PublishDispatch, PublishRequest, RecordPublication, MarkQueued, PublishUnconfirmed
<1>6. ASSUME NEW m \in Messages, ConsumeReplies(m) PROVE Routes'
  BY <1>6, <1>t, <1>1, <1>3, <1>4 DEF ConsumeReplies, TakeReply, IgnoreReply, StoreBrokerReply,
     RecordErrorReply, ConcludeErrorReply, AckReply, PutBackReply
<1>7. ASSUME NEW m \in Messages, AdapterWorks(m) PROVE Routes'
  BY <1>7, <1>t, <1>1, <1>2, <1>3, <1>4 DEF AdapterWorks, AdapterTake, AdapterPost, AdapterReply, AdapterAck
<1>8. CASE AdapterAckFails \/ AdapterFails \/ ConsumerTake \/ ConsumerInject \/ RelayDies
  BY <1>8, <1>t, <1>1, <1>3, <1>4 DEF AdapterAckFails, AdapterFails, AdapterDies, AdapterLosesConnection,
     AdapterTokenTimesOut, RequeueIfHeld, ConsumerTake, ConsumerInject, RelayDies
<1>9. ASSUME NEW m \in Messages, CollectSkip(m) \/ CollectReply(m) PROVE Routes'
  BY <1>9, <1>1 DEF CollectSkip, CollectReply
<1>10. CASE RelayWorks
  BY <1>1, <1>5, <1>6, <1>9, <1>10 DEF RelayWorks, BeginConsume, BeginCollect, BeginInjectAfterCollect,
     SkipInjectAfterCollect
<1> QED BY <1>1, <1>7, <1>8, <1>10 DEF RabbitNext, AdapterStep, allVars

\* How sums of three grow.
LEMMA ThreeSum ==
  \A s, w, j, t, v, k \in Nat :
      /\ s + w + j \in Nat
      /\ t <= s /\ v <= w /\ k <= j => t + v + k <= s + w + j
      /\ t <= s /\ v <= w + 1 /\ k <= j => t + v + k <= s + w + j + 1
      /\ t <= s /\ v + 1 <= w /\ k <= 1 => t + v + k <= s + w + j
OBVIOUS

\* A step adds a run to those a message has and may have only as a publication or as a
\* fault of the adapter.
LEMMA RunsStep ==
  ASSUME RabbitTypeOK, Routes, [RabbitNext]_allVars, NEW m \in Messages
  PROVE  /\ Runs(m) \in Nat /\ Runs(m)' \in Nat
         /\ \/ Runs(m)' <= Runs(m) /\ adapterFaults' >= adapterFaults
            \/ Runs(m)' <= Runs(m) + 1 /\ adapterFaults' = adapterFaults + 1
            \/ Runs(m)' <= Runs(m) + 1 /\ adapterFaults' = adapterFaults /\ PublishRequest(m)
<1> USE DEF rabbitVars, brokerVars, jobVars, consumerVars
<1>t. /\ BrokerTypeOK /\ "relay" \in Clients /\ "adapter" \in Clients /\ "consumer" \in Clients
      /\ "inbox" \in Queues /\ "reply" \in Queues /\ "A" \in Targets /\ "B" \in Targets
      /\ received \in [Targets -> [Messages -> Nat]] /\ inflight \in [Targets -> [Messages -> Nat]]
      /\ job \in [stage : JobStages, msg : Messages \union {0}] /\ adapterFaults \in Nat
      /\ \A n \in Messages : Request(n) \in Payloads /\ OkReply(n) \in Payloads /\ ErrorReply(n) \in Payloads
      /\ \A n \in Messages : Request(n).msg = n
  BY DEF RabbitTypeOK, Clients, Queues, Targets, Payloads, Request, OkReply, ErrorReply
<1>t2. RabbitTypeOK'
  BY TypeNext
<1> DEFINE S == Sent("B", m)  W == Waiting(m)  J == Posting(m)
<1>n. S \in Nat /\ W \in Nat /\ J \in {0, 1} /\ S' \in Nat /\ W' \in Nat /\ J' \in {0, 1}
  <2>1. S \in Nat /\ S' \in Nat
    BY <1>t, <1>t2 DEF Sent, RabbitTypeOK
  <2>2. W \in Nat
    BY <1>t, WaitingEffect
  <2>3. ready'["inbox"] \in Seq(Payloads)
    BY <1>t, <1>t2 DEF RabbitTypeOK, BrokerTypeOK
  <2>4. W' \in Nat
    BY <2>3, PlacesFinite DEF Waiting
  <2> QED BY <2>1, <2>2, <2>4 DEF Posting
<1>m. Runs(m) \in Nat /\ Runs(m)' \in Nat /\ Runs(m) = S + W + J /\ Runs(m)' = S' + W' + J'
  <2>1. Runs(m) = S + W + J /\ Runs(m)' = S' + W' + J'
    BY DEF Runs
  <2>2. J \in Nat /\ J' \in Nat
    BY <1>n
  <2>3. S + W + J \in Nat /\ S' + W' + J' \in Nat
    BY <1>n, <2>2, ThreeSum, Zenon
  <2> QED BY <2>1, <2>3
<1> DEFINE Goal == \/ S' + W' + J' <= S + W + J /\ adapterFaults' >= adapterFaults
                   \/ S' + W' + J' <= S + W + J + 1 /\ adapterFaults' = adapterFaults + 1
                   \/ /\ S' + W' + J' <= S + W + J + 1 /\ adapterFaults' = adapterFaults
                      /\ PublishRequest(m)
<1> SUFFICES Goal
  BY <1>m
<1>s. UNCHANGED <<received, inflight>> => S' = S
  BY DEF Sent
<1>j. UNCHANGED job => J' = J
  BY DEF Posting
<1>g. ASSUME NEW n \in Messages, Arrives("A", n) \/ StaysInNetwork("A", n) PROVE S' = S
  BY <1>g, <1>t, SendEffect, "A" # "B"
<1>u. ASSUME S' = S, J' = J, UNCHANGED adapterFaults, W' = W PROVE Goal
  <2> HIDE DEF S, W, J
  <2> QED BY <1>u, <1>n, <1>t
<1>r. ASSUME S' = S, J' = J, UNCHANGED adapterFaults, UNCHANGED ready PROVE Goal
  <2>1. W' = W
    BY <1>r, <1>t, WaitingEffect
  <2> HIDE DEF S, W, J, Goal
  <2> QED BY <1>r, <2>1, <1>u
\* A client other than the adapter, or a publication of the adapter, touches the reply queue.
<1>o. ASSUME S' = S, J' = J, UNCHANGED adapterFaults,
             \/ \E c \in Clients : c # "adapter" /\ (Fetch(c, "reply") \/ Settle(c) \/ Requeue(c))
             \/ \E p \in Payloads : Publish("reply", p)
      PROVE  Goal
  <2>1. ASSUME NEW c \in Clients, c # "adapter", Requeue(c) PROVE W' = W
    <3>1. Delivery(c).queue = "reply"
      BY <2>1 DEF Routes, Requeue
    <3> QED BY <2>1, <3>1, <1>t, WaitingEffect
  <2>2. W' = W
    BY <1>o, <1>t, <2>1, WaitingEffect
  <2> HIDE DEF S, W, J, Goal
  <2> QED BY <1>o, <2>2, <1>u
<1> HIDE DEF Goal
<1>1. ASSUME NEW n \in Messages, PublishDispatch(n) PROVE Goal
  <2>0. S' = S /\ J' = J /\ UNCHANGED adapterFaults
    <3>1. UNCHANGED <<received, inflight, job, adapterFaults>>
      BY <1>1 DEF PublishDispatch, PublishRequest, RecordPublication, MarkQueued, DispatchSkip,
         DispatchExhausted, DispatchExpired, RecordDispatchFailure, DecideDispatchRetry,
         ConcludeDispatchFailure, gatewayVars
    <3> QED BY <3>1, <1>s, <1>j
  <2>1. CASE PublishRequest(n) /\ Publish("inbox", Request(n))
    <3>1. W' <= W + (IF n = m THEN 1 ELSE 0)
      BY <2>1, <1>t, WaitingEffect
    <3>2. n = m => PublishRequest(m)
      BY <2>1
    <3>3. CASE n = m
      <4>1. W' <= W + 1 /\ S' <= S /\ J' <= J /\ J \in Nat /\ J' \in Nat
        <5>1. W' <= W + 1
          BY <3>1, <3>3
        <5>2. S' <= S
          BY <2>0, <1>n
        <5>3. J' <= J /\ J \in Nat /\ J' \in Nat
          BY <2>0, <1>n
        <5> QED BY <5>1, <5>2, <5>3
      <4>2. S' + W' + J' <= S + W + J + 1
        BY <4>1, <1>n, ThreeSum, Zenon
      <4> HIDE DEF S, W, J
      <4> QED BY <2>0, <3>2, <3>3, <4>2 DEF Goal
    <3>4. CASE n # m
      <4>1. W' <= W /\ S' <= S /\ J' <= J /\ J \in Nat /\ J' \in Nat
        <5>1. W' <= W
          BY <3>1, <3>4, <1>n
        <5>2. S' <= S
          BY <2>0, <1>n
        <5>3. J' <= J /\ J \in Nat /\ J' \in Nat
          BY <2>0, <1>n
        <5> QED BY <5>1, <5>2, <5>3
      <4>2. S' + W' + J' <= S + W + J
        BY <4>1, <1>n, ThreeSum, Zenon
      <4> HIDE DEF S, W, J
      <4> QED BY <2>0, <4>2, <1>t DEF Goal
    <3> QED BY <3>3, <3>4
  <2>2. CASE UNCHANGED ready
    BY <2>0, <2>2, <1>r
  <2> QED BY <1>1, <2>1, <2>2 DEF PublishDispatch, PublishRequest, RecordPublication, MarkQueued,
           PublishUnconfirmed
<1>2. ASSUME NEW n \in Messages, ConsumeReplies(n) PROVE Goal
  <2>1. S' = S /\ J' = J /\ UNCHANGED adapterFaults
    BY <1>2, <1>s, <1>j DEF ConsumeReplies, TakeReply, IgnoreReply, StoreBrokerReply,
       RecordErrorReply, ConcludeErrorReply, AckReply, PutBackReply, gatewayVars
  <2>2. UNCHANGED ready \/ Fetch("relay", "reply") \/ Settle("relay") \/ Requeue("relay")
    BY <1>2 DEF ConsumeReplies, TakeReply, IgnoreReply, StoreBrokerReply,
       RecordErrorReply, ConcludeErrorReply, AckReply, PutBackReply
  <2> HIDE DEF S, W, J
  <2> QED BY <2>1, <2>2, <1>r, <1>o, <1>t
<1>3. ASSUME NEW n \in Messages, CollectSkip(n) \/ CollectReply(n) PROVE Goal
  BY <1>3, <1>s, <1>j, <1>r DEF CollectSkip, CollectReply, gatewayVars
<1>4. CASE \/ BeginConsume \/ BeginCollect \/ BeginInjectAfterCollect \/ SkipInjectAfterCollect
           \/ (BeginDispatch \/ EndPoll) /\ UNCHANGED rabbitVars
  BY <1>4, <1>s, <1>j, <1>r DEF BeginConsume, BeginCollect, BeginInjectAfterCollect,
     SkipInjectAfterCollect, BeginDispatch, EndPoll, gatewayVars
<1>5. ASSUME NEW n \in Messages, Inject(n), UNCHANGED rabbitVars PROVE Goal
  <2>1. S' = S
    <3>1. CASE PostInjection(n)
      BY <3>1, <1>g DEF PostInjection, PostUncertain
    <3>2. CASE ~PostInjection(n)
      BY <1>5, <3>2, <1>s DEF Inject, InjectSkip, InjectExpired, InjectStart, ConfirmInjection,
         ConfirmTimedOutInjection, RecordInjectionSuccess, MarkDone, RecordInjectionFailure,
         ConcludeInjectionFailure, gatewayVars
    <3> QED BY <3>1, <3>2
  <2> QED BY <1>5, <2>1, <1>j, <1>r
<1>6. ASSUME NEW n \in Messages, AdapterWorks(n) PROVE Goal
  <2>1. CASE AdapterTake(n)
    <3>1. S' = S /\ UNCHANGED adapterFaults
      BY <2>1, <1>s DEF AdapterTake, gatewayVars
    <3>2. W' + (IF n = m THEN 1 ELSE 0) <= W
      BY <2>1, <1>t, WaitingEffect DEF AdapterTake
    <3>3. J' <= IF n = m THEN 1 ELSE 0
      BY <2>1 DEF AdapterTake, Posting
    <3>4. /\ J \in Nat /\ J' \in Nat /\ S' <= S
          /\ (W' + 1 <= W /\ J' <= 1) \/ (W' <= W /\ J' <= J)
      <4>1. J \in Nat /\ J' \in Nat /\ S' <= S
        BY <3>1, <1>n
      <4>2. CASE n = m
        BY <4>1, <4>2, <3>2, <3>3
      <4>3. CASE n # m
        <5>1. W' <= W
          BY <3>2, <4>3, <1>n
        <5>2. J' <= J
          BY <3>3, <4>3, <1>n
        <5> QED BY <4>1, <5>1, <5>2
      <4> QED BY <4>1, <4>2, <4>3
    <3>5. S' + W' + J' <= S + W + J
      BY <3>4, <1>n, ThreeSum, Zenon
    <3> HIDE DEF S, W, J
    <3> QED BY <3>1, <3>5, <1>t DEF Goal
  <2>2. CASE AdapterPost(n)
    <3>1. W' = W /\ UNCHANGED adapterFaults
      BY <2>2, <1>t, WaitingEffect DEF AdapterPost
    <3>2. S' = IF n = m THEN S + 1 ELSE S
      BY <2>2, <1>t, SendEffect DEF AdapterPost, PostUncertain
    <3>3. J = (IF n = m THEN 1 ELSE 0) /\ J' = 0
      BY <2>2, <1>t DEF AdapterPost, Posting
    <3> HIDE DEF S, W, J
    <3> QED BY <3>1, <3>2, <3>3, <1>n, <1>t DEF Goal
  <2>3. CASE AdapterReply(n)
    <3>1. S' = S /\ UNCHANGED adapterFaults
      BY <2>3, <1>s DEF AdapterReply, adapterKeeps, gatewayVars
    <3>2. J' = J
      BY <2>3, <1>t DEF AdapterReply, Posting
    <3>3. \E p \in Payloads : Publish("reply", p)
      BY <2>3, <1>t DEF AdapterReply
    <3> HIDE DEF S, W, J
    <3> QED BY <3>1, <3>2, <3>3, <1>o
  <2>4. CASE AdapterAck(n)
    <3>1. S' = S /\ UNCHANGED adapterFaults
      BY <2>4, <1>s DEF AdapterAck, adapterKeeps, gatewayVars
    <3>2. J' = J
      BY <2>4, <1>t DEF AdapterAck, Posting, NoJob
    <3>3. UNCHANGED ready
      BY <2>4 DEF AdapterAck, Settle
    <3> HIDE DEF S, W, J
    <3> QED BY <3>1, <3>2, <3>3, <1>r
  <2> QED BY <1>6, <2>1, <2>2, <2>3, <2>4 DEF AdapterWorks
<1>7. CASE AdapterAckFails
  <2>1. J' = J
    BY <1>7, <1>t DEF AdapterAckFails, Posting, NoJob
  <2> QED BY <1>7, <2>1, <1>s, <1>r DEF AdapterAckFails, adapterKeeps, gatewayVars
<1>8. CASE AdapterFails
  <2>1. S' = S /\ adapterFaults' = adapterFaults + 1
    BY <1>8, <1>s DEF AdapterFails, AdapterDies, AdapterLosesConnection, AdapterTokenTimesOut, gatewayVars
  <2>2. J' <= J
    BY <1>8, <1>t DEF AdapterFails, AdapterDies, AdapterLosesConnection, AdapterTokenTimesOut, Posting, NoJob
  <2>3. W' <= W + 1
    <3>1. CASE Requeue("adapter")
      <4>1. Delivery("adapter").queue = "inbox"
        BY <3>1, <1>t DEF Routes, Requeue
      <4> QED BY <3>1, <4>1, <1>t, WaitingEffect
    <3>2. CASE UNCHANGED ready
      <4>1. W' = W
        BY <3>2, <1>t, WaitingEffect
      <4> HIDE DEF W
      <4> QED BY <4>1, <1>n
    <3> QED BY <1>8, <3>1, <3>2 DEF AdapterFails, AdapterDies, AdapterLosesConnection, AdapterTokenTimesOut,
             RequeueIfHeld
  <2>4. S' <= S /\ J \in Nat /\ J' \in Nat
    BY <2>1, <1>n
  <2>5. S' + W' + J' <= S + W + J + 1
    BY <2>2, <2>3, <2>4, <1>n, ThreeSum, Zenon
  <2> HIDE DEF S, W, J
  <2> QED BY <2>1, <2>5 DEF Goal
<1>9. CASE ConsumerTake \/ ConsumerInject
  <2>1. J' = J /\ UNCHANGED adapterFaults
    BY <1>9, <1>j DEF ConsumerTake, ConsumerInject, consumerKeeps
  <2>2. S' = S
    <3>1. ConsumerInject => Delivery("consumer").payload.msg \in Messages
      BY <1>t, HeldDelivery DEF ConsumerInject, Payloads
    <3> QED BY <1>9, <3>1, <1>s, <1>g DEF ConsumerTake, ConsumerInject
  <2>3. Fetch("consumer", "reply") \/ Settle("consumer") \/ Requeue("consumer")
    BY <1>9 DEF ConsumerTake, ConsumerInject
  <2> HIDE DEF S, W, J
  <2> QED BY <2>1, <2>2, <2>3, <1>o, <1>t
<1>10. ASSUME NEW n \in Messages, World(n), UNCHANGED rabbitVars PROVE Goal
  <2>1. S' = S
    <3>1. ASSUME NEW t \in Targets, LateArrival(t, n) PROVE S' = S
      BY <3>1, <1>t, LateArrivalEffect
    <3> QED BY <1>10, <3>1, <1>s DEF World, Ingest, Expire, BackoffElapses, WorkerWrites, gatewayVars
  <2> QED BY <1>10, <2>1, <1>j, <1>r
<1>11. CASE Replay /\ UNCHANGED rabbitVars
  BY <1>11, <1>s, <1>j, <1>r DEF Replay, ReplayRead, ReplayClear, ReplaySet, gatewayVars
<1>12. CASE RelayDies
  <2>1. S' = S /\ J' = J /\ UNCHANGED adapterFaults
    BY <1>12, <1>s, <1>j DEF RelayDies, Crash, gatewayVars
  <2>2. UNCHANGED ready \/ Requeue("relay")
    BY <1>12 DEF RelayDies, RequeueIfHeld
  <2> HIDE DEF S, W, J
  <2> QED BY <2>1, <2>2, <1>r, <1>o, <1>t
<1>13. CASE UNCHANGED allVars
  BY <1>13, <1>s, <1>j, <1>r DEF allVars, vars, gatewayVars
<1>14. CASE RelayWorks
  BY <1>1, <1>2, <1>3, <1>4, <1>5, <1>14 DEF RelayWorks
<1> QED BY <1>6, <1>7, <1>8, <1>9, <1>10, <1>11, <1>12, <1>13, <1>14 DEF RabbitNext, AdapterStep

\* A publication opens the account of a row that owes none; only a death of the relay
\* and a replay that clears the attempts take anything from it.
LEMMA SpentStep ==
  ASSUME OneOperator, IInv, StatusInv, [RabbitNext]_allVars, NEW m \in Messages
  PROVE  /\ Spent(m) \in Nat /\ Spent(m)' \in Nat /\ FailuresAtB(m) \in Nat
         /\ PublishRequest(m) => /\ Spent(m)' = Spent(m) + 1 /\ Spent(m) < MaxAttemptsB
                                 /\ UNCHANGED <<op, replays, crashes>>
         /\ \/ Spent(m)' >= Spent(m)
            \/ Spent(m)' + 1 >= Spent(m) /\ crashes' = crashes + 1
            \/ \E o \in Operators : ReplayClear(o)
<1> USE DEF rowVars, loopVars, gatewayVars, opVars, brokerVars, jobVars, consumerVars,
        rabbitVars, Goto, EndRow, SkipRow, TakeRow, At
<1>k. Messages \subseteq Nat \ {0} /\ MaxAttemptsB \in Nat \ {0}
  BY StoreAssumption
<1>t. /\ RowTypeOK /\ cur \in Messages \union {0} /\ batch \subseteq Messages
      /\ op \in [Operators -> [stage : OpStages, msg : Messages \union {0}, target : Targets]]
      /\ crashes \in Nat /\ "A" \in Targets /\ "B" \in Targets /\ "FAILED" \in Results /\ "SUCCESS" \in Results
  BY DEF IInv, RabbitTypeOK, Targets, Results
<1>t2. RowTypeOK'
  BY TypeNext DEF IInv, RabbitTypeOK
<1>c. /\ step = "next" <=> cur = 0
      /\ step \in DispatchSteps => phase = "dispatch"
      /\ step \in ReplySteps => phase = "consume"
      /\ step \in InjectSteps => phase = "inject"
  BY DEF IInv, ControlInv
<1>0. \A s \in {"RESERVED", "FAILED_B", "QUEUED_B", "B_REPLIED", "FAILED_A_INJECTION", "DONE",
               "DEADLETTER_B", "DEADLETTER_A"} : s \in Statuses
  BY DEF Statuses, Dispatchable, Queued, Injectable, Settled, Deadletters
<1>n. FailuresAtB(m) \in Nat /\ FailuresAtB(m)' \in Nat
  BY <1>t, <1>t2 DEF FailuresAtB, RowTypeOK
<1>s. /\ Spent(m) \in Nat /\ Spent(m)' \in Nat
      /\ Spent(m) = FailuresAtB(m) + (IF Unpaid(m) THEN 1 ELSE 0)
      /\ Spent(m)' = FailuresAtB(m)' + (IF Unpaid(m)' THEN 1 ELSE 0)
  BY <1>n DEF Spent
<1> DEFINE Publication == /\ Spent(m)' = Spent(m) + 1 /\ Spent(m) < MaxAttemptsB
                          /\ UNCHANGED <<op, replays, crashes>>
           Keeps == \/ Spent(m)' >= Spent(m)
                    \/ Spent(m)' + 1 >= Spent(m) /\ crashes' = crashes + 1
                    \/ \E o \in Operators : ReplayClear(o)
<1>p. ASSUME PublishRequest(m) PROVE Publication
  <2>1. cur = 0 /\ cur' = m /\ step' \in {"published_b", "failed_b"} /\ UNCHANGED <<attempts, op, replays, crashes>>
    BY <1>p, <1>c DEF PublishRequest, PublishReady, DispatchReady, IsNextRow
  <2>2. status[m] \in Dispatchable
    BY <1>p DEF PublishRequest, PublishReady, DispatchReady, IsNextRow, StatusInv
  <2>3. ~Unpaid(m) /\ Unpaid(m)'
    BY <1>k, <2>1, <2>2 DEF Unpaid
  <2>4. FailuresAtB(m)' = FailuresAtB(m)
    BY <2>1 DEF FailuresAtB
  <2>5. FailuresAtB(m) < MaxAttemptsB
    BY <1>p, <1>n, <1>k DEF PublishRequest, PublishReady, RetryExhausted, MaxAttempts, FailuresAtB
  <2> QED BY <1>n, <1>s, <2>1, <2>3, <2>4, <2>5
<1> SUFFICES Keeps
  BY <1>n, <1>s, <1>p
\* The failures stay, and the row owes what it owed.
<1>g. ASSUME FailuresAtB(m)' = FailuresAtB(m), Unpaid(m) => Unpaid(m)' PROVE Keeps
  BY <1>g, <1>n, <1>s
<1>f. ASSUME FailuresAtB(m)' = FailuresAtB(m) + 1 PROVE Keeps
  BY <1>f, <1>n, <1>s
<1>d. ASSUME FailuresAtB(m)' = FailuresAtB(m), crashes' = crashes + 1 PROVE Keeps
  BY <1>d, <1>n, <1>s
<1>u. UNCHANGED attempts => FailuresAtB(m)' = FailuresAtB(m)
  BY DEF FailuresAtB
<1>e. UNCHANGED <<attempts, status, cur, step>> => Keeps
  BY <1>g, <1>u DEF Unpaid
<1>r. ASSUME NEW n \in Messages, NEW t \in Targets, NEW r \in Results, RecordAttempt(n, t, r)
      PROVE  /\ UNCHANGED status
             /\ FailuresAtB(m)' = IF n = m /\ t = "B" /\ r = "FAILED" THEN FailuresAtB(m) + 1 ELSE FailuresAtB(m)
  BY <1>r, <1>t, RecordAttemptEffect DEF FailuresAtB
<1>w. ASSUME NEW n \in Messages, NEW s \in {"RESERVED", "FAILED_B", "QUEUED_B", "B_REPLIED",
                 "FAILED_A_INJECTION", "DONE", "DEADLETTER_B", "DEADLETTER_A"},
             UpdateStatus(n, s) \/ UpdateStatusLater(n, s)
      PROVE  UNCHANGED attempts /\ status'[m] = IF n = m THEN s ELSE status[m]
  BY <1>w, <1>0, <1>t, UpdateStatusEffect
\* The relay works on another row.
<1>o. ASSUME NEW n \in Messages, n # m, cur \in {0, n}, cur' \in {0, n},
             status'[m] = status[m], FailuresAtB(m)' = FailuresAtB(m)
      PROVE  Keeps
  BY <1>o, <1>g, <1>k DEF Unpaid
\* A row that the relay dispatches, or has got an error reply for, owes nothing but what
\* the point in the loop body says.
<1>q. /\ phase = "dispatch" /\ (cur = m \/ m \in batch) => status[m] \in Dispatchable
      /\ phase = "inject" /\ (cur = m \/ m \in batch) => status[m] \in Injectable
      /\ phase = "collect" /\ m \in batch => status[m] \in Queued
  BY <1>k DEF StatusInv
<1> HIDE DEF Keeps
<1>1. ASSUME NEW n \in Messages, PublishDispatch(n) PROVE Keeps
  <2>1. phase = "dispatch" /\ cur \in {0, n} /\ cur' \in {0, n}
    BY <1>1, <1>c DEF PublishDispatch, PublishRequest, RecordPublication, MarkQueued, DispatchSkip,
       DispatchExhausted, DispatchExpired, RecordDispatchFailure, DecideDispatchRetry,
       ConcludeDispatchFailure, PublishReady, DispatchReady, IsNextRow, DispatchSteps
  <2>2. /\ FailuresAtB(m)' = FailuresAtB(m) \/ (FailuresAtB(m)' = FailuresAtB(m) + 1)
        /\ n # m => FailuresAtB(m)' = FailuresAtB(m) /\ status'[m] = status[m]
    BY <1>1, <1>t, <1>u, <1>r, <1>w DEF PublishDispatch, PublishRequest, RecordPublication, MarkQueued, DispatchSkip,
       DispatchExhausted, DispatchExpired, RecordDispatchFailure, DecideDispatchRetry,
       ConcludeDispatchFailure
  <2>3. CASE n # m
    BY <2>1, <2>2, <2>3, <1>o
  <2>4. CASE n = m
    <3>1. status[m] \in Dispatchable
      BY <2>1, <2>4, <1>1, <1>c, <1>q DEF PublishDispatch, PublishRequest, RecordPublication, MarkQueued, DispatchSkip,
         DispatchExhausted, DispatchExpired, RecordDispatchFailure, DecideDispatchRetry,
         ConcludeDispatchFailure, PublishReady, DispatchReady, IsNextRow
    <3>2. Unpaid(m) => cur = m /\ step \in {"published_b", "queued_b", "failed_b"}
      BY <3>1 DEF Unpaid
    <3>3. CASE Unpaid(m)
      <4>1. CASE RecordPublication(m)
        <5>1. FailuresAtB(m)' = FailuresAtB(m)
          BY <4>1, <1>r, <1>t DEF RecordPublication
        <5> QED BY <4>1, <5>1, <1>g DEF RecordPublication, Unpaid
      <4>2. CASE MarkQueued(m)
        <5>1. FailuresAtB(m)' = FailuresAtB(m) /\ status'[m] = "QUEUED_B"
          BY <4>2, <1>u, <1>w DEF MarkQueued
        <5>2. cur' = 0
          BY <4>2 DEF MarkQueued
        <5>3. Unpaid(m)'
          BY <5>1, <5>2, <1>k DEF Unpaid, Dispatchable
        <5> QED BY <5>1, <5>3, <1>g
      <4>3. CASE RecordDispatchFailure(m)
        <5>1. FailuresAtB(m)' = FailuresAtB(m) + 1
          BY <4>3, <1>r, <1>t DEF RecordDispatchFailure
        <5> QED BY <5>1, <1>f
      <4> QED BY <1>1, <1>k, <1>c, <2>4, <3>2, <3>3, <4>1, <4>2, <4>3 DEF PublishDispatch, PublishRequest,
               DispatchSkip, DispatchExhausted, DispatchExpired, DecideDispatchRetry,
               ConcludeDispatchFailure, PublishReady, DispatchReady, IsNextRow
    <3> QED BY <2>2, <3>3, <1>f, <1>g
  <2> QED BY <2>3, <2>4
<1>2. ASSUME NEW n \in Messages, ConsumeReplies(n) PROVE Keeps
  <2>1. cur \in {0, n} /\ cur' \in {0, n}
    BY <1>2, <1>c DEF ConsumeReplies, TakeReply, IgnoreReply, StoreBrokerReply,
       RecordErrorReply, ConcludeErrorReply, AckReply, PutBackReply
  <2>2. CASE TakeReply(n) \/ IgnoreReply(n) \/ AckReply(n) \/ PutBackReply(n)
    <3>1. UNCHANGED <<attempts, status>>
      BY <2>2 DEF TakeReply, IgnoreReply, AckReply, PutBackReply
    <3>2. step \notin {"published_b", "queued_b", "failed_b"}
      BY <2>2, <1>c DEF TakeReply, IgnoreReply, AckReply, PutBackReply
    <3>3. step' \notin {"backoff_reply", "giveup_reply"}
      BY <2>2 DEF TakeReply, IgnoreReply, AckReply, PutBackReply
    <3> QED BY <3>1, <3>2, <3>3, <1>u, <1>g DEF Unpaid
  <2>3. CASE StoreBrokerReply(n)
    <3>1. UNCHANGED attempts /\ status'[m] = IF n = m THEN "B_REPLIED" ELSE status[m]
      BY <2>3, <1>t, UpdateReplyEffect DEF StoreBrokerReply
    <3>2. n = m => Unpaid(m)'
      BY <2>3, <3>1 DEF StoreBrokerReply, Unpaid, Dispatchable
    <3> QED BY <2>1, <3>1, <3>2, <1>u, <1>g, <1>o
  <2>4. CASE RecordErrorReply(n)
    <3>1. UNCHANGED status /\ FailuresAtB(m)' = IF n = m THEN FailuresAtB(m) + 1 ELSE FailuresAtB(m)
      BY <2>4, <1>t, <1>r DEF RecordErrorReply
    <3> QED BY <2>1, <3>1, <1>f, <1>o
  <2>5. CASE ConcludeErrorReply(n)
    <3>1. UNCHANGED attempts /\ (n # m => status'[m] = status[m])
      BY <2>5, <1>w DEF ConcludeErrorReply
    <3>2. n = m => ~Unpaid(m)
      BY <2>5 DEF ConcludeErrorReply, Unpaid
    <3> QED BY <2>1, <3>1, <3>2, <1>u, <1>g, <1>o
  <2> QED BY <1>2, <2>2, <2>3, <2>4, <2>5 DEF ConsumeReplies
<1>3. ASSUME NEW n \in Messages, CollectSkip(n) \/ CollectReply(n) PROVE Keeps
  <2>1. cur = 0 /\ cur' = 0
    BY <1>3, <1>c DEF CollectSkip, CollectReply, IsNextRow
  <2>2. UNCHANGED attempts /\ (status'[m] = status[m] \/ (n = m /\ status'[m] = "B_REPLIED"))
    BY <1>3, <1>t, UpdateReplyEffect DEF CollectSkip, CollectReply
  <2>3. Unpaid(m) => Unpaid(m)'
    BY <2>1, <2>2, <1>k DEF Unpaid, Dispatchable
  <2> QED BY <2>2, <2>3, <1>u, <1>g
<1>4. CASE \/ BeginConsume \/ BeginCollect \/ BeginInjectAfterCollect \/ SkipInjectAfterCollect
           \/ (BeginDispatch \/ EndPoll) /\ UNCHANGED rabbitVars
  BY <1>4, <1>e DEF BeginConsume, BeginCollect, BeginInjectAfterCollect,
     SkipInjectAfterCollect, BeginDispatch, EndPoll, BeginPass
<1>5. ASSUME NEW n \in Messages, Inject(n), UNCHANGED rabbitVars PROVE Keeps
  <2>1. phase = "inject" /\ cur \in {0, n} /\ cur' \in {0, n}
    BY <1>5, <1>c DEF Inject, InjectSkip, InjectExpired, InjectStart, ConfirmInjection, PostInjection,
       ConfirmTimedOutInjection, RecordInjectionSuccess, MarkDone, RecordInjectionFailure,
       ConcludeInjectionFailure, InjectReady, IsNextRow, InjectSteps
  <2>2. FailuresAtB(m)' = FailuresAtB(m)
    BY <1>5, <1>t, <1>u, <1>r, <1>w, "A" # "B" DEF Inject, InjectSkip, InjectExpired, InjectStart, ConfirmInjection, PostInjection,
       ConfirmTimedOutInjection, RecordInjectionSuccess, MarkDone, RecordInjectionFailure,
       ConcludeInjectionFailure
  <2>3. \/ status'[m] = status[m]
        \/ n = m /\ status'[m] \in {"DEADLETTER_A", "DONE", "FAILED_A_INJECTION"}
    BY <1>5, <1>t, <1>r, <1>w DEF Inject, InjectSkip, InjectExpired, InjectStart, ConfirmInjection, PostInjection,
       ConfirmTimedOutInjection, RecordInjectionSuccess, MarkDone, RecordInjectionFailure,
       ConcludeInjectionFailure
  <2>4. step' \notin {"backoff_reply", "giveup_reply"} /\ step \notin {"published_b", "queued_b", "failed_b"}
    BY <1>5, <1>c, <2>1 DEF Inject, InjectSkip, InjectExpired, InjectStart, ConfirmInjection, PostInjection,
       ConfirmTimedOutInjection, RecordInjectionSuccess, MarkDone, RecordInjectionFailure,
       ConcludeInjectionFailure, IsNextRow, InjectReady
  <2>5. Unpaid(m) => Unpaid(m)'
    BY <2>3, <2>4 DEF Unpaid, Dispatchable
  <2> QED BY <2>2, <2>5, <1>g
<1>6. ASSUME NEW n \in Messages, AdapterWorks(n) PROVE Keeps
  BY <1>6, <1>e DEF AdapterWorks, AdapterTake, AdapterPost, AdapterReply, AdapterAck, adapterKeeps, adapterLeaves
<1>7. CASE AdapterAckFails \/ AdapterFails
  BY <1>7, <1>e DEF AdapterAckFails, AdapterFails, AdapterDies, AdapterLosesConnection,
     AdapterTokenTimesOut, adapterKeeps, adapterLeaves
<1>8. CASE ConsumerTake \/ ConsumerInject
  BY <1>8, <1>e DEF ConsumerTake, ConsumerInject, consumerKeeps
<1>10. ASSUME NEW n \in Messages, World(n), UNCHANGED rabbitVars PROVE Keeps
  <2>1. CASE Ingest(n)
    <3>1. UNCHANGED <<attempts, cur, step>> /\ (n # m => status'[m] = status[m])
      BY <2>1, <1>t DEF Ingest, UpdateArtifact, RowTypeOK
    <3>2. n = m => ~Unpaid(m)
      BY <2>1, <1>c DEF Ingest, Unpaid, DispatchSteps
    <3>3. Unpaid(m) => Unpaid(m)'
      BY <3>1, <3>2 DEF Unpaid
    <3> QED BY <3>1, <3>3, <1>u, <1>g
  <2>2. CASE ~Ingest(n)
    BY <1>10, <2>2, <1>e DEF World, Expire, BackoffElapses, WorkerWrites, LateArrival
  <2> QED BY <2>1, <2>2
<1>11. CASE Replay /\ UNCHANGED rabbitVars
  <2>1. ASSUME NEW o \in Operators, NEW n \in Messages, ReplayRead(o, n) PROVE Keeps
    BY <2>1, <1>e DEF ReplayRead
  <2>2. ASSUME NEW o \in Operators, ReplayClear(o) PROVE Keeps
    BY <2>2 DEF Keeps
  <2>3. ASSUME NEW o \in Operators, ReplaySet(o) PROVE Keeps
    <3>1. op[o].stage = "set" /\ op[o].msg \in Messages /\ UNCHANGED <<cur, step>>
      BY <2>3 DEF ReplaySet, IInv, AnswerInv, KnownInv
    <3>2. status[op[o].msg] = IF op[o].target = "B" THEN "DEADLETTER_B" ELSE "DEADLETTER_A"
      BY <3>1 DEF StatusInv
    <3>3. PICK s \in {"RESERVED", "B_REPLIED"} :
              UpdateStatus(op[o].msg, s) /\ (s = "RESERVED" <=> op[o].target = "B")
      BY <2>3 DEF ReplaySet
    <3>4. UNCHANGED attempts /\ status'[m] = IF op[o].msg = m THEN s ELSE status[m]
      BY <3>1, <3>3, <1>w
    <3>5. op[o].msg = m => /\ ~(cur = m /\ step \in {"published_b", "queued_b", "failed_b"})
                           /\ ~(cur = m /\ step \in {"backoff_reply", "giveup_reply"})
      BY <3>2, <1>c, <1>q DEF StatusInv, DispatchSteps, Dispatchable, Concluded
    <3>6. op[o].msg = m /\ s = "RESERVED" => ~Unpaid(m)
      BY <3>2, <3>3, <3>5 DEF Unpaid
    <3>7. op[o].msg = m /\ s = "B_REPLIED" => Unpaid(m)'
      BY <3>1, <3>4, <3>5 DEF Unpaid, Dispatchable
    <3>8. op[o].msg # m /\ Unpaid(m) => Unpaid(m)'
      BY <3>1, <3>4 DEF Unpaid
    <3> QED BY <3>3, <3>4, <3>6, <3>7, <3>8, <1>u, <1>g
  <2> QED BY <1>11, <2>1, <2>2, <2>3 DEF Replay
<1>12. CASE RelayDies
  BY <1>12, <1>d, <1>u DEF RelayDies, Crash
<1>13. CASE UNCHANGED allVars
  BY <1>13, <1>e DEF allVars, vars
<1>14. CASE RelayWorks
  BY <1>1, <1>2, <1>3, <1>4, <1>5, <1>14 DEF RelayWorks
<1> QED BY <1>6, <1>7, <1>8, <1>10, <1>11, <1>12, <1>13, <1>14 DEF RabbitNext, AdapterStep

\* A product and what is added to it.
LEMMA ProductGrows ==
  \A b, r, e, f \in Nat :
      /\ b * r \in Nat /\ b * r + (e + f) \in Nat
      /\ r > 0 => r - 1 \in Nat /\ b * r + (e + f) = (b * (r - 1) + (e + f)) + b
OBVIOUS

\* What may be run beyond the attempts grows with every death, every fault of the adapter
\* and every replay that clears attempts.
LEMMA ExtraStep ==
  ASSUME OneOperator, RabbitTypeOK, [RabbitNext]_allVars,
         \A o \in Operators : op[o].stage = "clear" => replays > 0
  PROVE  /\ \A o \in Operators : op'[o].stage = "clear" => replays' > 0
         /\ Extra \in Nat /\ Extra' \in Nat
         /\ crashes \in Nat /\ crashes' \in Nat /\ crashes' >= crashes
         /\ adapterFaults \in Nat /\ adapterFaults' \in Nat
         /\ Extra + adapterFaults' + crashes' <= Extra' + adapterFaults + crashes
         /\ (\E o \in Operators : ReplayClear(o)) =>
                Extra' = Extra + MaxAttemptsB /\ UNCHANGED <<crashes, adapterFaults>>
<1> USE DEF opVars, rabbitVars, jobVars
<1>b. MaxAttemptsB \in Nat
  BY StoreAssumption
<1>t. /\ op \in [Operators -> [stage : OpStages, msg : Messages \union {0}, target : Targets]]
      /\ replays \in Nat /\ crashes \in Nat /\ adapterFaults \in Nat
  BY DEF RabbitTypeOK
<1>t2. replays' \in Nat /\ crashes' \in Nat /\ adapterFaults' \in Nat
  BY TypeNext DEF RabbitTypeOK
<1> DEFINE Pending == \A o \in Operators : op[o].stage = "clear" => replays > 0
<1>c. Cleared \in Nat
  BY <1>t DEF Cleared
<1>e. Extra \in Nat /\ Extra = MaxAttemptsB * Cleared + (crashes + adapterFaults)
      /\ Extra' = MaxAttemptsB * Cleared' + (crashes' + adapterFaults')
      /\ MaxAttemptsB * Cleared \in Nat
  BY <1>b, <1>c, <1>t, ProductGrows DEF Extra
<1> DEFINE Goal == /\ Pending'
                   /\ Extra' \in Nat /\ crashes' >= crashes
                   /\ Extra + adapterFaults' + crashes' <= Extra' + adapterFaults + crashes
                   /\ (\E o \in Operators : ReplayClear(o)) =>
                          Extra' = Extra + MaxAttemptsB /\ UNCHANGED <<crashes, adapterFaults>>
<1> SUFFICES Goal
  BY <1>e, <1>t, <1>t2
\* No replay moves on.
<1>n. ASSUME UNCHANGED <<op, replays>>, crashes' >= crashes PROVE Goal
  <2>1. Cleared' = Cleared /\ Pending'
    BY <1>n DEF Cleared
  <2>2. ASSUME NEW o \in Operators, ReplayClear(o) PROVE FALSE
    <3>1. op'[o].stage = "set" /\ op[o].stage = "clear"
      BY <2>2, <1>t DEF ReplayClear
    <3> QED BY <3>1, <1>n
  <2>3. Extra' = MaxAttemptsB * Cleared + (crashes' + adapterFaults')
    BY <2>1, <1>e
  <2> HIDE DEF Pending
  <2> QED BY <1>n, <1>e, <1>t, <1>t2, <2>1, <2>2, <2>3
<1>1. CASE Replay /\ UNCHANGED rabbitVars
  <2>0. UNCHANGED <<crashes, adapterFaults>>
    BY <1>1 DEF Replay, ReplayRead, ReplayClear, ReplaySet
  <2>1. ASSUME NEW o \in Operators, NEW m \in Messages, ReplayRead(o, m) PROVE Goal
    <3>1. op[o].stage = "idle" /\ op'[o].stage = "clear" /\ replays' = replays + 1
      BY <2>1, <1>t DEF ReplayRead
    <3>2. \A p \in Operators : p = o
      BY DEF OneOperator
    <3>3. Cleared' = Cleared /\ Pending'
      <4>1. Cleared = replays
        BY <3>1, <3>2 DEF Cleared
      <4>2. Cleared' = replays' - 1
        BY <3>1, <3>2 DEF Cleared
      <4> QED BY <3>1, <4>1, <4>2, <1>t
    <3>4. ~ \E p \in Operators : ReplayClear(p)
      BY <3>1, <3>2 DEF ReplayClear
    <3>5. Extra' = Extra
      BY <2>0, <3>3, <1>e
    <3> HIDE DEF Pending
    <3> QED BY <2>0, <3>3, <3>4, <3>5, <1>e, <1>t
  <2>2. ASSUME NEW o \in Operators, ReplayClear(o) PROVE Goal
    <3>1. op[o].stage = "clear" /\ op'[o].stage = "set" /\ replays' = replays
      BY <2>2, <1>t DEF ReplayClear
    <3>2. \A p \in Operators : p = o
      BY DEF OneOperator
    <3>3. Cleared = replays - 1 /\ Cleared' = replays /\ Pending' /\ replays > 0
      BY <3>1, <3>2 DEF Cleared
    <3>4. Extra' = Extra + MaxAttemptsB
      <4>1. Extra = MaxAttemptsB * (replays - 1) + (crashes + adapterFaults)
        BY <3>3, <1>e
      <4>2. Extra' = MaxAttemptsB * replays + (crashes + adapterFaults)
        BY <3>3, <2>0, <1>e
      <4> QED BY <4>1, <4>2, <3>3, <1>b, <1>t, ProductGrows
    <3> HIDE DEF Pending
    <3> QED BY <2>0, <3>3, <3>4, <1>e, <1>t, <1>b
  <2>3. ASSUME NEW o \in Operators, ReplaySet(o) PROVE Goal
    <3>1. op[o].stage = "set" /\ op'[o].stage = "idle" /\ replays' = replays
      BY <2>3, <1>t DEF ReplaySet
    <3>2. \A p \in Operators : p = o
      BY DEF OneOperator
    <3>3. Cleared' = Cleared /\ Pending'
      BY <3>1, <3>2 DEF Cleared
    <3>4. ~ \E p \in Operators : ReplayClear(p)
      BY <3>1, <3>2 DEF ReplayClear
    <3>5. Extra' = Extra
      BY <2>0, <3>3, <1>e
    <3> HIDE DEF Pending
    <3> QED BY <2>0, <3>3, <3>4, <3>5, <1>e, <1>t
  <2> QED BY <1>1, <2>1, <2>2, <2>3 DEF Replay
<1> HIDE DEF Goal
<1>2. CASE RelayDies
  <2>1. UNCHANGED <<op, replays>> /\ crashes' >= crashes
    BY <1>2, <1>t DEF RelayDies, Crash
  <2> QED BY <2>1, <1>n
<1>3. UNCHANGED <<op, replays, crashes>> => Goal
  BY <1>n, <1>t
<1>4. ASSUME NEW m \in Messages, PublishDispatch(m) \/ ConsumeReplies(m) PROVE Goal
  BY <1>3, <1>4 DEF PublishDispatch, PublishRequest, RecordPublication, MarkQueued, DispatchSkip,
     DispatchExhausted, DispatchExpired, RecordDispatchFailure, DecideDispatchRetry,
     ConcludeDispatchFailure, ConsumeReplies, TakeReply, IgnoreReply, StoreBrokerReply,
     RecordErrorReply, ConcludeErrorReply, AckReply, PutBackReply
<1>5. ASSUME NEW m \in Messages, CollectSkip(m) \/ CollectReply(m) \/ Inject(m) PROVE Goal
  BY <1>3, <1>5 DEF CollectSkip, CollectReply, Inject, InjectSkip, InjectExpired, InjectStart, ConfirmInjection,
     PostInjection, ConfirmTimedOutInjection, RecordInjectionSuccess, MarkDone, RecordInjectionFailure,
     ConcludeInjectionFailure
<1>6. CASE RelayWorks
  BY <1>3, <1>4, <1>5, <1>6 DEF RelayWorks, BeginConsume, BeginCollect, BeginInjectAfterCollect,
     SkipInjectAfterCollect, BeginDispatch, EndPoll
<1>7. CASE AdapterStep \/ AdapterFails
  BY <1>3, <1>7 DEF AdapterStep, AdapterFails, AdapterWorks, AdapterTake, AdapterPost, AdapterReply, AdapterAck,
     AdapterAckFails, AdapterDies, AdapterLosesConnection, AdapterTokenTimesOut, adapterKeeps, adapterLeaves
<1>8. CASE ConsumerTake \/ ConsumerInject
  BY <1>3, <1>8 DEF ConsumerTake, ConsumerInject, consumerKeeps
<1>9. ASSUME NEW m \in Messages, World(m) PROVE Goal
  BY <1>3, <1>9 DEF World, Ingest, Expire, BackoffElapses, WorkerWrites, LateArrival
<1>10. CASE UNCHANGED allVars
  BY <1>3, <1>10 DEF allVars, vars
<1> QED BY <1>1, <1>2, <1>6, <1>7, <1>8, <1>9, <1>10 DEF RabbitNext

\* What runs gain in a step, the extra gains too, and the deaths besides.
LEMMA GainStep ==
  \A n, k, e, x, f, g, c, d \in Nat :
      k + f <= n + g /\ e + g + d <= x + f + c => k + e + d <= n + x + c
OBVIOUS

\* Each run is paid for, after the step as before it.
LEMMA RunsNext ==
  ASSUME OneOperator, IInv, StatusInv, RunsInv, [RabbitNext]_allVars
  PROVE  RunsInv'
<1>t. RabbitTypeOK /\ Routes /\ \A o \in Operators : op[o].stage = "clear" => replays > 0
  BY DEF IInv, RunsInv, Routes
<1>1. Routes'
  BY <1>t, RoutesNext
<1>2. /\ \A o \in Operators : op'[o].stage = "clear" => replays' > 0
      /\ Extra \in Nat /\ Extra' \in Nat
      /\ crashes \in Nat /\ crashes' \in Nat /\ crashes' >= crashes
      /\ adapterFaults \in Nat /\ adapterFaults' \in Nat
      /\ Extra + adapterFaults' + crashes' <= Extra' + adapterFaults + crashes
  BY <1>t, ExtraStep
<1>r. ASSUME NEW o \in Operators, ReplayClear(o)
      PROVE  Extra' = Extra + MaxAttemptsB /\ adapterFaults' = adapterFaults
  BY <1>r, <1>t, ExtraStep
<1>b. MaxAttemptsB \in Nat
  BY StoreAssumption
<1>3. ASSUME NEW m \in Messages
      PROVE  Runs(m)' <= Spent(m)' + Extra' /\ Runs(m)' <= MaxAttemptsB + Extra'
  <2>1. Runs(m) <= Spent(m) + Extra /\ Runs(m) <= MaxAttemptsB + Extra
    BY DEF RunsInv
  <2>2. /\ Runs(m) \in Nat /\ Runs(m)' \in Nat
        /\ \/ Runs(m)' <= Runs(m) /\ adapterFaults' >= adapterFaults
           \/ Runs(m)' <= Runs(m) + 1 /\ adapterFaults' = adapterFaults + 1
           \/ Runs(m)' <= Runs(m) + 1 /\ adapterFaults' = adapterFaults /\ PublishRequest(m)
    BY <1>t, RunsStep
  <2>3. /\ Spent(m) \in Nat /\ Spent(m)' \in Nat
        /\ PublishRequest(m) => /\ Spent(m)' = Spent(m) + 1 /\ Spent(m) < MaxAttemptsB
                                /\ UNCHANGED <<op, replays, crashes>>
        /\ \/ Spent(m)' >= Spent(m)
           \/ Spent(m)' + 1 >= Spent(m) /\ crashes' = crashes + 1
           \/ \E o \in Operators : ReplayClear(o)
    BY SpentStep
  <2>n. /\ Runs(m) \in Nat /\ Runs(m)' \in Nat /\ Spent(m) \in Nat /\ Spent(m)' \in Nat
        /\ Extra \in Nat /\ Extra' \in Nat /\ crashes \in Nat /\ crashes' \in Nat
    BY <1>2, <2>2, <2>3
  <2> HIDE DEF Runs, Spent, Extra
  <2>4. CASE PublishRequest(m)
    <3>1. /\ Runs(m) + 1 \in Nat /\ Runs(m)' + adapterFaults <= (Runs(m) + 1) + adapterFaults'
          /\ Runs(m) + 1 <= Spent(m)' + Extra /\ Runs(m) + 1 <= MaxAttemptsB + Extra
          /\ Spent(m)' + crashes <= Spent(m)' + crashes' /\ MaxAttemptsB + crashes <= MaxAttemptsB + crashes'
      <4>1. /\ Runs(m) + 1 \in Nat /\ Runs(m)' + adapterFaults <= (Runs(m) + 1) + adapterFaults'
        BY <2>2, <1>2
      <4>2. Runs(m) + 1 <= Spent(m)' + Extra /\ Runs(m) + 1 <= MaxAttemptsB + Extra
        BY <2>1, <2>2, <2>3, <2>4, <1>2, <1>b
      <4>3. Spent(m)' + crashes <= Spent(m)' + crashes' /\ MaxAttemptsB + crashes <= MaxAttemptsB + crashes'
        BY <2>3, <1>2, <1>b
      <4> QED BY <4>1, <4>2, <4>3
    <3>2. Runs(m)' + Extra + crashes' <= (Runs(m) + 1) + Extra' + crashes
      BY <1>2, <2>2, <3>1, GainStep, Zenon
    <3> QED BY <1>b, <2>n, <3>1, <3>2
  <2>5. CASE ~PublishRequest(m)
    <3>1. Runs(m)' + adapterFaults <= Runs(m) + adapterFaults'
      BY <2>2, <2>5, <1>2
    <3>2. Runs(m)' + Extra + crashes' <= Runs(m) + Extra' + crashes
      BY <1>2, <2>2, <3>1, GainStep, Zenon
    <3>3. Runs(m)' <= MaxAttemptsB + Extra'
      <4>1. Runs(m)' + Extra <= Runs(m) + Extra'
        BY <1>2, <2>n, <3>2
      <4> QED BY <1>b, <2>n, <2>1, <4>1
    <3>4. CASE \E o \in Operators : ReplayClear(o)
      <4>1. Extra' = Extra + MaxAttemptsB /\ adapterFaults' = adapterFaults
        BY <3>4, <1>r
      <4>2. Runs(m)' <= Runs(m)
        BY <3>1, <4>1, <2>2, <1>2
      <4> QED BY <1>b, <1>2, <2>1, <2>2, <2>3, <3>3, <4>1, <4>2
    <3>5. CASE Spent(m) + crashes <= Spent(m)' + crashes'
      BY <2>n, <2>1, <3>2, <3>3, <3>5
    <3>6. \/ Spent(m) + crashes <= Spent(m)' + crashes'
          \/ \E o \in Operators : ReplayClear(o)
      BY <2>3, <1>2
    <3> QED BY <3>4, <3>5, <3>6
  <2> QED BY <2>4, <2>5
<1> QED BY <1>1, <1>2, <1>3 DEF RunsInv, Routes

\* The worker is run for a message at most max_attempts_b times, as often again for each
\* replay, and once more for each death of the relay and each delivery the adapter loses
\* (app.py, _dispatch_via_rabbitmq; rabbitmq_runtime.py, process_one).
THEOREM RunsStayBounded == ASSUME OneOperator PROVE RabbitSpec => []RunsAreBounded
<1>1. RabbitInit => RunsInv
  <2> SUFFICES ASSUME RabbitInit PROVE RunsInv
    OBVIOUS
  <2> USE DEF RabbitInit, LoopInit, RowInit, BrokerInit
  <2>1. /\ \A o \in Operators : op[o].stage # "clear"
        /\ \A c \in Clients : ~Holds(c)
    BY DEF Holds
  <2>2. ASSUME NEW m \in Messages PROVE Runs(m) = 0 /\ Spent(m) = 0 /\ Extra = 0
    <3>1. Sent("B", m) = 0
      BY DEF Sent, Targets
    <3>2. Waiting(m) = 0
      <4>1. Places(ready["inbox"], m) = {}
        BY DEF Places, Queues
      <4> QED BY <4>1, FS_EmptySet DEF Waiting
    <3>3. Posting(m) = 0
      BY DEF Posting, NoJob
    <3>4. FailuresAtB(m) = 0
      BY DEF FailuresAtB, Targets, Results
    <3>5. ~Unpaid(m)
      BY DEF Unpaid
    <3>6. Cleared = 0 /\ MaxAttemptsB * 0 = 0
      BY <2>1, StoreAssumption DEF Cleared
    <3> QED BY <3>1, <3>2, <3>3, <3>4, <3>5, <3>6 DEF Runs, Spent, Extra
  <2>3. MaxAttemptsB \in Nat
    BY StoreAssumption
  <2> QED BY <2>1, <2>2, <2>3 DEF RunsInv, Routes
<1>2. IInvOne /\ RunsInv /\ [RabbitNext]_allVars => RunsInv'
  BY RunsNext DEF IInvOne
<1>3. IInvOne /\ RunsInv => RunsAreBounded
  <2> SUFFICES ASSUME IInvOne, RunsInv, NEW m \in Messages
               PROVE  Sent("B", m) <= MaxAttemptsB * (1 + replays) + crashes + adapterFaults
    BY DEF RunsAreBounded
  <2>t. /\ replays \in Nat /\ crashes \in Nat /\ adapterFaults \in Nat /\ MaxAttemptsB \in Nat
        /\ Sent("B", m) \in Nat
    BY StoreAssumption DEF IInvOne, IInv, RabbitTypeOK, Sent, Targets
  <2>1. Sent("B", m) <= Runs(m) /\ Runs(m) \in Nat
    <3>1. ready["inbox"] \in Seq(Payloads)
      BY DEF IInvOne, IInv, RabbitTypeOK, BrokerTypeOK, Queues
    <3>2. Waiting(m) \in Nat /\ Posting(m) \in Nat
      BY <3>1, PlacesFinite DEF Waiting, Posting
    <3> QED BY <2>t, <3>2 DEF Runs
  <2>2. Runs(m) <= MaxAttemptsB + Extra
    BY DEF RunsInv
  <2>3. Cleared \in Nat /\ Cleared <= replays
    BY <2>t DEF Cleared, RunsInv
  <2>4. /\ MaxAttemptsB * Cleared <= MaxAttemptsB * replays
        /\ MaxAttemptsB * Cleared \in Nat /\ MaxAttemptsB * replays \in Nat
        /\ MaxAttemptsB * (1 + replays) = MaxAttemptsB + MaxAttemptsB * replays
    BY <2>t, <2>3
  <2> QED BY <2>t, <2>1, <2>2, <2>4 DEF Extra
<1> QED BY <1>1, <1>2, <1>3, InvarianceOne, PTL DEF RabbitSpec
=============================================================================
