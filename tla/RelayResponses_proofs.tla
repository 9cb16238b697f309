------------------------ MODULE RelayResponses_proofs ------------------------
(***************************************************************************)
(* Theorems about the relay with transport "responses", for every set of   *)
(* messages, every attempt limit and any number of crashes and replays.    *)
(* The inductive invariant IInv is the conjunction of TypeOK, ThreadInv,   *)
(* ReplayInv, ReplyInv and BudgetInv; each part has a lemma saying that a  *)
(* step preserves it, with one case per action.                            *)
(***************************************************************************)
EXTENDS RelayResponses, TLAPS

-----------------------------------------------------------------------------
(* What a nested update does to a table of counters.                       *)

\* A nested update keeps the type of a table of counters, as the gateways
\* received and inflight are.
LEMMA CounterUpdate ==
  ASSUME NEW S, NEW T, NEW f \in [T -> [S -> Nat]], NEW t \in T, NEW m \in S,
         NEW n \in Nat
  PROVE  [f EXCEPT ![t][m] = n] \in [T -> [S -> Nat]]
OBVIOUS

\* Recording an attempt keeps the type of the attempts table and raises the
\* count of its own message, target and result only (state.py, record_attempt).
LEMMA RecordAttemptEffect ==
  ASSUME RowTypeOK, NEW m \in Messages, NEW t \in Targets, NEW r \in Results,
         RecordAttempt(m, t, r)
  PROVE  /\ RowTypeOK'
         /\ attempts'[m][t][r] = attempts[m][t][r] + 1
         /\ \A n \in Messages, u \in Targets, q \in Results :
                n # m \/ u # t \/ q # r => attempts'[n][u][q] = attempts[n][u][q]
BY DEF RowTypeOK, RecordAttempt

\* Clearing the attempts of one target leaves every other count alone
\* (state.py, clear_attempts).
LEMMA ClearAttemptsEffect ==
  ASSUME RowTypeOK, NEW m \in Messages \union {0}, NEW t \in Targets, ClearAttempts(m, t)
  PROVE  /\ RowTypeOK'
         /\ \A n \in Messages, u \in Targets, q \in Results :
                attempts'[n][u][q] = IF n = m /\ u = t THEN 0 ELSE attempts[n][u][q]
BY DEF RowTypeOK, ClearAttempts

-----------------------------------------------------------------------------
(* The initial states.                                                     *)

\* A relay that starts with an empty database satisfies the invariant.
LEMMA InvInit == Init => IInv
<1> SUFFICES ASSUME Init PROVE IInv
  OBVIOUS
<1> USE StoreAssumption, LoopAssumption DEF Init, LoopInit, RowInit
<1>1. TypeOK
  BY DEF TypeOK, RowTypeOK, Statuses, Phases, Steps, OpStages, Targets
<1>2. ThreadInv /\ ReplayInv
  BY DEF ThreadInv, ReplayInv, DispatchSteps, InjectSteps
<1>3. ReplyInv
  BY DEF ReplyInv, Sent, Targets, Injectable
<1>4. BudgetInv
  BY DEF BudgetInv, RetryBudget, GiveUpIsJustified, MaxAttempts, Targets, Results
<1> QED BY <1>1, <1>2, <1>3, <1>4 DEF IInv

-----------------------------------------------------------------------------
(* Steps.                                                                  *)

\* Every step keeps the types, with any number of operators.
LEMMA TypeNext ==
  ASSUME TypeOK, [Next]_vars
  PROVE  TypeOK'
<1> USE StoreAssumption DEF TypeOK, RowTypeOK, RecordAttempt, UpdateStatus,
            UpdateStatusLater, Arrives, StaysInNetwork, PostUncertain, Targets, Results,
            rowVars, loopVars, gatewayVars, opVars, Statuses, Dispatchable, Queued, Injectable,
            Settled, Deadletters, Phases, Steps, DispatchSteps, InjectSteps, OpStages
<1>1. ASSUME NEW m \in Messages, Dispatch(m)
     PROVE  TypeOK'
  <2>1. CASE DispatchSkip(m)
    BY <2>1 DEF DispatchSkip, IsNextRow, SkipRow
  <2>2. CASE DispatchExhausted(m)
    BY <2>2 DEF DispatchExhausted, DispatchReady, IsNextRow, SkipRow
  <2>3. CASE DispatchExpired(m)
    BY <2>3 DEF DispatchExpired, DispatchReady, IsNextRow, TakeRow, NextAttemptNo
  <2>4. CASE DispatchNoToken(m)
    BY <2>4 DEF DispatchNoToken, DispatchReady, IsNextRow, SkipRow
  <2>5. CASE DispatchStart(m)
    BY <2>5 DEF DispatchStart, DispatchReady, IsNextRow, TakeRow
  <2>6. CASE ConfirmDispatch(m)
    BY <2>6 DEF ConfirmDispatch, At, Goto, EndRow, MaySeeReply
  <2>7. CASE PostDispatch(m)
    <3> USE DEF PostDispatch, At, Goto
    <3>1. received' \in [Targets -> [Messages -> Nat]]
      BY <2>7, CounterUpdate
    <3>2. inflight' \in [Targets -> [Messages -> Nat]]
      BY <2>7, CounterUpdate
    <3> QED BY <2>7, <3>1, <3>2
  <2>8. CASE ConfirmTimedOutDispatch(m)
    BY <2>8 DEF ConfirmTimedOutDispatch, At, Goto, MaySeeReply
  <2>9. CASE RecordDispatchSuccess(m)
    <3>1. RowTypeOK'
      BY <2>9, RecordAttemptEffect DEF RecordDispatchSuccess
    <3> QED BY <2>9, <3>1 DEF RecordDispatchSuccess, At, Goto
  <2>10. CASE StoreReply(m)
    BY <2>10 DEF StoreReply, At, EndRow, UpdateReply
  <2>11. CASE StoreReplyFails(m)
    BY <2>11 DEF StoreReplyFails, At, Goto
  <2>12. CASE RecordSeenRequest(m)
    BY <2>12 DEF RecordSeenRequest, At, Goto
  <2>13. CASE RecordDispatchFailure(m)
    BY <2>13 DEF RecordDispatchFailure, At, Goto
  <2>14. CASE DecideDispatchRetry(m)
    BY <2>14 DEF DecideDispatchRetry, At, Goto
  <2>15. CASE ConcludeDispatchFailure(m)
    BY <2>15 DEF ConcludeDispatchFailure, At, EndRow
  <2> QED BY <1>1, <2>1, <2>2, <2>3, <2>4, <2>5, <2>6, <2>7, <2>8, <2>9, <2>10, <2>11,
          <2>12, <2>13, <2>14, <2>15 DEF Dispatch
<1>2. ASSUME NEW m \in Messages, Inject(m)
     PROVE  TypeOK'
  <2>1. CASE InjectSkip(m)
    BY <2>1 DEF InjectSkip, IsNextRow, SkipRow
  <2>2. CASE InjectExpired(m)
    BY <2>2 DEF InjectExpired, InjectReady, IsNextRow, SkipRow
  <2>3. CASE InjectStart(m)
    BY <2>3 DEF InjectStart, InjectReady, IsNextRow, TakeRow
  <2>4. CASE ConfirmInjection(m)
    BY <2>4 DEF ConfirmInjection, At, Goto, EndRow, MaySeeInjection
  <2>5. CASE PostInjection(m)
    <3> USE DEF PostInjection, At, Goto
    <3>1. received' \in [Targets -> [Messages -> Nat]]
      BY <2>5, CounterUpdate
    <3>2. inflight' \in [Targets -> [Messages -> Nat]]
      BY <2>5, CounterUpdate
    <3> QED BY <2>5, <3>1, <3>2
  <2>6. CASE ConfirmTimedOutInjection(m)
    BY <2>6 DEF ConfirmTimedOutInjection, At, Goto, MaySeeInjection
  <2>7. CASE RecordInjectionSuccess(m)
    BY <2>7 DEF RecordInjectionSuccess, At, Goto
  <2>8. CASE MarkDone(m)
    BY <2>8 DEF MarkDone, At, EndRow
  <2>9. CASE RecordInjectionFailure(m)
    BY <2>9 DEF RecordInjectionFailure, At, Goto, NextAttemptNo
  <2>10. CASE ConcludeInjectionFailure(m)
    BY <2>10 DEF ConcludeInjectionFailure, At, EndRow
  <2> QED BY <1>2, <2>1, <2>2, <2>3, <2>4, <2>5, <2>6, <2>7, <2>8, <2>9, <2>10 DEF Inject
<1>3. ASSUME BeginDispatch \/ BeginInject \/ SkipInject \/ EndPoll
     PROVE  TypeOK'
  BY <1>3 DEF BeginDispatch, BeginInject, SkipInject, EndPoll, BeginPass, PassOver
<1>4. ASSUME NEW m \in Messages, World(m)
     PROVE  TypeOK'
  <2>1. CASE Ingest(m)
    BY <2>1 DEF Ingest, UpdateArtifact
  <2>2. CASE Expire(m)
    BY <2>2 DEF Expire
  <2>3. CASE BackoffElapses(m)
    BY <2>3 DEF BackoffElapses
  <2>4. CASE WorkerWrites(m)
    BY <2>4 DEF WorkerWrites
  <2>5. ASSUME NEW t \in Targets, LateArrival(t, m)
        PROVE  TypeOK'
    BY <2>5 DEF LateArrival
  <2> QED BY <1>4, <2>1, <2>2, <2>3, <2>4, <2>5 DEF World
<1>5. ASSUME NEW o \in Operators, NEW m \in Messages, ReplayRead(o, m)
     PROVE  TypeOK'
  BY <1>5 DEF ReplayRead
<1>6. ASSUME NEW o \in Operators, ReplayClear(o)
     PROVE  TypeOK'
  <2>1. op[o].msg \in Messages \union {0} /\ op[o].target \in Targets
    BY <1>6
  <2>2. RowTypeOK'
    BY <1>6, <2>1, ClearAttemptsEffect DEF ReplayClear
  <2>3. op' \in [Operators -> [stage : OpStages, msg : Messages \union {0}, target : Targets]]
    <3>1. op' = [op EXCEPT ![o].stage = "set"]
      BY <1>6 DEF ReplayClear
    <3>2. [op[o] EXCEPT !.stage = "set"] \in
              [stage : OpStages, msg : Messages \union {0}, target : Targets]
      <4>1. op[o] \in [stage : OpStages, msg : Messages \union {0}, target : Targets]
        OBVIOUS
      <4> QED BY <4>1
    <3> QED BY <3>1, <3>2
  <2> QED BY <1>6, <2>2, <2>3 DEF ReplayClear
<1>7. ASSUME NEW o \in Operators, ReplaySet(o)
     PROVE  TypeOK'
  BY <1>7 DEF ReplaySet
<1>8. CASE Crash
  BY <1>8 DEF Crash
<1>9. CASE UNCHANGED vars
  BY <1>9 DEF vars
<1> QED BY <1>1, <1>2, <1>3, <1>4, <1>5, <1>6, <1>7, <1>8, <1>9
        DEF Next, PollStep, Replay

\* The thread works on rows that nobody else moves.
LEMMA ThreadNext ==
  ASSUME OneOperator, IInv, [Next]_vars
  PROVE  ThreadInv'
<1> USE StoreAssumption DEF IInv, TypeOK, RowTypeOK, ThreadInv, ReplayInv, OneOperator,
            RecordAttempt, UpdateStatus, UpdateStatusLater, Arrives, StaysInNetwork,
            PostUncertain, Targets, Results, rowVars, loopVars, gatewayVars, opVars,
            Statuses, Dispatchable, Queued, Injectable, Settled, Deadletters, Phases, Steps,
            DispatchSteps, InjectSteps, OpStages
<1>1. ASSUME NEW m \in Messages, Dispatch(m)
     PROVE  ThreadInv'
  <2>1. CASE DispatchSkip(m)
    BY <2>1 DEF DispatchSkip, IsNextRow, SkipRow
  <2>2. CASE DispatchExhausted(m)
    BY <2>2 DEF DispatchExhausted, DispatchReady, IsNextRow, SkipRow
  <2>3. CASE DispatchExpired(m)
    BY <2>3 DEF DispatchExpired, DispatchReady, IsNextRow, TakeRow, NextAttemptNo
  <2>4. CASE DispatchNoToken(m)
    BY <2>4 DEF DispatchNoToken, DispatchReady, IsNextRow, SkipRow
  <2>5. CASE DispatchStart(m)
    BY <2>5 DEF DispatchStart, DispatchReady, IsNextRow, TakeRow
  <2>6. CASE ConfirmDispatch(m)
    BY <2>6 DEF ConfirmDispatch, At, Goto, EndRow, MaySeeReply
  <2>7. CASE PostDispatch(m)
    BY <2>7 DEF PostDispatch, At, Goto, PostUncertain
  <2>8. CASE ConfirmTimedOutDispatch(m)
    BY <2>8 DEF ConfirmTimedOutDispatch, At, Goto, MaySeeReply
  <2>9. CASE RecordDispatchSuccess(m)
    BY <2>9 DEF RecordDispatchSuccess, At, Goto
  <2>10. CASE StoreReply(m)
    BY <2>10 DEF StoreReply, At, EndRow, UpdateReply
  <2>11. CASE StoreReplyFails(m)
    BY <2>11 DEF StoreReplyFails, At, Goto
  <2>12. CASE RecordSeenRequest(m)
    BY <2>12 DEF RecordSeenRequest, At, Goto
  <2>13. CASE RecordDispatchFailure(m)
    BY <2>13 DEF RecordDispatchFailure, At, Goto
  <2>14. CASE DecideDispatchRetry(m)
    BY <2>14 DEF DecideDispatchRetry, At, Goto
  <2>15. CASE ConcludeDispatchFailure(m)
    BY <2>15 DEF ConcludeDispatchFailure, At, EndRow
  <2> QED BY <1>1, <2>1, <2>2, <2>3, <2>4, <2>5, <2>6, <2>7, <2>8, <2>9, <2>10, <2>11,
          <2>12, <2>13, <2>14, <2>15 DEF Dispatch
<1>2. ASSUME NEW m \in Messages, Inject(m)
     PROVE  ThreadInv'
  <2>1. CASE InjectSkip(m)
    BY <2>1 DEF InjectSkip, IsNextRow, SkipRow
  <2>2. CASE InjectExpired(m)
    BY <2>2 DEF InjectExpired, InjectReady, IsNextRow, SkipRow
  <2>3. CASE InjectStart(m)
    BY <2>3 DEF InjectStart, InjectReady, IsNextRow, TakeRow
  <2>4. CASE ConfirmInjection(m)
    BY <2>4 DEF ConfirmInjection, At, Goto, EndRow, MaySeeInjection
  <2>5. CASE PostInjection(m)
    BY <2>5 DEF PostInjection, At, Goto, PostUncertain
  <2>6. CASE ConfirmTimedOutInjection(m)
    BY <2>6 DEF ConfirmTimedOutInjection, At, Goto, MaySeeInjection
  <2>7. CASE RecordInjectionSuccess(m)
    BY <2>7 DEF RecordInjectionSuccess, At, Goto
  <2>8. CASE MarkDone(m)
    BY <2>8 DEF MarkDone, At, EndRow
  <2>9. CASE RecordInjectionFailure(m)
    BY <2>9 DEF RecordInjectionFailure, At, Goto, NextAttemptNo
  <2>10. CASE ConcludeInjectionFailure(m)
    BY <2>10 DEF ConcludeInjectionFailure, At, EndRow
  <2> QED BY <1>2, <2>1, <2>2, <2>3, <2>4, <2>5, <2>6, <2>7, <2>8, <2>9, <2>10 DEF Inject
<1>3. ASSUME BeginDispatch \/ BeginInject \/ SkipInject \/ EndPoll
     PROVE  ThreadInv'
  BY <1>3 DEF BeginDispatch, BeginInject, SkipInject, EndPoll, BeginPass, PassOver
<1>4. ASSUME NEW m \in Messages, World(m)
     PROVE  ThreadInv'
  <2>1. CASE Ingest(m)
    BY <2>1 DEF Ingest, UpdateArtifact
  <2>2. CASE Expire(m)
    BY <2>2 DEF Expire
  <2>3. CASE BackoffElapses(m)
    BY <2>3 DEF BackoffElapses
  <2>4. CASE WorkerWrites(m)
    BY <2>4 DEF WorkerWrites
  <2>5. ASSUME NEW t \in Targets, LateArrival(t, m)
        PROVE  ThreadInv'
    BY <2>5 DEF LateArrival
  <2> QED BY <1>4, <2>1, <2>2, <2>3, <2>4, <2>5 DEF World
<1>5. ASSUME NEW o \in Operators, NEW m \in Messages, ReplayRead(o, m)
     PROVE  ThreadInv'
  BY <1>5 DEF ReplayRead
<1>6. ASSUME NEW o \in Operators, ReplayClear(o)
     PROVE  ThreadInv'
  BY <1>6 DEF ReplayClear, ClearAttempts
<1>7. ASSUME NEW o \in Operators, ReplaySet(o)
     PROVE  ThreadInv'
  BY <1>7 DEF ReplaySet
<1>8. CASE Crash
  BY <1>8 DEF Crash
<1>9. CASE UNCHANGED vars
  BY <1>9 DEF vars
<1> QED BY <1>1, <1>2, <1>3, <1>4, <1>5, <1>6, <1>7, <1>8, <1>9
        DEF Next, PollStep, Replay

\* Nobody moves a deadlettered row while an operator replays it.
LEMMA ReplayNext ==
  ASSUME OneOperator, IInv, [Next]_vars
  PROVE  ReplayInv'
<1> USE StoreAssumption DEF IInv, TypeOK, RowTypeOK, ThreadInv, ReplayInv, OneOperator,
            RecordAttempt, UpdateStatus, UpdateStatusLater, Arrives, StaysInNetwork,
            PostUncertain, Targets, Results, rowVars, loopVars, gatewayVars, opVars,
            Statuses, Dispatchable, Queued, Injectable, Settled, Deadletters, Phases, Steps,
            DispatchSteps, InjectSteps, OpStages
<1>1. ASSUME NEW m \in Messages, Dispatch(m)
     PROVE  ReplayInv'
  <2>1. CASE DispatchSkip(m)
    BY <2>1 DEF DispatchSkip, IsNextRow, SkipRow
  <2>2. CASE DispatchExhausted(m)
    BY <2>2 DEF DispatchExhausted, DispatchReady, IsNextRow, SkipRow
  <2>3. CASE DispatchExpired(m)
    BY <2>3 DEF DispatchExpired, DispatchReady, IsNextRow, TakeRow, NextAttemptNo
  <2>4. CASE DispatchNoToken(m)
    BY <2>4 DEF DispatchNoToken, DispatchReady, IsNextRow, SkipRow
  <2>5. CASE DispatchStart(m)
    BY <2>5 DEF DispatchStart, DispatchReady, IsNextRow, TakeRow
  <2>6. CASE ConfirmDispatch(m)
    <3>1. status[m] \notin Deadletters
      BY <2>6 DEF ConfirmDispatch, At
    <3>2. \A n \in Messages : n # m => status'[n] = status[n]
      BY <2>6 DEF ConfirmDispatch
    <3>3. op' = op
      BY <2>6 DEF ConfirmDispatch
    <3> QED BY <3>1, <3>2, <3>3
  <2>7. CASE PostDispatch(m)
    BY <2>7 DEF PostDispatch, At, Goto, PostUncertain
  <2>8. CASE ConfirmTimedOutDispatch(m)
    BY <2>8 DEF ConfirmTimedOutDispatch, At, Goto, MaySeeReply
  <2>9. CASE RecordDispatchSuccess(m)
    BY <2>9 DEF RecordDispatchSuccess, At, Goto
  <2>10. CASE StoreReply(m)
    BY <2>10 DEF StoreReply, At, EndRow, UpdateReply
  <2>11. CASE StoreReplyFails(m)
    BY <2>11 DEF StoreReplyFails, At, Goto
  <2>12. CASE RecordSeenRequest(m)
    BY <2>12 DEF RecordSeenRequest, At, Goto
  <2>13. CASE RecordDispatchFailure(m)
    BY <2>13 DEF RecordDispatchFailure, At, Goto
  <2>14. CASE DecideDispatchRetry(m)
    BY <2>14 DEF DecideDispatchRetry, At, Goto
  <2>15. CASE ConcludeDispatchFailure(m)
    <3>1. status[m] \notin Deadletters
      BY <2>15 DEF ConcludeDispatchFailure, At
    <3>2. \A k \in Messages : k # m => status'[k] = status[k]
      BY <2>15 DEF ConcludeDispatchFailure
    <3>3. op' = op
      BY <2>15 DEF ConcludeDispatchFailure
    <3> QED BY <3>1, <3>2, <3>3
  <2> QED BY <1>1, <2>1, <2>2, <2>3, <2>4, <2>5, <2>6, <2>7, <2>8, <2>9, <2>10, <2>11,
          <2>12, <2>13, <2>14, <2>15 DEF Dispatch
<1>2. ASSUME NEW m \in Messages, Inject(m)
     PROVE  ReplayInv'
  <2>1. CASE InjectSkip(m)
    BY <2>1 DEF InjectSkip, IsNextRow, SkipRow
  <2>2. CASE InjectExpired(m)
    BY <2>2 DEF InjectExpired, InjectReady, IsNextRow, SkipRow
  <2>3. CASE InjectStart(m)
    BY <2>3 DEF InjectStart, InjectReady, IsNextRow, TakeRow
  <2>4. CASE ConfirmInjection(m)
    <3>1. status[m] \notin Deadletters
      BY <2>4 DEF ConfirmInjection, At
    <3>2. \A n \in Messages : n # m => status'[n] = status[n]
      BY <2>4 DEF ConfirmInjection
    <3>3. op' = op
      BY <2>4 DEF ConfirmInjection
    <3> QED BY <3>1, <3>2, <3>3
  <2>5. CASE PostInjection(m)
    BY <2>5 DEF PostInjection, At, Goto, PostUncertain
  <2>6. CASE ConfirmTimedOutInjection(m)
    BY <2>6 DEF ConfirmTimedOutInjection, At, Goto, MaySeeInjection
  <2>7. CASE RecordInjectionSuccess(m)
    BY <2>7 DEF RecordInjectionSuccess, At, Goto
  <2>8. CASE MarkDone(m)
    BY <2>8 DEF MarkDone, At, EndRow
  <2>9. CASE RecordInjectionFailure(m)
    BY <2>9 DEF RecordInjectionFailure, At, Goto, NextAttemptNo
  <2>10. CASE ConcludeInjectionFailure(m)
    <3>1. status[m] \notin Deadletters
      BY <2>10 DEF ConcludeInjectionFailure, At
    <3>2. \A n \in Messages : n # m => status'[n] = status[n]
      BY <2>10 DEF ConcludeInjectionFailure
    <3>3. op' = op
      BY <2>10 DEF ConcludeInjectionFailure
    <3> QED BY <3>1, <3>2, <3>3
  <2> QED BY <1>2, <2>1, <2>2, <2>3, <2>4, <2>5, <2>6, <2>7, <2>8, <2>9, <2>10 DEF Inject
<1>3. ASSUME BeginDispatch \/ BeginInject \/ SkipInject \/ EndPoll
     PROVE  ReplayInv'
  BY <1>3 DEF BeginDispatch, BeginInject, SkipInject, EndPoll, BeginPass, PassOver
<1>4. ASSUME NEW m \in Messages, World(m)
     PROVE  ReplayInv'
  <2>1. CASE Ingest(m)
    BY <2>1 DEF Ingest, UpdateArtifact
  <2>2. CASE Expire(m)
    BY <2>2 DEF Expire
  <2>3. CASE BackoffElapses(m)
    BY <2>3 DEF BackoffElapses
  <2>4. CASE WorkerWrites(m)
    BY <2>4 DEF WorkerWrites
  <2>5. ASSUME NEW t \in Targets, LateArrival(t, m)
        PROVE  ReplayInv'
    BY <2>5 DEF LateArrival
  <2> QED BY <1>4, <2>1, <2>2, <2>3, <2>4, <2>5 DEF World
<1>5. ASSUME NEW o \in Operators, NEW m \in Messages, ReplayRead(o, m)
     PROVE  ReplayInv'
  BY <1>5 DEF ReplayRead
<1>6. ASSUME NEW o \in Operators, ReplayClear(o)
     PROVE  ReplayInv'
  BY <1>6 DEF ReplayClear, ClearAttempts
<1>7. ASSUME NEW o \in Operators, ReplaySet(o)
     PROVE  ReplayInv'
  <2>1. ASSUME NEW p \in Operators, op'[p].stage # "idle" PROVE FALSE
    BY <1>7, <2>1 DEF ReplaySet
  <2> QED BY <2>1
<1>8. CASE Crash
  BY <1>8 DEF Crash
<1>9. CASE UNCHANGED vars
  BY <1>9 DEF vars
<1> QED BY <1>1, <1>2, <1>3, <1>4, <1>5, <1>6, <1>7, <1>8, <1>9
        DEF Next, PollStep, Replay

\* Replies are stored after a text follows the request and delivered after that.
LEMMA ReplyNext ==
  ASSUME OneOperator, IInv, [Next]_vars
  PROVE  ReplyInv'
<1> USE StoreAssumption DEF IInv, TypeOK, RowTypeOK, ThreadInv, ReplayInv, ReplyInv, Sent,
            RecordAttempt, UpdateStatus, UpdateStatusLater, Arrives, StaysInNetwork,
            PostUncertain, Targets, Results, rowVars, loopVars, gatewayVars, opVars,
            Statuses, Dispatchable, Queued, Injectable, Settled, Deadletters, Phases, Steps,
            DispatchSteps, InjectSteps, OpStages
<1>1. ASSUME NEW m \in Messages, Dispatch(m)
     PROVE  ReplyInv'
  <2>1. CASE DispatchSkip(m)
    BY <2>1 DEF DispatchSkip, IsNextRow, SkipRow
  <2>2. CASE DispatchExhausted(m)
    BY <2>2 DEF DispatchExhausted, DispatchReady, IsNextRow, SkipRow
  <2>3. CASE DispatchExpired(m)
    BY <2>3 DEF DispatchExpired, DispatchReady, IsNextRow, TakeRow, NextAttemptNo
  <2>4. CASE DispatchNoToken(m)
    BY <2>4 DEF DispatchNoToken, DispatchReady, IsNextRow, SkipRow
  <2>5. CASE DispatchStart(m)
    BY <2>5 DEF DispatchStart, DispatchReady, IsNextRow, TakeRow
  <2>6. CASE ConfirmDispatch(m)
    BY <2>6 DEF ConfirmDispatch, At, Goto, EndRow, MaySeeReply
  <2>7. CASE PostDispatch(m)
    <3> USE DEF PostDispatch, At, Goto
    <3>1. UNCHANGED <<status, reply>> /\ cur' = m /\ status[m] # "ABSENT"
      BY <2>7
    <3>2. \A n \in Messages : /\ received'["A"][n] = received["A"][n]
                             /\ inflight'["A"][n] = inflight["A"][n]
      BY <2>7
    <3>3. \A n \in Messages : n # m => /\ received'["B"][n] = received["B"][n]
                                       /\ inflight'["B"][n] = inflight["B"][n]
      BY <2>7
    <3>4. /\ \A n \in Messages : followed[n] => followed'[n]
          /\ step' \in {"got_reply", "got_no_text", "timed_out_b", "failed_b"}
          /\ step' = "got_reply" => followed'[m]
      BY <2>7
    <3> QED BY <3>1, <3>2, <3>3, <3>4
  <2>8. CASE ConfirmTimedOutDispatch(m)
    BY <2>8 DEF ConfirmTimedOutDispatch, At, Goto, MaySeeReply
  <2>9. CASE RecordDispatchSuccess(m)
    BY <2>9 DEF RecordDispatchSuccess, At, Goto
  <2>10. CASE StoreReply(m)
    BY <2>10 DEF StoreReply, At, EndRow, UpdateReply
  <2>11. CASE StoreReplyFails(m)
    BY <2>11 DEF StoreReplyFails, At, Goto
  <2>12. CASE RecordSeenRequest(m)
    BY <2>12 DEF RecordSeenRequest, At, Goto
  <2>13. CASE RecordDispatchFailure(m)
    BY <2>13 DEF RecordDispatchFailure, At, Goto
  <2>14. CASE DecideDispatchRetry(m)
    BY <2>14 DEF DecideDispatchRetry, At, Goto
  <2>15. CASE ConcludeDispatchFailure(m)
    BY <2>15 DEF ConcludeDispatchFailure, At, EndRow
  <2> QED BY <1>1, <2>1, <2>2, <2>3, <2>4, <2>5, <2>6, <2>7, <2>8, <2>9, <2>10, <2>11,
          <2>12, <2>13, <2>14, <2>15 DEF Dispatch
<1>2. ASSUME NEW m \in Messages, Inject(m)
     PROVE  ReplyInv'
  <2>1. CASE InjectSkip(m)
    BY <2>1 DEF InjectSkip, IsNextRow, SkipRow
  <2>2. CASE InjectExpired(m)
    BY <2>2 DEF InjectExpired, InjectReady, IsNextRow, SkipRow
  <2>3. CASE InjectStart(m)
    BY <2>3 DEF InjectStart, InjectReady, IsNextRow, TakeRow
  <2>4. CASE ConfirmInjection(m)
    BY <2>4 DEF ConfirmInjection, At, Goto, EndRow, MaySeeInjection
  <2>5. CASE PostInjection(m)
    <3> USE DEF PostInjection, At, Goto
    <3>1. CASE Arrives("A", m)
      BY <2>5, <3>1
    <3>2. CASE StaysInNetwork("A", m)
      BY <2>5, <3>2
    <3> QED BY <2>5, <3>1, <3>2
  <2>6. CASE ConfirmTimedOutInjection(m)
    BY <2>6 DEF ConfirmTimedOutInjection, At, Goto, MaySeeInjection
  <2>7. CASE RecordInjectionSuccess(m)
    BY <2>7 DEF RecordInjectionSuccess, At, Goto
  <2>8. CASE MarkDone(m)
    BY <2>8 DEF MarkDone, At, EndRow
  <2>9. CASE RecordInjectionFailure(m)
    BY <2>9 DEF RecordInjectionFailure, At, Goto, NextAttemptNo
  <2>10. CASE ConcludeInjectionFailure(m)
    BY <2>10 DEF ConcludeInjectionFailure, At, EndRow
  <2> QED BY <1>2, <2>1, <2>2, <2>3, <2>4, <2>5, <2>6, <2>7, <2>8, <2>9, <2>10 DEF Inject
<1>3. ASSUME BeginDispatch \/ BeginInject \/ SkipInject \/ EndPoll
     PROVE  ReplyInv'
  BY <1>3 DEF BeginDispatch, BeginInject, SkipInject, EndPoll, BeginPass, PassOver
<1>4. ASSUME NEW m \in Messages, World(m)
     PROVE  ReplyInv'
  <2>1. CASE Ingest(m)
    BY <2>1 DEF Ingest, UpdateArtifact
  <2>2. CASE Expire(m)
    BY <2>2 DEF Expire
  <2>3. CASE BackoffElapses(m)
    BY <2>3 DEF BackoffElapses
  <2>4. CASE WorkerWrites(m)
    BY <2>4 DEF WorkerWrites
  <2>5. ASSUME NEW t \in Targets, LateArrival(t, m)
        PROVE  ReplyInv'
    BY <2>5 DEF LateArrival
  <2> QED BY <1>4, <2>1, <2>2, <2>3, <2>4, <2>5 DEF World
<1>5. ASSUME NEW o \in Operators, NEW m \in Messages, ReplayRead(o, m)
     PROVE  ReplyInv'
  BY <1>5 DEF ReplayRead
<1>6. ASSUME NEW o \in Operators, ReplayClear(o)
     PROVE  ReplyInv'
  BY <1>6 DEF ReplayClear, ClearAttempts
<1>7. ASSUME NEW o \in Operators, ReplaySet(o)
     PROVE  ReplyInv'
  BY <1>7 DEF ReplaySet
<1>8. CASE Crash
  BY <1>8 DEF Crash
<1>9. CASE UNCHANGED vars
  BY <1>9 DEF vars
<1> QED BY <1>1, <1>2, <1>3, <1>4, <1>5, <1>6, <1>7, <1>8, <1>9
        DEF Next, PollStep, Replay

\* Attempts are counted before they are compared, on every path.
LEMMA BudgetNext ==
  ASSUME OneOperator, IInv, [Next]_vars
  PROVE  BudgetInv'
<1> USE StoreAssumption DEF IInv, TypeOK, RowTypeOK, ThreadInv, ReplayInv, BudgetInv,
            RetryBudget, GiveUpIsJustified, RetryExhausted, CountAttempts, MaxAttempts,
            BeingReplayed, RecordAttempt, UpdateStatus, UpdateStatusLater, Arrives,
            StaysInNetwork, PostUncertain, Targets, Results, rowVars, loopVars, gatewayVars,
            opVars, Statuses, Dispatchable, Queued, Injectable, Settled, Deadletters, Phases, Steps,
            DispatchSteps, InjectSteps, OpStages
<1>1. ASSUME NEW m \in Messages, Dispatch(m)
     PROVE  BudgetInv'
  <2>1. CASE DispatchSkip(m)
    BY <2>1 DEF DispatchSkip, IsNextRow, SkipRow
  <2>2. CASE DispatchExhausted(m)
    BY <2>2 DEF DispatchExhausted, DispatchReady, IsNextRow, SkipRow
  <2>3. CASE DispatchExpired(m)
    BY <2>3 DEF DispatchExpired, DispatchReady, IsNextRow, TakeRow, NextAttemptNo
  <2>4. CASE DispatchNoToken(m)
    BY <2>4 DEF DispatchNoToken, DispatchReady, IsNextRow, SkipRow
  <2>5. CASE DispatchStart(m)
    BY <2>5 DEF DispatchStart, DispatchReady, IsNextRow, TakeRow
  <2>6. CASE ConfirmDispatch(m)
    BY <2>6 DEF ConfirmDispatch, At, Goto, EndRow, MaySeeReply
  <2>7. CASE PostDispatch(m)
    BY <2>7 DEF PostDispatch, At, Goto, PostUncertain
  <2>8. CASE ConfirmTimedOutDispatch(m)
    BY <2>8 DEF ConfirmTimedOutDispatch, At, Goto, MaySeeReply
  <2>9. CASE RecordDispatchSuccess(m)
    BY <2>9 DEF RecordDispatchSuccess, At, Goto
  <2>10. CASE StoreReply(m)
    BY <2>10 DEF StoreReply, At, EndRow, UpdateReply
  <2>11. CASE StoreReplyFails(m)
    BY <2>11 DEF StoreReplyFails, At, Goto
  <2>12. CASE RecordSeenRequest(m)
    BY <2>12 DEF RecordSeenRequest, At, Goto
  <2>13. CASE RecordDispatchFailure(m)
    BY <2>13 DEF RecordDispatchFailure, At, Goto
  <2>14. CASE DecideDispatchRetry(m)
    BY <2>14 DEF DecideDispatchRetry, At, Goto
  <2>15. CASE ConcludeDispatchFailure(m)
    BY <2>15 DEF ConcludeDispatchFailure, At, EndRow
  <2> QED BY <1>1, <2>1, <2>2, <2>3, <2>4, <2>5, <2>6, <2>7, <2>8, <2>9, <2>10, <2>11,
          <2>12, <2>13, <2>14, <2>15 DEF Dispatch
<1>2. ASSUME NEW m \in Messages, Inject(m)
     PROVE  BudgetInv'
  <2>1. CASE InjectSkip(m)
    BY <2>1 DEF InjectSkip, IsNextRow, SkipRow
  <2>2. CASE InjectExpired(m)
    BY <2>2 DEF InjectExpired, InjectReady, IsNextRow, SkipRow
  <2>3. CASE InjectStart(m)
    BY <2>3 DEF InjectStart, InjectReady, IsNextRow, TakeRow
  <2>4. CASE ConfirmInjection(m)
    BY <2>4 DEF ConfirmInjection, At, Goto, EndRow, MaySeeInjection
  <2>5. CASE PostInjection(m)
    BY <2>5 DEF PostInjection, At, Goto, PostUncertain
  <2>6. CASE ConfirmTimedOutInjection(m)
    BY <2>6 DEF ConfirmTimedOutInjection, At, Goto, MaySeeInjection
  <2>7. CASE RecordInjectionSuccess(m)
    BY <2>7 DEF RecordInjectionSuccess, At, Goto
  <2>8. CASE MarkDone(m)
    BY <2>8 DEF MarkDone, At, EndRow
  <2>9. CASE RecordInjectionFailure(m)
    BY <2>9 DEF RecordInjectionFailure, At, Goto, NextAttemptNo
  <2>10. CASE ConcludeInjectionFailure(m)
    BY <2>10 DEF ConcludeInjectionFailure, At, EndRow
  <2> QED BY <1>2, <2>1, <2>2, <2>3, <2>4, <2>5, <2>6, <2>7, <2>8, <2>9, <2>10 DEF Inject
<1>3. ASSUME BeginDispatch \/ BeginInject \/ SkipInject \/ EndPoll
     PROVE  BudgetInv'
  <2> USE DEF BeginDispatch, BeginInject, SkipInject, EndPoll, BeginPass, PassOver
  <2>1. CASE BeginDispatch
    BY <2>1
  <2>2. CASE BeginInject
    BY <2>2
  <2>3. CASE SkipInject \/ EndPoll
    BY <2>3
  <2> QED BY <1>3, <2>1, <2>2, <2>3
<1>4. ASSUME NEW m \in Messages, World(m)
     PROVE  BudgetInv'
  <2>1. CASE Ingest(m)
    BY <2>1 DEF Ingest, UpdateArtifact
  <2>2. CASE Expire(m)
    BY <2>2 DEF Expire
  <2>3. CASE BackoffElapses(m)
    BY <2>3 DEF BackoffElapses
  <2>4. CASE WorkerWrites(m)
    BY <2>4 DEF WorkerWrites
  <2>5. ASSUME NEW t \in Targets, LateArrival(t, m)
        PROVE  BudgetInv'
    BY <2>5 DEF LateArrival
  <2> QED BY <1>4, <2>1, <2>2, <2>3, <2>4, <2>5 DEF World
<1>5. ASSUME NEW o \in Operators, NEW m \in Messages, ReplayRead(o, m)
     PROVE  BudgetInv'
  BY <1>5 DEF ReplayRead
<1>6. ASSUME NEW o \in Operators, ReplayClear(o)
     PROVE  BudgetInv'
  <2>1. op[o].msg \in Messages /\ op[o].target \in Targets
    BY <1>6 DEF ReplayClear
  <2>2. \A n \in Messages, u \in Targets, q \in Results :
            attempts'[n][u][q] = IF n = op[o].msg /\ u = op[o].target THEN 0 ELSE attempts[n][u][q]
    BY <1>6, <2>1, ClearAttemptsEffect DEF ReplayClear
  <2>3. \A n \in Messages : BeingReplayed(n) => BeingReplayed(n)'
    BY <1>6 DEF ReplayClear
  <2>4. BeingReplayed(op[o].msg)
    BY <1>6 DEF ReplayClear
  <2>5. cur # op[o].msg
    BY <1>6 DEF ReplayClear
  <2> QED BY <1>6, <2>1, <2>2, <2>3, <2>4, <2>5 DEF ReplayClear, ClearAttempts
<1>7. ASSUME NEW o \in Operators, ReplaySet(o)
     PROVE  BudgetInv'
  BY <1>7 DEF ReplaySet
<1>8. CASE Crash
  BY <1>8 DEF Crash
<1>9. CASE UNCHANGED vars
  BY <1>9 DEF vars
<1> QED BY <1>1, <1>2, <1>3, <1>4, <1>5, <1>6, <1>7, <1>8, <1>9
        DEF Next, PollStep, Replay


\* Every step keeps the inductive invariant.
LEMMA InvNext == ASSUME OneOperator, IInv, [Next]_vars PROVE IInv'
<1>1. TypeOK'
  BY TypeNext DEF IInv
<1>2. ThreadInv' /\ ReplayInv' /\ ReplyInv' /\ BudgetInv'
  BY ThreadNext, ReplayNext, ReplyNext, BudgetNext
<1> QED BY <1>1, <1>2 DEF IInv

-----------------------------------------------------------------------------
(* Theorems.                                                               *)

\* Every variable keeps its type, with any number of operators.
THEOREM TypeCorrect == Spec => []TypeOK
<1>1. Init => TypeOK
  BY InvInit DEF IInv
<1>2. TypeOK /\ [Next]_vars => TypeOK'
  BY TypeNext
<1> QED BY <1>1, <1>2, PTL DEF Spec

\* With one operator, the inductive invariant holds in every reachable state.
THEOREM Invariance == ASSUME OneOperator PROVE Spec => []IInv
<1>1. Init => IInv
  BY InvInit
<1>2. IInv /\ [Next]_vars => IInv'
  BY InvNext
<1> QED BY <1>1, <1>2, PTL DEF Spec

\* A row is DONE only when the reply stands in the session of gateway A
\* (app.py, _inject_replied_messages).
THEOREM DoneDelivered == ASSUME OneOperator PROVE Spec => []DoneIsDelivered
<1>1. IInv => DoneIsDelivered
  BY DEF IInv, ReplyInv, DoneIsDelivered
<1> QED BY <1>1, Invariance, PTL

\* A reply that is stored, injected or finished is the response to the request or was
\* read from the worker's session after it: the worker has the request, and a text
\* follows it (app.py, _dispatch_reserved_messages and _inject_replied_messages).
THEOREM RepliesFollowRequests == ASSUME OneOperator PROVE Spec => []ReplyFollowsRequest
<1>1. IInv => ReplyFollowsRequest
  BY DEF IInv, ReplyInv, ReplyFollowsRequest
<1> QED BY <1>1, Invariance, PTL

\* Recorded failures stay within max_attempts_b and max_attempts_a.
THEOREM BudgetKept == ASSUME OneOperator PROVE Spec => []RetryBudget
<1>1. IInv => RetryBudget
  BY DEF IInv, BudgetInv
<1> QED BY <1>1, Invariance, PTL

\* A deadlettered row has used up its attempts, or its TTL on the way back.
THEOREM GiveUpJustified == ASSUME OneOperator PROVE Spec => []GiveUpIsJustified
<1>1. IInv => GiveUpIsJustified
  BY DEF IInv, BudgetInv
<1> QED BY <1>1, Invariance, PTL

\* No step sends a request to the worker once its reply is stored: only
\* PostDispatch sends one, and it works on a row without a reply.
THEOREM NeverRedispatched == ASSUME OneOperator PROVE Spec => NoRedispatch
<1>1. IInv /\ [Next]_vars
        => [\A m \in Messages : Sent("B", m)' > Sent("B", m) => ~reply[m]]_vars
  <2> SUFFICES ASSUME IInv, Next, NEW n \in Messages, Sent("B", n)' > Sent("B", n)
               PROVE  ~reply[n]
    OBVIOUS
  <2> USE DEF IInv, TypeOK, Targets, gatewayVars
  <2>1. ASSUME NEW m \in Messages, PostDispatch(m) PROVE ~reply[n]
    <3>1. n = m
      BY <2>1 DEF PostDispatch, Arrives, PostUncertain, StaysInNetwork, Sent
    <3> QED BY <2>1, <3>1 DEF PostDispatch, At, ThreadInv, ReplyInv, DispatchSteps,
            Dispatchable, Injectable
  <2>2. ASSUME NEW m \in Messages, PostInjection(m) PROVE FALSE
    BY <2>2 DEF PostInjection, Arrives, PostUncertain, StaysInNetwork, Sent
  <2>3. ASSUME NEW m \in Messages, NEW t \in Targets, LateArrival(t, m) PROVE FALSE
    BY <2>3 DEF LateArrival, Sent
  <2>4. ASSUME NEW m \in Messages, WorkerWrites(m) PROVE FALSE
    BY <2>4 DEF WorkerWrites, Sent
  <2>5. ASSUME UNCHANGED gatewayVars PROVE FALSE
    BY <2>5 DEF Sent
  <2> QED
    BY <2>1, <2>2, <2>3, <2>4, <2>5 DEF Next, PollStep, World, Replay, Crash,
       Dispatch, Inject, BeginDispatch, BeginInject, SkipInject, EndPoll,
       DispatchSkip, DispatchExhausted, DispatchExpired, DispatchNoToken, DispatchStart,
       ConfirmDispatch, ConfirmTimedOutDispatch, RecordDispatchSuccess, StoreReply,
       StoreReplyFails, RecordSeenRequest, RecordDispatchFailure, DecideDispatchRetry,
       ConcludeDispatchFailure, InjectSkip, InjectExpired, InjectStart, ConfirmInjection,
       ConfirmTimedOutInjection, RecordInjectionSuccess, MarkDone, RecordInjectionFailure,
       ConcludeInjectionFailure, Ingest, Expire, BackoffElapses, ReplayRead, ReplayClear,
       ReplaySet
<1> QED BY <1>1, Invariance, PTL DEF Spec, NoRedispatch

-----------------------------------------------------------------------------
(* Copies sent are bounded.                                                *)

\* A bound w + a + c on n stays one while w does not shrink.
LEMMA BoundGrows ==
  \A n, w, v, a, c \in Nat :
      /\ n <= w + a + c /\ w <= v => n <= v + a + c
      /\ n <= w + a + c => n + 1 <= (w + 1) + a + c
      /\ n <= w + a + c /\ w < v => n + 1 <= v + a + c
      /\ n <= w + a + c /\ w <= v + 1 => n <= v + a + (c + 1)
      /\ n <= w + a + c => n <= w + a + (c + 1)
      /\ n <= w + a + c => n <= v + (a + w) + c
OBVIOUS

\* What one more replay allows.
LEMMA Product ==
  \A k, r \in Nat : /\ k * r \in Nat /\ k * (r + 1) = k * r + k /\ k * (1 + r) = k + k * r
                    /\ r > 0 => k * r = k * (r - 1) + k
OBVIOUS

\* A step that sends a copy has attempts left and none pending for its message; one that
\* records an attempt pays for it; a replay that clears the attempts allows as many again.
LEMMA SendsNext ==
  ASSUME OneOperator, IInv, SendsInv, [Next]_vars
  PROVE  SendsInv'
<1> USE DEF rowVars, loopVars, gatewayVars, opVars, Goto, EndRow, SkipRow, TakeRow, At
<1>n. Messages \subseteq Nat \ {0} /\ MaxAttemptsB \in Nat \ {0} /\ MaxAttemptsA \in Nat \ {0}
  BY StoreAssumption
<1>t. /\ RowTypeOK /\ cur \in Messages \union {0} /\ batch \subseteq Messages
      /\ received \in [Targets -> [Messages -> Nat]]
      /\ inflight \in [Targets -> [Messages -> Nat]]
      /\ op \in [Operators -> [stage : OpStages, msg : Messages \union {0}, target : Targets]]
      /\ \A o \in Operators : op[o].stage # "idle" => op[o].msg \in Messages
      /\ crashes \in Nat /\ replays \in Nat /\ step \in Steps
      /\ attempts \in [Messages -> [Targets -> [Results -> Nat]]]
      /\ "A" \in Targets /\ "B" \in Targets /\ "SUCCESS" \in Results /\ "FAILED" \in Results
  BY DEF IInv, TypeOK, RowTypeOK, ReplayInv, Targets, Results
<1>t2. TypeOK'
  BY TypeNext DEF IInv
<1>c. /\ step = "next" <=> cur = 0
      /\ step \in DispatchSteps => phase = "dispatch" /\ ~reply[cur]
      /\ step \in InjectSteps => phase = "inject"
  <2>1. step \in DispatchSteps => cur \in Messages /\ status[cur] \in Dispatchable
    BY <1>t, <1>n DEF IInv, ThreadInv, DispatchSteps
  <2>2. \A m \in Messages : status[m] \in Dispatchable => ~reply[m]
    BY DEF IInv, ReplyInv, Dispatchable, Injectable
  <2> QED BY <2>1, <2>2 DEF IInv, ThreadInv
<1> DEFINE Bounded(m, t) ==
             /\ Sent(t, m) <= Spent(m, t) + MaxAttempts(t) * Cleared + crashes
             /\ Sent(t, m) <= MaxAttempts(t) + MaxAttempts(t) * Cleared + crashes
           Pending == \A o \in Operators : op[o].stage = "clear" => replays > 0
           Goal == Pending' /\ \A m \in Messages, t \in Targets : Bounded(m, t)'
<1>p. Pending /\ \A m \in Messages, t \in Targets : Bounded(m, t)
  BY DEF SendsInv
<1> SUFFICES Goal
  BY DEF SendsInv
<1>a. Cleared \in Nat /\ \A t \in Targets : MaxAttempts(t) \in Nat /\ MaxAttempts(t) * Cleared \in Nat
  <2>1. Cleared \in Nat
    BY <1>p, <1>t DEF Cleared
  <2>2. \A t \in Targets : MaxAttempts(t) \in Nat
    BY <1>n DEF MaxAttempts
  <2> QED BY <2>1, <2>2, Product
<1>w. \A m \in Messages, t \in Targets :
         /\ Sent(t, m) \in Nat /\ Sent(t, m)' \in Nat
         /\ Tried(m, t) \in Nat /\ Tried(m, t)' \in Nat
         /\ Spent(m, t) \in Nat /\ Spent(m, t)' \in Nat
  <2>1. \A m \in Messages, t \in Targets : Sent(t, m) \in Nat /\ Tried(m, t) \in Nat
    BY <1>t DEF Sent, Tried, CountAttempts
  <2>2. \A m \in Messages, t \in Targets : Sent(t, m)' \in Nat /\ Tried(m, t)' \in Nat
    BY <1>t2, <1>t DEF TypeOK, RowTypeOK, Sent, Tried, CountAttempts
  <2> QED BY <2>1, <2>2 DEF Spent
\* One row moves, and each copy sent is paid for.
<1>f. ASSUME NEW m \in Messages, cur \in {0, m}, cur' \in {0, m}, UNCHANGED <<op, replays, crashes>>,
             \A k \in Messages : k # m => /\ reply'[k] = reply[k]
                                          /\ \A t \in Targets : Tried(k, t)' = Tried(k, t) /\ Sent(t, k)' = Sent(t, k),
             \A t \in Targets :
                 \/ Sent(t, m)' = Sent(t, m) /\ Spent(m, t) <= Spent(m, t)'
                 \/ /\ Sent(t, m)' = Sent(t, m) + 1 /\ Spent(m, t) < Spent(m, t)'
                    /\ Spent(m, t) < MaxAttempts(t)
      PROVE  Goal
  <2>1. UNCHANGED Cleared /\ Pending'
    BY <1>f, <1>p DEF Cleared
  <2>2. ASSUME NEW k \in Messages, NEW t \in Targets PROVE Bounded(k, t)'
    <3>1. CASE k # m
      <4>1. Posted(k, t)' = Posted(k, t)
        BY <1>f, <1>n, <3>1 DEF Posted
      <4>2. Spent(k, t)' = Spent(k, t)
        BY <1>f, <3>1, <4>1 DEF Spent
      <4> QED BY <1>f, <1>p, <2>1, <3>1, <4>2
    <3>2. CASE k = m
      <4>1. /\ Sent(t, m) \in Nat /\ Spent(m, t) \in Nat /\ Spent(m, t)' \in Nat /\ MaxAttempts(t) \in Nat
            /\ MaxAttempts(t) * Cleared \in Nat /\ crashes \in Nat
        BY <1>a, <1>w, <1>t
      <4>2. Bounded(m, t)
        BY <1>p
      <4>3. CASE Sent(t, m)' = Sent(t, m) /\ Spent(m, t) <= Spent(m, t)'
        <5>1. Sent(t, m) <= Spent(m, t)' + MaxAttempts(t) * Cleared + crashes
          BY <4>1, <4>2, <4>3, BoundGrows, Zenon
        <5> QED BY <3>2, <4>2, <4>3, <5>1, <2>1, <1>f
      <4>4. CASE /\ Sent(t, m)' = Sent(t, m) + 1 /\ Spent(m, t) < Spent(m, t)' /\ Spent(m, t) < MaxAttempts(t)
        <5>1. /\ Sent(t, m) + 1 <= Spent(m, t)' + MaxAttempts(t) * Cleared + crashes
              /\ Sent(t, m) + 1 <= MaxAttempts(t) + MaxAttempts(t) * Cleared + crashes
          BY <4>1, <4>2, <4>4, BoundGrows, Zenon
        <5> QED BY <3>2, <4>4, <5>1, <2>1, <1>f, Zenon
      <4> QED BY <1>f, <4>3, <4>4
    <3> QED BY <3>1, <3>2
  <2> QED BY <2>1, <2>2
<1>y. UNCHANGED <<reply, attempts, received, inflight, cur, step, op, replays, crashes>> => Goal
  BY <1>p DEF Sent, Spent, Tried, Posted, CountAttempts, Cleared
<1> HIDE DEF Goal
\* A frame of the attempts table, and one of what was sent.
<1>u. UNCHANGED attempts => \A k \in Messages, t \in Targets : Tried(k, t)' = Tried(k, t)
  BY DEF Tried, CountAttempts
<1>v. UNCHANGED <<received, inflight>> => \A k \in Messages, t \in Targets : Sent(t, k)' = Sent(t, k)
  BY DEF Sent
<1>r. ASSUME NEW m \in Messages, NEW t \in Targets, NEW r \in Results, RecordAttempt(m, t, r)
      PROVE  /\ UNCHANGED reply
             /\ \A k \in Messages, s \in Targets : k # m \/ s # t => Tried(k, s)' = Tried(k, s)
             /\ Tried(m, t)' = IF t = "B" /\ r = "SUCCESS" THEN Tried(m, t) ELSE Tried(m, t) + 1
  <2>1. /\ attempts'[m][t][r] = attempts[m][t][r] + 1
        /\ \A n \in Messages, s \in Targets, q \in Results :
                n # m \/ s # t \/ q # r => attempts'[n][s][q] = attempts[n][s][q]
    BY <1>r, <1>t, RecordAttemptEffect
  <2>2. \A k \in Messages, s \in Targets : k # m \/ s # t => Tried(k, s)' = Tried(k, s)
    BY <2>1, <1>t DEF Tried, CountAttempts, Targets
  <2>3. ASSUME t = "B"
        PROVE  Tried(m, t)' = IF r = "SUCCESS" THEN Tried(m, t) ELSE Tried(m, t) + 1
    BY <2>1, <2>3, <1>t DEF Tried, Results
  <2>4. ASSUME t = "A", r = "SUCCESS" PROVE Tried(m, t)' = Tried(m, t) + 1
    <3>1. /\ attempts'[m]["A"]["SUCCESS"] = attempts[m]["A"]["SUCCESS"] + 1
          /\ attempts'[m]["A"]["FAILED"] = attempts[m]["A"]["FAILED"]
          /\ attempts[m]["A"]["SUCCESS"] \in Nat /\ attempts[m]["A"]["FAILED"] \in Nat
      BY <2>1, <2>4, <1>t
    <3> QED BY <2>4, <3>1 DEF Tried, CountAttempts
  <2>5. ASSUME t = "A", r = "FAILED" PROVE Tried(m, t)' = Tried(m, t) + 1
    <3>1. /\ attempts'[m]["A"]["FAILED"] = attempts[m]["A"]["FAILED"] + 1
          /\ attempts'[m]["A"]["SUCCESS"] = attempts[m]["A"]["SUCCESS"]
          /\ attempts[m]["A"]["SUCCESS"] \in Nat /\ attempts[m]["A"]["FAILED"] \in Nat
      BY <2>1, <2>5, <1>t
    <3> QED BY <2>5, <3>1 DEF Tried, CountAttempts
  <2>6. UNCHANGED reply
    BY <1>r DEF RecordAttempt
  <2> QED BY <2>2, <2>3, <2>4, <2>5, <2>6 DEF Targets, Results
\* Nothing is sent or recorded.
<1>s. ASSUME NEW m \in Messages, cur \in {0, m}, cur' \in {0, m}, UNCHANGED <<op, replays, crashes, attempts, received, inflight>>,
             \A k \in Messages : k # m => reply'[k] = reply[k],
             \A t \in Targets : Posted(m, t) => Posted(m, t)'
      PROVE  Goal
  <2>1. \A t \in Targets : Spent(m, t) <= Spent(m, t)'
    BY <1>s, <1>u, <1>w DEF Spent
  <2> QED BY <1>s, <1>u, <1>v, <2>1, <1>f
\* An attempt is recorded.
<1>q. ASSUME NEW m \in Messages, NEW t \in Targets, NEW r \in Results, RecordAttempt(m, t, r),
             cur \in {0, m}, cur' = m, UNCHANGED <<op, replays, crashes, received, inflight>>,
             t = "B" /\ r = "SUCCESS" => (Posted(m, t) => Posted(m, t)'),
             \A s \in Targets : s # t => (Posted(m, s) => Posted(m, s)')
      PROVE  Goal
  <2>1. ASSUME NEW s \in Targets PROVE Spent(m, s) <= Spent(m, s)'
    <3>1. CASE s # t \/ (t = "B" /\ r = "SUCCESS")
      <4>1. Tried(m, s)' = Tried(m, s) /\ (Posted(m, s) => Posted(m, s)')
        BY <1>q, <1>r, <3>1
      <4> QED BY <4>1, <1>w DEF Spent
    <3>2. CASE s = t /\ ~(t = "B" /\ r = "SUCCESS")
      <4>1. Tried(m, s)' = Tried(m, s) + 1 /\ Tried(m, s) \in Nat
        BY <1>q, <1>r, <1>w, <3>2
      <4> QED BY <4>1 DEF Spent
    <3> QED BY <3>1, <3>2
  <2>2. \A k \in Messages : k # m => /\ reply'[k] = reply[k]
                                     /\ \A s \in Targets : Tried(k, s)' = Tried(k, s) /\ Sent(s, k)' = Sent(s, k)
    BY <1>q, <1>r, <1>v
  <2> QED BY <1>q, <1>v, <2>1, <2>2, <1>f
\* A copy is sent.
<1>z. ASSUME NEW m \in Messages, NEW t \in Targets, cur = m, cur' = m,
             UNCHANGED <<op, replays, crashes, attempts, reply>>,
             Arrives(t, m) \/ StaysInNetwork(t, m),
             ~Posted(m, t), Posted(m, t)', Tried(m, t) < MaxAttempts(t),
             \A s \in Targets : s # t => (Posted(m, s) => Posted(m, s)')
      PROVE  Goal
  <2>1. /\ Sent(t, m)' = Sent(t, m) + 1
        /\ \A k \in Messages, s \in Targets : k # m \/ s # t => Sent(s, k)' = Sent(s, k)
    <3>1. CASE Arrives(t, m)
      <4>1. /\ received'[t][m] = received[t][m] + 1 /\ inflight'[t][m] = inflight[t][m]
            /\ received[t][m] \in Nat /\ inflight[t][m] \in Nat
            /\ \A k \in Messages, s \in Targets : k # m \/ s # t =>
                   received'[s][k] = received[s][k] /\ inflight'[s][k] = inflight[s][k]
        BY <3>1, <1>t DEF Arrives
      <4> QED BY <4>1 DEF Sent
    <3>2. CASE StaysInNetwork(t, m)
      <4>1. /\ inflight'[t][m] = inflight[t][m] + 1 /\ received'[t][m] = received[t][m]
            /\ received[t][m] \in Nat /\ inflight[t][m] \in Nat
            /\ \A k \in Messages, s \in Targets : k # m \/ s # t =>
                   received'[s][k] = received[s][k] /\ inflight'[s][k] = inflight[s][k]
        BY <3>2, <1>t DEF StaysInNetwork
      <4> QED BY <4>1 DEF Sent
    <3> QED BY <1>z, <3>1, <3>2
  <2>2. Spent(m, t) < Spent(m, t)' /\ Spent(m, t) < MaxAttempts(t)
    BY <1>z, <1>u, <1>w DEF Spent
  <2>3. \A s \in Targets : s # t => Spent(m, s) <= Spent(m, s)'
    BY <1>z, <1>u, <1>w DEF Spent
  <2> QED BY <1>z, <1>u, <2>1, <2>2, <2>3, <1>f
<1>1. ASSUME NEW m \in Messages, Dispatch(m) PROVE Goal
  <2>0. /\ cur \in {0, m} /\ cur' \in {0, m} /\ phase = "dispatch" /\ UNCHANGED <<op, replays, crashes>>
        /\ step \in {"next"} \union DispatchSteps
    BY <1>1, <1>c, <1>n DEF Dispatch, DispatchSkip, DispatchExhausted, DispatchExpired, DispatchNoToken,
       DispatchStart, ConfirmDispatch, PostDispatch, ConfirmTimedOutDispatch, RecordDispatchSuccess,
       StoreReply, StoreReplyFails, RecordSeenRequest, RecordDispatchFailure, DecideDispatchRetry,
       ConcludeDispatchFailure, DispatchReady, IsNextRow, DispatchSteps
  <2>a. ~Posted(m, "A")
    BY <2>0 DEF Posted, DispatchSteps
  <2>1. CASE \/ DispatchSkip(m) \/ DispatchExhausted(m) \/ DispatchNoToken(m) \/ DispatchStart(m)
             \/ DecideDispatchRetry(m) \/ ConcludeDispatchFailure(m)
    <3>1. UNCHANGED <<reply, attempts, received, inflight>>
      BY <2>1 DEF DispatchSkip, DispatchExhausted, DispatchNoToken, DispatchStart, DecideDispatchRetry,
         ConcludeDispatchFailure, UpdateStatus, UpdateStatusLater
    <3>2. Posted(m, "B") => reply[m]
      BY <2>1 DEF Posted, DispatchSkip, DispatchExhausted, DispatchNoToken, DispatchStart,
         DecideDispatchRetry, ConcludeDispatchFailure, DispatchReady, IsNextRow
    <3>3. \A t \in Targets : Posted(m, t) => Posted(m, t)'
      BY <2>a, <3>1, <3>2 DEF Posted, Targets
    <3> QED BY <2>0, <3>1, <3>3, <1>s
  <2>2. CASE ConfirmDispatch(m)
    <3>1. UNCHANGED <<reply, attempts, received, inflight>> /\ step = "confirm_b"
      BY <2>2 DEF ConfirmDispatch, UpdateStatusLater
    <3>3. \A t \in Targets : Posted(m, t) => Posted(m, t)'
      BY <2>a, <3>1 DEF Posted, Targets
    <3> QED BY <2>0, <3>1, <3>3, <1>s
  <2>3. CASE ConfirmTimedOutDispatch(m) \/ StoreReplyFails(m)
    <3>1. UNCHANGED <<reply, attempts, received, inflight>> /\ cur' = m
          /\ step' \in {"found_reply", "seen_b", "failed_b"}
      BY <2>3 DEF ConfirmTimedOutDispatch, StoreReplyFails
    <3>3. \A t \in Targets : Posted(m, t) => Posted(m, t)'
      BY <2>a, <3>1 DEF Posted, Targets
    <3> QED BY <2>0, <3>1, <3>3, <1>s
  <2>4. CASE StoreReply(m)
    <3>1. UNCHANGED <<attempts, received, inflight>> /\ reply'[m] /\ \A k \in Messages : k # m => reply'[k] = reply[k]
      BY <2>4, <1>t DEF StoreReply, UpdateReply, RowTypeOK
    <3>3. \A t \in Targets : Posted(m, t) => Posted(m, t)'
      BY <2>a, <3>1 DEF Posted, Targets
    <3> QED BY <2>0, <3>1, <3>3, <1>s
  <2>5. CASE PostDispatch(m)
    <3>1. /\ UNCHANGED <<reply, attempts>> /\ cur = m /\ cur' = m /\ step = "post_b"
          /\ step' \in {"got_reply", "got_no_text", "timed_out_b", "failed_b"}
          /\ Arrives("B", m) \/ StaysInNetwork("B", m)
      BY <2>5 DEF PostDispatch, PostUncertain
    <3>2. Tried(m, "B") < MaxAttempts("B")
      BY <3>1, <1>t, <1>n DEF IInv, BudgetInv, RetryExhausted, Tried, MaxAttempts
    <3>3. ~Posted(m, "B") /\ Posted(m, "B")'
      BY <3>1, <1>c DEF Posted, DispatchSteps
    <3> QED BY <2>0, <2>a, <3>1, <3>2, <3>3, <1>t, <1>z DEF Targets
  <2>6. CASE RecordDispatchSuccess(m)
    <3>1. RecordAttempt(m, "B", "SUCCESS") /\ Posted(m, "B")'
      BY <2>6 DEF RecordDispatchSuccess, Posted
    <3> QED BY <2>0, <2>a, <2>6, <3>1, <1>t, <1>q DEF RecordDispatchSuccess, Targets
  <2>7. CASE DispatchExpired(m) \/ RecordSeenRequest(m) \/ RecordDispatchFailure(m)
    <3>1. RecordAttempt(m, "B", "FAILED") /\ cur' = m /\ UNCHANGED <<received, inflight>>
      BY <2>7 DEF DispatchExpired, RecordSeenRequest, RecordDispatchFailure
    <3> QED BY <2>0, <2>a, <3>1, <1>t, <1>q DEF Targets
  <2> QED BY <1>1, <2>1, <2>2, <2>3, <2>4, <2>5, <2>6, <2>7 DEF Dispatch
<1>2. ASSUME NEW m \in Messages, Inject(m) PROVE Goal
  <2>0. /\ cur \in {0, m} /\ cur' \in {0, m} /\ phase = "inject" /\ UNCHANGED <<op, replays, crashes>>
        /\ step \in {"next"} \union InjectSteps
    BY <1>2, <1>c, <1>n DEF Inject, InjectSkip, InjectExpired, InjectStart, ConfirmInjection, PostInjection,
       ConfirmTimedOutInjection, RecordInjectionSuccess, MarkDone, RecordInjectionFailure,
       ConcludeInjectionFailure, InjectReady, IsNextRow, InjectSteps
  <2>b. UNCHANGED reply => (Posted(m, "B") => Posted(m, "B")')
    BY <2>0 DEF Posted, InjectSteps
  <2>1. CASE \/ InjectSkip(m) \/ InjectExpired(m) \/ InjectStart(m) \/ ConfirmInjection(m)
             \/ MarkDone(m) \/ ConcludeInjectionFailure(m)
    <3>1. UNCHANGED <<reply, attempts, received, inflight>>
      BY <2>1 DEF InjectSkip, InjectExpired, InjectStart, ConfirmInjection, MarkDone,
         ConcludeInjectionFailure, UpdateStatus, UpdateStatusLater
    <3>2. ~Posted(m, "A")
      BY <2>1 DEF Posted, InjectSkip, InjectExpired, InjectStart, ConfirmInjection, MarkDone,
         ConcludeInjectionFailure, InjectReady, IsNextRow
    <3> QED BY <2>0, <2>b, <3>1, <3>2, <1>s DEF Targets
  <2>2. CASE ConfirmTimedOutInjection(m)
    <3>1. UNCHANGED <<reply, attempts, received, inflight>> /\ Posted(m, "A")'
      BY <2>2 DEF ConfirmTimedOutInjection, Posted
    <3> QED BY <2>0, <2>b, <3>1, <1>s DEF Targets
  <2>3. CASE PostInjection(m)
    <3>1. /\ UNCHANGED <<reply, attempts>> /\ cur = m /\ cur' = m /\ step = "post_a"
          /\ step' \in {"succeeded_a", "timed_out_a", "failed_a"}
          /\ Arrives("A", m) \/ StaysInNetwork("A", m)
      BY <2>3 DEF PostInjection, PostUncertain
    <3>2. Tried(m, "A") < MaxAttempts("A")
      BY <3>1 DEF IInv, BudgetInv, Tried, MaxAttempts
    <3>3. ~Posted(m, "A") /\ Posted(m, "A")'
      BY <3>1 DEF Posted
    <3> QED BY <2>0, <2>b, <3>1, <3>2, <3>3, <1>t, <1>z DEF Targets
  <2>4. CASE RecordInjectionSuccess(m) \/ RecordInjectionFailure(m)
    <3>1. PICK r \in Results : RecordAttempt(m, "A", r)
      BY <2>4, <1>t DEF RecordInjectionSuccess, RecordInjectionFailure
    <3>2. cur' = m /\ UNCHANGED <<received, inflight>> /\ UNCHANGED reply
      BY <2>4 DEF RecordInjectionSuccess, RecordInjectionFailure, RecordAttempt
    <3> QED BY <2>0, <2>b, <3>1, <3>2, <1>t, <1>q DEF Targets
  <2> QED BY <1>2, <2>1, <2>2, <2>3, <2>4 DEF Inject
<1>3. CASE BeginDispatch \/ BeginInject \/ SkipInject \/ EndPoll
  BY <1>3, <1>y DEF BeginDispatch, BeginInject, SkipInject, EndPoll, BeginPass
<1>4. ASSUME NEW m \in Messages, World(m) PROVE Goal
  <2>1. CASE Ingest(m)
    BY <2>1, <1>y DEF Ingest, UpdateArtifact
  <2>2. CASE Expire(m) \/ BackoffElapses(m) \/ WorkerWrites(m)
    BY <2>2, <1>y DEF Expire, BackoffElapses, WorkerWrites
  <2>3. ASSUME NEW t \in Targets, LateArrival(t, m) PROVE Goal
    <3>1. \A k \in Messages, s \in Targets : Sent(s, k)' = Sent(s, k)
      BY <2>3, <1>t DEF LateArrival, Sent
    <3>2. UNCHANGED <<reply, attempts, cur, step, op, replays, crashes>>
      BY <2>3 DEF LateArrival
    <3>3. Pending' /\ \A k \in Messages, s \in Targets : Bounded(k, s)'
      BY <3>1, <3>2, <1>p DEF Spent, Tried, Posted, CountAttempts, Cleared
    <3> QED BY <3>3 DEF Goal
  <2> QED BY <1>4, <2>1, <2>2, <2>3 DEF World
<1>7. CASE UNCHANGED vars
  BY <1>7, <1>y DEF vars
<1>5. CASE Crash
  <2>1. /\ UNCHANGED <<op, replays, reply, attempts, received, inflight>> /\ cur' = 0
        /\ crashes' = crashes + 1
    BY <1>5 DEF Crash
  <2>2. UNCHANGED Cleared /\ Pending'
    BY <2>1, <1>p DEF Cleared
  <2>3. ASSUME NEW m \in Messages, NEW t \in Targets PROVE Bounded(m, t)'
    <3>1. /\ Sent(t, m) \in Nat /\ Spent(m, t) \in Nat /\ Spent(m, t)' \in Nat /\ MaxAttempts(t) \in Nat
          /\ MaxAttempts(t) * Cleared \in Nat /\ crashes \in Nat
      BY <1>a, <1>w, <1>t
    <3>2. Spent(m, t) <= Spent(m, t)' + 1
      BY <2>1, <1>u, <1>w DEF Spent
    <3>3. Sent(t, m)' = Sent(t, m)
      BY <2>1, <1>v
    <3>4. Bounded(m, t)
      BY <1>p
    <3>5. /\ Sent(t, m) <= Spent(m, t)' + MaxAttempts(t) * Cleared + (crashes + 1)
          /\ Sent(t, m) <= MaxAttempts(t) + MaxAttempts(t) * Cleared + (crashes + 1)
      BY <3>1, <3>2, <3>4, BoundGrows, Zenon
    <3> QED BY <2>1, <2>2, <3>3, <3>5, Zenon
  <2> QED BY <2>2, <2>3 DEF Goal
<1>6. CASE Replay
  <2>1. ASSUME NEW o \in Operators, NEW m \in Messages, ReplayRead(o, m) PROVE Goal
    <3>1. /\ UNCHANGED <<reply, attempts, received, inflight, cur, step, crashes>>
          /\ op' = [op EXCEPT ![o] = [stage |-> "clear", msg |-> m,
                              target |-> IF status[m] = "DEADLETTER_B" THEN "B" ELSE "A"]]
          /\ op[o].stage = "idle" /\ replays' = replays + 1
      BY <2>1 DEF ReplayRead
    <3>2. op'[o].stage = "clear" /\ \A p \in Operators : p = o
      BY <3>1, <1>t DEF OneOperator
    <3>3. Cleared' = Cleared
      <4>1. Cleared = replays
        BY <3>1, <3>2 DEF Cleared
      <4>2. Cleared' = replays' - 1
        BY <3>2 DEF Cleared
      <4> QED BY <3>1, <4>1, <4>2, <1>t
    <3>4. Pending'
      BY <3>1, <1>t
    <3>5. \A k \in Messages, s \in Targets : Bounded(k, s)'
      BY <3>1, <3>3, <1>p DEF Sent, Spent, Tried, Posted, CountAttempts
    <3> QED BY <3>4, <3>5 DEF Goal
  <2>2. ASSUME NEW o \in Operators, ReplayClear(o) PROVE Goal
    <3>1. /\ UNCHANGED <<reply, received, inflight, cur, step, crashes, replays>>
          /\ op' = [op EXCEPT ![o].stage = "set"] /\ op[o].stage = "clear"
      BY <2>2 DEF ReplayClear, ClearAttempts
    <3>2. op'[o].stage = "set" /\ \A p \in Operators : p = o
      BY <3>1, <1>t DEF OneOperator
    <3>3. Cleared' = replays /\ Cleared = replays - 1 /\ replays > 0
      BY <3>1, <3>2, <1>p DEF Cleared
    <3>4. Pending'
      BY <3>2
    <3>5. ASSUME NEW k \in Messages, NEW t \in Targets PROVE Bounded(k, t)'
      <4>1. /\ Sent(t, k) \in Nat /\ Spent(k, t)' \in Nat /\ MaxAttempts(t) \in Nat
            /\ MaxAttempts(t) * Cleared \in Nat /\ crashes \in Nat
        BY <1>a, <1>w, <1>t
      <4>2. MaxAttempts(t) * replays = MaxAttempts(t) * Cleared + MaxAttempts(t)
        BY <3>3, <4>1, <1>t, Product
      <4>3. Sent(t, k) <= MaxAttempts(t) + MaxAttempts(t) * Cleared + crashes
        BY <1>p
      <4>4. /\ Sent(t, k) <= Spent(k, t)' + (MaxAttempts(t) * Cleared + MaxAttempts(t)) + crashes
            /\ Sent(t, k) <= MaxAttempts(t) + (MaxAttempts(t) * Cleared + MaxAttempts(t)) + crashes
        BY <4>1, <4>3, BoundGrows, Zenon
      <4>5. Sent(t, k)' = Sent(t, k)
        BY <3>1, <1>v
      <4>6. MaxAttempts(t) * Cleared' = MaxAttempts(t) * Cleared + MaxAttempts(t)
        BY <3>3, <4>2
      <4>7. crashes' = crashes /\ MaxAttempts(t)' = MaxAttempts(t)
        BY <3>1
      <4> HIDE DEF Sent, Spent, Cleared, MaxAttempts
      <4> QED BY <4>4, <4>5, <4>6, <4>7, Zenon
    <3> QED BY <3>4, <3>5 DEF Goal
  <2>3. ASSUME NEW o \in Operators, ReplaySet(o) PROVE Goal
    <3>1. /\ UNCHANGED <<reply, attempts, received, inflight, cur, step, crashes, replays>>
          /\ op' = [op EXCEPT ![o] = [stage |-> "idle", msg |-> 0, target |-> "B"]]
          /\ op[o].stage = "set"
      BY <2>3 DEF ReplaySet, UpdateStatus
    <3>2. op'[o].stage = "idle" /\ \A p \in Operators : p = o
      BY <3>1, <1>t DEF OneOperator
    <3>3. Cleared' = Cleared /\ Pending'
      BY <3>1, <3>2 DEF Cleared
    <3>5. \A k \in Messages, s \in Targets : Bounded(k, s)'
      BY <3>1, <3>3, <1>p DEF Sent, Spent, Tried, Posted, CountAttempts
    <3> QED BY <3>3, <3>5 DEF Goal
  <2> QED BY <1>6, <2>1, <2>2, <2>3 DEF Replay
<1>8. CASE PollStep
  BY <1>1, <1>2, <1>3, <1>8 DEF PollStep
<1> QED BY <1>4, <1>5, <1>6, <1>7, <1>8 DEF Next

\* Copies sent to one gateway stay within max_attempts of it for the first trip and for
\* each replay, and one more for each crash: whatever times out, cannot be looked up or
\* comes back empty (app.py, _dispatch_reserved_messages and _inject_replied_messages).
THEOREM SendsStayBounded == ASSUME OneOperator PROVE Spec => []SendsAreBounded
<1>1. Init => SendsInv
  <2> SUFFICES ASSUME Init PROVE SendsInv
    OBVIOUS
  <2> USE DEF Init, LoopInit, RowInit
  <2>1. \A m \in Messages, t \in Targets : Sent(t, m) = 0
    BY DEF Sent, Targets
  <2>2. \A m \in Messages, t \in Targets : Spent(m, t) \in Nat
    BY DEF Spent, Tried, CountAttempts, Targets, Results
  <2>3. Cleared = 0 /\ crashes = 0
    BY DEF Cleared
  <2>4. \A t \in Targets : MaxAttempts(t) \in Nat /\ MaxAttempts(t) * 0 = 0
    BY StoreAssumption DEF MaxAttempts
  <2>5. ASSUME NEW m \in Messages, NEW t \in Targets
        PROVE  /\ Sent(t, m) <= Spent(m, t) + MaxAttempts(t) * Cleared + crashes
               /\ Sent(t, m) <= MaxAttempts(t) + MaxAttempts(t) * Cleared + crashes
    BY <2>1, <2>2, <2>3, <2>4
  <2> QED BY <2>5 DEF SendsInv
<1>2. IInv /\ SendsInv /\ [Next]_vars => SendsInv'
  BY SendsNext
<1>3. IInv /\ SendsInv => SendsAreBounded
  <2> SUFFICES ASSUME IInv, SendsInv, NEW m \in Messages, NEW t \in Targets
               PROVE  Sent(t, m) <= MaxAttempts(t) * (1 + replays) + crashes
    BY DEF SendsAreBounded
  <2>1. /\ MaxAttempts(t) \in Nat /\ replays \in Nat /\ crashes \in Nat /\ Sent(t, m) \in Nat
    BY StoreAssumption DEF IInv, TypeOK, MaxAttempts, Sent
  <2>2. Sent(t, m) <= MaxAttempts(t) + MaxAttempts(t) * Cleared + crashes
    BY DEF SendsInv
  <2>3. MaxAttempts(t) * (1 + replays) = MaxAttempts(t) + MaxAttempts(t) * replays
        /\ MaxAttempts(t) * replays \in Nat
    BY <2>1, Product
  <2>4. CASE Cleared = replays
    BY <2>1, <2>2, <2>3, <2>4
  <2>5. CASE replays > 0 /\ Cleared = replays - 1
    <3>1. MaxAttempts(t) * replays = MaxAttempts(t) * Cleared + MaxAttempts(t)
      BY <2>1, <2>5, Product
    <3>2. MaxAttempts(t) * Cleared \in Nat
      BY <2>1, <2>5, Product
    <3> HIDE DEF MaxAttempts, Cleared, Sent
    <3> QED BY <2>1, <2>2, <2>3, <3>1, <3>2
  <2> QED BY <2>4, <2>5 DEF SendsInv, Cleared
<1> QED BY <1>1, <1>2, <1>3, Invariance, PTL DEF Spec

-----------------------------------------------------------------------------
(* No copy is sent twice while nothing fails but the network.              *)

\* A step keeps a copy in a session from being sent once more: what is posted was not
\* found in the session, and what stands in the session is found there.
LEMMA OnceNext ==
  ASSUME NothingFails, TypeOK, OnceInv, [Next]_vars
  PROVE  OnceInv'
<1> USE DEF rowVars, loopVars, gatewayVars, opVars, Goto, EndRow, SkipRow, TakeRow, At
<1>t. /\ received \in [Targets -> [Messages -> Nat]] /\ RowTypeOK
      /\ crashes \in Nat /\ replays \in Nat /\ 0 \notin Messages
      /\ "A" \in Targets /\ "B" \in Targets /\ "SUCCESS" \in Results /\ "FAILED" \in Results
  BY StoreAssumption DEF TypeOK, Targets, Results
<1>a. \A m \in Messages, t \in Targets :
          attempts[m][t]["SUCCESS"] \in Nat /\ attempts[m][t]["FAILED"] \in Nat
  BY <1>t DEF RowTypeOK
<1> DEFINE Kept(m, t) == CountAttempts(m, t) > 0 \/ UnderWay(m, t)
<1>k. \A m \in Messages, t \in Targets : received[t][m] > 0 => Kept(m, t)
  BY DEF OnceInv
<1> DEFINE NoneTwice == \A m \in Messages :
               /\ At(m, "post_b") => received["B"][m] = 0
               /\ At(m, "post_a") => received["A"][m] = 0
<1>s. ASSUME UNCHANGED <<received, op>>,
             \A m \in Messages, t \in Targets : received[t][m] > 0 /\ Kept(m, t) => Kept(m, t)',
             NoneTwice'
      PROVE  OnceInv'
  BY <1>s, <1>k DEF OnceInv, AtMostOnce
<1>y. ASSUME UNCHANGED <<received, op, attempts, cur, step>> PROVE OnceInv'
  BY <1>y DEF OnceInv, AtMostOnce, CountAttempts, UnderWay
<1>q. ASSUME NEW m \in Messages, NEW t \in Targets, NEW r \in Results, RecordAttempt(m, t, r)
      PROVE  /\ CountAttempts(m, t)' > 0
             /\ \A n \in Messages, u \in Targets : n # m \/ u # t =>
                    CountAttempts(n, u)' = CountAttempts(n, u)
  BY <1>q, <1>t, <1>a, RecordAttemptEffect DEF CountAttempts, Results
<1>w. ASSUME NEW m \in Messages, NEW t \in Targets,
             Arrives(t, m) \/ StaysInNetwork(t, m), received[t][m] = 0,
             UNCHANGED <<op, attempts>>, cur = m, UnderWay(m, t)',
             step \in {"post_a", "post_b"}
      PROVE  OnceInv'
  <2>1. /\ received'[t][m] <= 1
        /\ \A k \in Messages, s \in Targets : k # m \/ s # t => received'[s][k] = received[s][k]
    BY <1>w, <1>t DEF Arrives, StaysInNetwork
  <2>2. AtMostOnce'
    BY <2>1 DEF OnceInv, AtMostOnce
  <2>3. \A k \in Messages, s \in Targets : received'[s][k] > 0 => Kept(k, s)'
    BY <1>w, <1>k, <2>1 DEF UnderWay, CountAttempts
  <2>4. NoneTwice'
    BY <1>w DEF UnderWay
  <2> QED BY <1>w, <2>2, <2>3, <2>4 DEF OnceInv
<1>1. ASSUME NEW m \in Messages, Dispatch(m) PROVE OnceInv'
  <2>1. CASE \/ DispatchSkip(m) \/ DispatchExhausted(m) \/ DispatchNoToken(m)
             \/ DecideDispatchRetry(m) \/ ConcludeDispatchFailure(m)
             \/ StoreReply(m)
    <3>1. /\ UNCHANGED <<received, op, attempts>> /\ step' \notin {"post_a", "post_b"}
          /\ \A k \in Messages, t \in Targets : ~UnderWay(k, t)
      BY <2>1 DEF DispatchSkip, DispatchExhausted, DispatchNoToken, DecideDispatchRetry,
         ConcludeDispatchFailure, StoreReply, UpdateStatus, UpdateStatusLater, UpdateReply,
         DispatchReady, IsNextRow, UnderWay
    <3> QED BY <3>1, <1>s DEF CountAttempts
  <2>2. CASE DispatchStart(m)
    <3>1. /\ UNCHANGED <<received, op, attempts>> /\ cur' = m
          /\ \A k \in Messages, t \in Targets : ~UnderWay(k, t)
          /\ step' = IF CountAttempts(m, "B") > 0 THEN "confirm_b" ELSE "post_b"
      BY <2>2 DEF DispatchStart, DispatchReady, IsNextRow, UnderWay
    <3>2. step' = "post_b" => received["B"][m] = 0
      BY <3>1, <1>k, <1>t, <1>a DEF CountAttempts
    <3>3. NoneTwice'
      BY <3>1, <3>2
    <3>4. \A k \in Messages, u \in Targets : received[u][k] > 0 /\ Kept(k, u) => Kept(k, u)'
      BY <3>1 DEF CountAttempts
    <3> QED BY <3>1, <3>3, <3>4, <1>s
  <2>3. CASE ConfirmDispatch(m)
    <3>1. /\ UNCHANGED <<received, op, attempts>> /\ cur = m /\ cur' \in {m, 0}
          /\ \A k \in Messages, t \in Targets : ~UnderWay(k, t)
          /\ step' \in {"found_reply", "next"} \/ (step' = "post_b" /\ received["B"][m] = 0)
      BY <2>3 DEF ConfirmDispatch, UnderWay, UpdateStatusLater, MayMissRequest, NothingFails
    <3>2. NoneTwice'
      BY <3>1, <1>t
    <3>3. \A k \in Messages, u \in Targets : received[u][k] > 0 /\ Kept(k, u) => Kept(k, u)'
      BY <3>1 DEF CountAttempts
    <3> QED BY <3>1, <3>2, <3>3, <1>s
  <2>4. CASE PostDispatch(m)
    BY <2>4, <1>w, <1>t DEF PostDispatch, PostUncertain, OnceInv, UnderWay
  <2>5. CASE ConfirmTimedOutDispatch(m) \/ StoreReplyFails(m)
    <3>1. /\ UNCHANGED <<received, op, attempts>> /\ cur = m /\ cur' = m
          /\ step' \in {"found_reply", "seen_b", "failed_b"}
          /\ step \in {"timed_out_b", "store_reply"}
      BY <2>5 DEF ConfirmTimedOutDispatch, StoreReplyFails
    <3> QED BY <3>1, <1>s DEF CountAttempts, UnderWay, Targets
  <2>6. CASE \/ RecordDispatchSuccess(m) \/ RecordSeenRequest(m) \/ RecordDispatchFailure(m)
             \/ DispatchExpired(m)
    <3>1. /\ UNCHANGED <<received, op>>
          /\ RecordAttempt(m, "B", "SUCCESS") \/ RecordAttempt(m, "B", "FAILED")
          /\ \A k \in Messages, t \in Targets : UnderWay(k, t) => k = m /\ t = "B"
          /\ step' \notin {"post_a", "post_b"}
      BY <2>6 DEF RecordDispatchSuccess, RecordSeenRequest, RecordDispatchFailure, DispatchExpired,
         UnderWay, DispatchReady, IsNextRow, Targets
    <3>2. /\ CountAttempts(m, "B")' > 0
          /\ \A k \in Messages, t \in Targets : k # m \/ t # "B" =>
                 CountAttempts(k, t)' = CountAttempts(k, t)
      BY <3>1, <1>q, <1>t
    <3> QED BY <3>1, <3>2, <1>s
  <2> QED BY <1>1, <2>1, <2>2, <2>3, <2>4, <2>5, <2>6 DEF Dispatch
<1>2. ASSUME NEW m \in Messages, Inject(m) PROVE OnceInv'
  <2>1. CASE \/ InjectSkip(m) \/ InjectExpired(m) \/ MarkDone(m) \/ ConcludeInjectionFailure(m)
    <3>1. /\ UNCHANGED <<received, op, attempts>> /\ step' \notin {"post_a", "post_b"}
          /\ \A k \in Messages, t \in Targets : ~UnderWay(k, t)
      BY <2>1 DEF InjectSkip, InjectExpired, MarkDone, ConcludeInjectionFailure, UpdateStatus,
         UpdateStatusLater, InjectReady, IsNextRow, UnderWay
    <3> QED BY <3>1, <1>s DEF CountAttempts
  <2>2. CASE InjectStart(m)
    <3>1. /\ UNCHANGED <<received, op, attempts>> /\ cur' = m
          /\ \A k \in Messages, t \in Targets : ~UnderWay(k, t)
          /\ step' = IF CountAttempts(m, "A") > 0 THEN "confirm_a" ELSE "post_a"
      BY <2>2 DEF InjectStart, InjectReady, IsNextRow, UnderWay
    <3>2. step' = "post_a" => received["A"][m] = 0
      BY <3>1, <1>k, <1>t, <1>a DEF CountAttempts
    <3>3. NoneTwice'
      BY <3>1, <3>2
    <3>4. \A k \in Messages, u \in Targets : received[u][k] > 0 /\ Kept(k, u) => Kept(k, u)'
      BY <3>1 DEF CountAttempts
    <3> QED BY <3>1, <3>3, <3>4, <1>s
  <2>3. CASE ConfirmInjection(m)
    <3>1. /\ UNCHANGED <<received, op, attempts>> /\ cur = m /\ cur' \in {m, 0}
          /\ \A k \in Messages, t \in Targets : ~UnderWay(k, t)
          /\ step' \in {"succeeded_a", "next"} \/ (step' = "post_a" /\ received["A"][m] = 0)
      BY <2>3 DEF ConfirmInjection, UnderWay, UpdateStatus, MayMissInjection, NothingFails
    <3>2. NoneTwice'
      BY <3>1, <1>t
    <3>3. \A k \in Messages, u \in Targets : received[u][k] > 0 /\ Kept(k, u) => Kept(k, u)'
      BY <3>1 DEF CountAttempts
    <3> QED BY <3>1, <3>2, <3>3, <1>s
  <2>4. CASE PostInjection(m)
    BY <2>4, <1>w, <1>t DEF PostInjection, PostUncertain, OnceInv, UnderWay
  <2>5. CASE ConfirmTimedOutInjection(m)
    <3>1. /\ UNCHANGED <<received, op, attempts>> /\ cur = m /\ cur' = m
          /\ step' \in {"succeeded_a", "failed_a"} /\ step = "timed_out_a"
      BY <2>5 DEF ConfirmTimedOutInjection
    <3> QED BY <3>1, <1>s DEF CountAttempts, UnderWay, Targets
  <2>6. CASE RecordInjectionSuccess(m) \/ RecordInjectionFailure(m)
    <3>1. /\ UNCHANGED <<received, op>>
          /\ RecordAttempt(m, "A", "SUCCESS") \/ RecordAttempt(m, "A", "FAILED")
          /\ \A k \in Messages, t \in Targets : UnderWay(k, t) => k = m /\ t = "A"
          /\ step' \notin {"post_a", "post_b"}
      BY <2>6 DEF RecordInjectionSuccess, RecordInjectionFailure, UnderWay, Targets
    <3>2. /\ CountAttempts(m, "A")' > 0
          /\ \A k \in Messages, t \in Targets : k # m \/ t # "A" =>
                 CountAttempts(k, t)' = CountAttempts(k, t)
      BY <3>1, <1>q, <1>t
    <3> QED BY <3>1, <3>2, <1>s
  <2> QED BY <1>2, <2>1, <2>2, <2>3, <2>4, <2>5, <2>6 DEF Inject
<1>3. CASE BeginDispatch \/ BeginInject \/ SkipInject \/ EndPoll
  BY <1>3, <1>y DEF BeginDispatch, BeginInject, SkipInject, EndPoll, BeginPass
<1>4. ASSUME NEW m \in Messages, World(m) PROVE OnceInv'
  <2>1. CASE Ingest(m)
    BY <2>1, <1>y DEF Ingest, UpdateArtifact
  <2>2. CASE Expire(m) \/ BackoffElapses(m) \/ WorkerWrites(m)
    BY <2>2, <1>y DEF Expire, BackoffElapses, WorkerWrites
  <2>3. ~\E t \in Targets : LateArrival(t, m)
    BY DEF LateArrival, NothingFails
  <2> QED BY <1>4, <2>1, <2>2, <2>3 DEF World
<1>5. ~Crash
  BY <1>t DEF Crash, NothingFails
<1>6. ~Replay
  BY <1>t DEF Replay, ReplayRead, ReplayClear, ReplaySet, NothingFails, OnceInv
<1>7. CASE UNCHANGED vars
  BY <1>7, <1>y DEF vars
<1> QED BY <1>1, <1>2, <1>3, <1>4, <1>5, <1>6, <1>7 DEF Next, PollStep

\* With session logs that can be searched and show all that arrives, and without crash
\* or replay, no gateway holds a request twice, whatever is lost or times out (app.py,
\* _confirm_b_dispatch_session and _confirm_injection).  Any number of operators.
THEOREM NeverTwice == ASSUME NothingFails PROVE Spec => []AtMostOnce
<1>1. Init => OnceInv
  <2> SUFFICES ASSUME Init PROVE OnceInv
    OBVIOUS
  <2> USE DEF Init, LoopInit, RowInit
  <2>1. AtMostOnce /\ \A m \in Messages, t \in Targets : ~(received[t][m] > 0)
    BY DEF AtMostOnce, Targets
  <2> QED BY <2>1 DEF OnceInv, At
<1>2. TypeOK /\ OnceInv /\ [Next]_vars => OnceInv'
  BY OnceNext
<1>3. OnceInv => AtMostOnce
  BY DEF OnceInv
<1> QED BY <1>1, <1>2, <1>3, TypeCorrect, PTL DEF Spec

-----------------------------------------------------------------------------
(* The relay implements MessageLifecycle.                                  *)

\* The stage of the lifecycle each status stands for.
LEMMA StageOfValues ==
  /\ StageOf("ABSENT") = "absent"
  /\ StageOf("RESERVED") = "pending" /\ StageOf("FAILED_B") = "pending"
  /\ StageOf("QUEUED_B") = "pending"
  /\ StageOf("B_REPLIED") = "replied" /\ StageOf("FAILED_A_INJECTION") = "replied"
  /\ StageOf("DONE") = "done"
  /\ StageOf("DEADLETTER_B") = "dead_b" /\ StageOf("DEADLETTER_A") = "dead_a"
BY DEF StageOf, Dispatchable, Queued, Injectable

\* A step that touches neither a status nor what the gateways hold of it.
LEMMA StutterStep ==
  ASSUME UNCHANGED status, UNCHANGED followed,
         \A n \in Messages : received'["A"][n] > 0 <=> received["A"][n] > 0
  PROVE  UNCHANGED Lifecycle!vars
BY DEF Lifecycle!vars

\* A step that changes the status of one row along an edge of the lifecycle.
LEMMA StatusStep ==
  ASSUME TypeOK, NEW m \in Messages, NEW s \in Statuses,
         status' = [status EXCEPT ![m] = s],
         UNCHANGED <<followed, received>>,
         \/ StageOf(s) = StageOf(status[m])
         \/ status[m] = "ABSENT" /\ s = "RESERVED"
         \/ status[m] \in Dispatchable /\ s = "B_REPLIED" /\ followed[m]
         \/ status[m] \in Injectable /\ s = "DONE" /\ received["A"][m] > 0
         \/ status[m] \in Dispatchable /\ s = "DEADLETTER_B"
         \/ status[m] \in Injectable /\ s = "DEADLETTER_A"
         \/ status[m] = "DEADLETTER_B" /\ s = "RESERVED"
         \/ status[m] = "DEADLETTER_A" /\ s = "B_REPLIED"
  PROVE  [Lifecycle!Next]_(Lifecycle!vars)
<1> DEFINE stage == [n \in Messages |-> StageOf(status[n])]
           stageN == [n \in Messages |-> StageOf(status'[n])]
<1>1. stageN = [stage EXCEPT ![m] = StageOf(s)]
  BY DEF TypeOK, RowTypeOK
<1>2. /\ {n \in Messages : followed'[n]} = {n \in Messages : followed[n]}
      /\ {n \in Messages : received'["A"][n] > 0} = {n \in Messages : received["A"][n] > 0}
  OBVIOUS
<1>3. CASE StageOf(s) = StageOf(status[m])
  <2>1. stageN = stage
    BY <1>1, <1>3
  <2> QED BY <2>1, <1>2 DEF Lifecycle!vars
<1>4. CASE status[m] = "ABSENT" /\ s = "RESERVED"
  <2>1. Lifecycle!Accept(m)
    BY <1>1, <1>2, <1>4, StageOfValues DEF Lifecycle!Accept, Lifecycle!Moves
  <2> QED BY <2>1 DEF Lifecycle!Next
<1>5. CASE status[m] \in Dispatchable /\ s = "B_REPLIED" /\ followed[m]
  <2>1. Lifecycle!StoreReply(m)
    BY <1>1, <1>2, <1>5, StageOfValues DEF Lifecycle!StoreReply, Lifecycle!Moves, Dispatchable
  <2> QED BY <2>1 DEF Lifecycle!Next
<1>6. CASE status[m] \in Injectable /\ s = "DONE" /\ received["A"][m] > 0
  <2>1. Lifecycle!Finish(m)
    BY <1>1, <1>2, <1>6, StageOfValues DEF Lifecycle!Finish, Lifecycle!Moves, Injectable
  <2> QED BY <2>1 DEF Lifecycle!Next
<1>7. CASE \/ status[m] \in Dispatchable /\ s = "DEADLETTER_B"
           \/ status[m] \in Injectable /\ s = "DEADLETTER_A"
  <2>1. Lifecycle!GiveUp(m)
    BY <1>1, <1>2, <1>7, StageOfValues
       DEF Lifecycle!GiveUp, Lifecycle!Moves, Dispatchable, Injectable
  <2> QED BY <2>1 DEF Lifecycle!Next
<1>8. CASE \/ status[m] = "DEADLETTER_B" /\ s = "RESERVED"
           \/ status[m] = "DEADLETTER_A" /\ s = "B_REPLIED"
  <2>1. Lifecycle!Resume(m)
    BY <1>1, <1>2, <1>8, StageOfValues DEF Lifecycle!Resume, Lifecycle!Moves
  <2> QED BY <2>1 DEF Lifecycle!Next
<1> QED BY <1>3, <1>4, <1>5, <1>6, <1>7, <1>8

\* The worker writes a text after m, or a copy of its reply reaches gateway A.
LEMMA WriteStep ==
  ASSUME TypeOK, NEW m \in Messages, status[m] # "ABSENT",
         UNCHANGED status, followed' = [followed EXCEPT ![m] = TRUE],
         \A n \in Messages : received'["A"][n] > 0 <=> received["A"][n] > 0
  PROVE  [Lifecycle!Next]_(Lifecycle!vars)
<1>1. StageOf(status[m]) # "absent"
  BY StageOfValues
     DEF TypeOK, RowTypeOK, Statuses, Dispatchable, Queued, Injectable, Settled, Deadletters
<1>2. {n \in Messages : followed'[n]} = {n \in Messages : followed[n]} \union {m}
  BY DEF TypeOK
<1>3. Lifecycle!Write(m)
  BY <1>1, <1>2 DEF Lifecycle!Write
<1> QED BY <1>3 DEF Lifecycle!Next

\* A copy of the reply of m reaches gateway A.
LEMMA DeliverStep ==
  ASSUME TypeOK, NEW m \in Messages,
         status[m] \in Injectable \union {"DONE", "DEADLETTER_A"},
         UNCHANGED status, UNCHANGED followed,
         received'["A"][m] > 0,
         \A n \in Messages : n # m => received'["A"][n] = received["A"][n]
  PROVE  [Lifecycle!Next]_(Lifecycle!vars)
<1>1. StageOf(status[m]) \in {"replied", "done", "dead_a"}
  BY StageOfValues DEF Injectable
<1>2. {n \in Messages : received'["A"][n] > 0}
        = {n \in Messages : received["A"][n] > 0} \union {m}
  OBVIOUS
<1>3. Lifecycle!Deliver(m)
  BY <1>1, <1>2 DEF Lifecycle!Deliver
<1> QED BY <1>3 DEF Lifecycle!Next

\* Every step of the relay is a step of the lifecycle or leaves it alone.
LEMMA RefinementStep ==
  ASSUME OneOperator, IInv, [Next]_vars
  PROVE  [Lifecycle!Next]_(Lifecycle!vars)
<1> USE StoreAssumption DEF IInv, TypeOK, RowTypeOK, ThreadInv, ReplayInv, ReplyInv,
            OneOperator, rowVars, loopVars, gatewayVars, opVars, Statuses, Dispatchable, Queued,
            Injectable, Settled, Deadletters, DispatchSteps, InjectSteps, Targets, Sent
<1>1. ASSUME NEW m \in Messages, Dispatch(m)
     PROVE  [Lifecycle!Next]_(Lifecycle!vars)
  <2>1. CASE DispatchSkip(m)
    BY <2>1, StutterStep DEF DispatchSkip
  <2>2. CASE DispatchExhausted(m)
    <3>1. status' = [status EXCEPT ![m] = "DEADLETTER_B"] /\ UNCHANGED <<followed, received>>
      BY <2>2 DEF DispatchExhausted, UpdateStatus
    <3> QED BY <2>2, <3>1, StatusStep DEF DispatchExhausted, DispatchReady, IsNextRow,
        SkipRow
  <2>3. CASE DispatchExpired(m)
    BY <2>3, StutterStep DEF DispatchExpired, RecordAttempt
  <2>4. CASE DispatchNoToken(m)
    BY <2>4, StutterStep DEF DispatchNoToken
  <2>5. CASE DispatchStart(m)
    BY <2>5, StutterStep DEF DispatchStart
  <2>6. CASE ConfirmDispatch(m)
    <3> USE DEF ConfirmDispatch, At
    <3>1. CASE status' = [status EXCEPT ![m] = "FAILED_B"]
      BY <2>6, <3>1, StatusStep, StageOfValues
    <3>2. CASE UNCHANGED status
      BY <2>6, <3>2, StutterStep
    <3> QED BY <2>6, <3>1, <3>2 DEF UpdateStatus, UpdateStatusLater
  <2>7. CASE PostDispatch(m)
    <3>1. /\ UNCHANGED status /\ status[m] # "ABSENT"
          /\ \A n \in Messages : received'["A"][n] = received["A"][n]
      BY <2>7 DEF PostDispatch, At, Arrives, PostUncertain, StaysInNetwork
    <3>2. followed' = [followed EXCEPT ![m] = TRUE] \/ UNCHANGED followed
      BY <2>7 DEF PostDispatch, PostUncertain
    <3> QED BY <3>1, <3>2, WriteStep, StutterStep
  <2>8. CASE ConfirmTimedOutDispatch(m)
    BY <2>8, StutterStep DEF ConfirmTimedOutDispatch
  <2>9. CASE RecordDispatchSuccess(m)
    BY <2>9, StutterStep DEF RecordDispatchSuccess, RecordAttempt
  <2>10. CASE StoreReply(m)
    <3>1. status' = [status EXCEPT ![m] = "B_REPLIED"] /\ UNCHANGED <<followed, received>>
      BY <2>10 DEF StoreReply, UpdateReply
    <3> QED BY <2>10, <3>1, StatusStep DEF StoreReply, At, EndRow
  <2>11. CASE StoreReplyFails(m)
    BY <2>11, StutterStep DEF StoreReplyFails
  <2>12. CASE RecordSeenRequest(m)
    BY <2>12, StutterStep DEF RecordSeenRequest, RecordAttempt
  <2>13. CASE RecordDispatchFailure(m)
    BY <2>13, StutterStep DEF RecordDispatchFailure, RecordAttempt
  <2>14. CASE DecideDispatchRetry(m)
    BY <2>14, StutterStep DEF DecideDispatchRetry
  <2>15. CASE ConcludeDispatchFailure(m)
    <3> USE DEF ConcludeDispatchFailure, At
    <3>1. CASE status' = [status EXCEPT ![m] = "DEADLETTER_B"]
      BY <2>15, <3>1, StatusStep, StageOfValues
    <3>2. CASE status' = [status EXCEPT ![m] = "FAILED_B"]
      BY <2>15, <3>2, StatusStep, StageOfValues
    <3> QED BY <2>15, <3>1, <3>2 DEF UpdateStatus, UpdateStatusLater
  <2> QED BY <1>1, <2>1, <2>2, <2>3, <2>4, <2>5, <2>6, <2>7, <2>8, <2>9, <2>10, <2>11,
          <2>12, <2>13, <2>14, <2>15 DEF Dispatch
<1>2. ASSUME NEW m \in Messages, Inject(m)
     PROVE  [Lifecycle!Next]_(Lifecycle!vars)
  <2>1. CASE InjectSkip(m)
    BY <2>1, StutterStep DEF InjectSkip
  <2>2. CASE InjectExpired(m)
    <3>1. status' = [status EXCEPT ![m] = "DEADLETTER_A"] /\ UNCHANGED <<followed, received>>
      BY <2>2 DEF InjectExpired, UpdateStatus
    <3> QED BY <2>2, <3>1, StatusStep DEF InjectExpired, InjectReady, IsNextRow, SkipRow
  <2>3. CASE InjectStart(m)
    BY <2>3, StutterStep DEF InjectStart
  <2>4. CASE ConfirmInjection(m)
    <3> USE DEF ConfirmInjection, At
    <3>1. CASE status' = [status EXCEPT ![m] = "DEADLETTER_A"]
      BY <2>4, <3>1, StatusStep, StageOfValues
    <3>2. CASE UNCHANGED status
      BY <2>4, <3>2, StutterStep
    <3> QED BY <2>4, <3>1, <3>2 DEF UpdateStatus, UpdateStatusLater
  <2>5. CASE PostInjection(m)
    <3>1. /\ UNCHANGED <<status, followed>>
          /\ status[m] \in Injectable
      BY <2>5 DEF PostInjection, At, PostUncertain
    <3>2. \/ UNCHANGED received
          \/ /\ received'["A"][m] > 0
             /\ \A n \in Messages : n # m => received'["A"][n] = received["A"][n]
      BY <2>5 DEF PostInjection, Arrives, PostUncertain, StaysInNetwork
    <3> QED BY <3>1, <3>2, DeliverStep, StutterStep
  <2>6. CASE ConfirmTimedOutInjection(m)
    BY <2>6, StutterStep DEF ConfirmTimedOutInjection
  <2>7. CASE RecordInjectionSuccess(m)
    BY <2>7, StutterStep DEF RecordInjectionSuccess, RecordAttempt
  <2>8. CASE MarkDone(m)
    <3>1. status' = [status EXCEPT ![m] = "DONE"] /\ UNCHANGED <<followed, received>>
      BY <2>8 DEF MarkDone, UpdateStatus
    <3> QED BY <2>8, <3>1, StatusStep DEF MarkDone, At, EndRow
  <2>9. CASE RecordInjectionFailure(m)
    BY <2>9, StutterStep DEF RecordInjectionFailure, RecordAttempt
  <2>10. CASE ConcludeInjectionFailure(m)
    <3> USE DEF ConcludeInjectionFailure, At
    <3>1. CASE status' = [status EXCEPT ![m] = "DEADLETTER_A"]
      BY <2>10, <3>1, StatusStep, StageOfValues
    <3>2. CASE status' = [status EXCEPT ![m] = "FAILED_A_INJECTION"]
      BY <2>10, <3>2, StatusStep, StageOfValues
    <3> QED BY <2>10, <3>1, <3>2 DEF UpdateStatus, UpdateStatusLater
  <2> QED BY <1>2, <2>1, <2>2, <2>3, <2>4, <2>5, <2>6, <2>7, <2>8, <2>9, <2>10 DEF Inject
<1>3. ASSUME BeginDispatch \/ BeginInject \/ SkipInject \/ EndPoll
     PROVE  [Lifecycle!Next]_(Lifecycle!vars)
  BY <1>3, StutterStep DEF BeginDispatch, BeginInject, SkipInject, EndPoll
<1>4. ASSUME NEW m \in Messages, World(m)
     PROVE  [Lifecycle!Next]_(Lifecycle!vars)
  <2>1. CASE Ingest(m)
    <3>1. status' = [status EXCEPT ![m] = "RESERVED"] /\ UNCHANGED <<followed, received>>
      BY <2>1 DEF Ingest, UpdateArtifact
    <3> QED BY <2>1, <3>1, StatusStep DEF Ingest
  <2>2. CASE Expire(m)
    BY <2>2, StutterStep DEF Expire
  <2>3. CASE BackoffElapses(m)
    BY <2>3, StutterStep DEF BackoffElapses
  <2>4. CASE WorkerWrites(m)
    <3>1. status[m] # "ABSENT"
      BY <2>4 DEF WorkerWrites
    <3> QED BY <2>4, <3>1, WriteStep DEF WorkerWrites
  <2>5. ASSUME NEW t \in Targets, LateArrival(t, m)
        PROVE  [Lifecycle!Next]_(Lifecycle!vars)
    <3> USE <2>5 DEF LateArrival
    <3>1. CASE t = "A"
      <4>1. status[m] \in Injectable \union {"DONE", "DEADLETTER_A"}
        BY <3>1
      <4>2. /\ received'["A"][m] > 0
            /\ \A n \in Messages : n # m => received'["A"][n] = received["A"][n]
        BY <3>1
      <4> QED BY <4>1, <4>2, DeliverStep
    <3>2. CASE t = "B"
      BY <3>2, StutterStep
    <3> QED BY <3>1, <3>2
  <2> QED BY <1>4, <2>1, <2>2, <2>3, <2>4, <2>5 DEF World
<1>5. ASSUME NEW o \in Operators, NEW m \in Messages, ReplayRead(o, m)
     PROVE  [Lifecycle!Next]_(Lifecycle!vars)
  BY <1>5, StutterStep DEF ReplayRead
<1>6. ASSUME NEW o \in Operators, ReplayClear(o)
     PROVE  [Lifecycle!Next]_(Lifecycle!vars)
  BY <1>6, StutterStep DEF ReplayClear, ClearAttempts
<1>7. ASSUME NEW o \in Operators, ReplaySet(o)
     PROVE  [Lifecycle!Next]_(Lifecycle!vars)
  <2>1. op[o].msg \in Messages /\ UNCHANGED <<followed, received>>
    BY <1>7 DEF ReplaySet
  <2>2. CASE op[o].target = "B"
    BY <1>7, <2>1, <2>2, StatusStep DEF ReplaySet, UpdateStatus
  <2>3. CASE op[o].target = "A"
    BY <1>7, <2>1, <2>3, StatusStep DEF ReplaySet, UpdateStatus
  <2> QED BY <2>2, <2>3
<1>8. CASE Crash
  BY <1>8, StutterStep DEF Crash
<1>9. CASE UNCHANGED vars
  BY <1>9, StutterStep DEF vars
<1> QED BY <1>1, <1>2, <1>3, <1>4, <1>5, <1>6, <1>7, <1>8, <1>9
        DEF Next, PollStep, Replay

\* The relay with transport "responses" implements the lifecycle of a round trip:
\* every behaviour, with crashes, timeouts, lost requests and replays by one
\* operator, is one the abstract specification allows.
THEOREM Refinement == ASSUME OneOperator PROVE Spec => ImplementsLifecycle
<1>1. Init => Lifecycle!Init
  BY StageOfValues DEF Init, LoopInit, RowInit, Lifecycle!Init, Targets
<1>2. IInv /\ [Next]_vars => [Lifecycle!Next]_(Lifecycle!vars)
  BY RefinementStep
<1> QED BY <1>1, <1>2, Invariance, PTL DEF Spec, ImplementsLifecycle, Lifecycle!Spec

=============================================================================
