----------------------------- MODULE RelayStore -----------------------------
(***************************************************************************)
(* The rows of the relay's SQLite database that steer delivery: the        *)
(* "messages" table and the "attempts" table (state.py).  Every action     *)
(* below is one committed transaction.  Text columns are reduced to what   *)
(* the control flow reads: next_attempt_at to whether it lies in the past, *)
(* reply_text to whether it is present.                                    *)
(***************************************************************************)
EXTENDS Naturals, FiniteSets

CONSTANTS Messages,      \* row ids of the messages table
          MaxAttemptsB,  \* retry.max_attempts_b
          MaxAttemptsA   \* retry.max_attempts_a

\* Row ids are AUTOINCREMENT keys, so 0 is never one; config.py accepts only
\* positive attempt limits.
ASSUME StoreAssumption ==
    /\ Messages \subseteq Nat \ {0}
    /\ MaxAttemptsB \in Nat \ {0}
    /\ MaxAttemptsA \in Nat \ {0}

VARIABLES status,    \* messages.status, "ABSENT" while there is no row
          due,       \* next_attempt_at is empty or has passed
          reply,     \* reply_text is stored
          attempts   \* attempts[m][t][r]: rows of the attempts table

rowVars == <<status, due, reply, attempts>>

Targets == {"A", "B"}
Results == {"SUCCESS", "FAILED"}

Dispatchable == {"RESERVED", "FAILED_B"}
Queued == {"QUEUED_B"}
Injectable == {"B_REPLIED", "FAILED_A_INJECTION"}
Deadletters == {"DEADLETTER_B", "DEADLETTER_A"}
Settled == {"DONE"} \union Deadletters
Statuses == {"ABSENT"} \union Dispatchable \union Queued \union Injectable \union Settled

RowTypeOK ==
    /\ status \in [Messages -> Statuses]
    /\ due \in [Messages -> BOOLEAN]
    /\ reply \in [Messages -> BOOLEAN]
    /\ attempts \in [Messages -> [Targets -> [Results -> Nat]]]

RowInit ==
    /\ status = [m \in Messages |-> "ABSENT"]
    /\ due = [m \in Messages |-> TRUE]
    /\ reply = [m \in Messages |-> FALSE]
    /\ attempts = [m \in Messages |-> [t \in Targets |-> [r \in Results |-> 0]]]

MaxAttempts(t) == IF t = "B" THEN MaxAttemptsB ELSE MaxAttemptsA

CountAttempts(m, t) == attempts[m][t]["SUCCESS"] + attempts[m][t]["FAILED"]

\* Mutant of RetryExhausted: the limit is compared off by one.
RetryExhaustedLate(m, t) == attempts[m][t]["FAILED"] > MaxAttempts(t)

RetryExhausted(m, t) == attempts[m][t]["FAILED"] >= MaxAttempts(t)

\* The attempt_no record_attempt would return next: MAX(attempt_no) + 1.
\* Attempts of a target are only ever deleted all at once, so it is the count.
NextAttemptNo(m, t) == CountAttempts(m, t) + 1

RecordAttempt(m, t, r) ==
    /\ attempts' = [attempts EXCEPT ![m][t][r] = @ + 1]
    /\ UNCHANGED <<status, due, reply>>

ClearAttempts(m, t) ==
    /\ attempts' = [attempts EXCEPT ![m][t] = [r \in Results |-> 0]]
    /\ UNCHANGED <<status, due, reply>>

\* update_message_status always writes next_attempt_at: NULL unless the caller
\* passes a time, so a status written without one makes the row due at once.
UpdateStatus(m, s) ==
    /\ status' = [status EXCEPT ![m] = s]
    /\ due' = [due EXCEPT ![m] = TRUE]
    /\ UNCHANGED <<reply, attempts>>

UpdateStatusLater(m, s) ==
    /\ status' = [status EXCEPT ![m] = s]
    /\ due' = [due EXCEPT ![m] = FALSE]
    /\ UNCHANGED <<reply, attempts>>

UpdateReply(m) ==
    /\ reply' = [reply EXCEPT ![m] = TRUE]
    /\ status' = [status EXCEPT ![m] = "B_REPLIED"]
    /\ due' = [due EXCEPT ![m] = TRUE]
    /\ UNCHANGED attempts

\* update_message_artifact: the commit that makes an ingested row dispatchable.
UpdateArtifact(m) ==
    /\ status' = [status EXCEPT ![m] = "RESERVED"]
    /\ UNCHANGED <<due, reply, attempts>>
=============================================================================
