--------------------------- MODULE Ingestion_proofs ---------------------------
(***************************************************************************)
(* Theorems about the ingestion of files, for every set of names and       *)
(* contents and any number of crashes, failures and writes.  IInv is what  *)
(* the thread knows at each point; CarryInv, on top of it, why a row       *)
(* without artifact is resumed; NameInv where the artifacts come from.      *)
(***************************************************************************)
EXTENDS Ingestion, TLAPS

\* The key of a parsed file is a key of the table messages (envelope.py: its own
\* or the derived message id).
LEMMA KeyIsKey == ASSUME NEW n \in Names, NEW f \in Files PROVE KeyFor(n, f) \in Keys
BY IngestionAssumption DEF KeyFor, Keys, Files

\* A relay that starts with empty tables satisfies the invariant.
LEMMA InvInit == Init => IInv
<1> SUFFICES ASSUME Init PROVE IInv
  OBVIOUS
<1> USE IngestionAssumption DEF Init
<1>1. TypeOK
  <2>1. clock \in 0..MaxStamp /\ failures \in 0..MaxFailures /\ crashes \in 0..MaxCrashes
    OBVIOUS
  <2>2. /\ watch \in [Names -> Files \union {NoFile}]
        /\ written \in [Names -> SUBSET Files]
        /\ seen \in [Sources -> Claims \union {NotSeen}]
        /\ rows \in [Keys -> Rows \union {NoRow}]
        /\ processing \in [Names -> Copies \union {NoCopy}]
    OBVIOUS
  <2> QED BY <2>1, <2>2 DEF TypeOK, Points
<1>2. ThreadInv
  BY DEF ThreadInv, Points, Parsed, Known, Copying
<1>3. \A s \in Sources : seen[s].status # "RESERVED"
  BY DEF NotSeen
<1> QED BY <1>1, <1>2, <1>3 DEF IInv, ClaimInv

\* A claim concluded with a status and a key of the tables is a claim.
LEMMA IsClaim ==
  ASSUME NEW status \in SeenStatuses, NEW key \in Keys \union {NoKey}
  PROVE  [status |-> status, key |-> key] \in Claims
BY DEF Claims

\* Changing the status of a row leaves a row with the same artifact (state.py,
\* update_message_status).
LEMMA StatusUpdate ==
  ASSUME NEW row \in Rows, NEW status \in RowStatuses
  PROVE  /\ [row EXCEPT !.status = status] \in Rows
         /\ [row EXCEPT !.status = status].path = row.path
         /\ [row EXCEPT !.status = status].status = status
BY DEF Rows

\* Giving a row an artifact leaves a row (state.py, update_message_artifact).
LEMMA ArtifactUpdate ==
  ASSUME NEW row \in Rows, NEW status \in RowStatuses, NEW name \in Names
  PROVE  /\ [row EXCEPT !.path = name, !.status = status] \in Rows
         /\ [row EXCEPT !.path = name, !.status = status].path = name
BY DEF Rows

\* A row exists exactly when it is a member of Rows; a missing one has no
\* artifact, and its status is none of a row.
LEMMA RowOrNot ==
  ASSUME NEW row \in Rows \union {NoRow}
  PROVE  /\ row # NoRow => row \in Rows
         /\ row \in Rows => row.status \in RowStatuses
         /\ row.path \in Names \union {0}
         /\ row.path # 0 \/ row.status \in RowStatuses => row \in Rows
BY DEF Rows, NoRow, RowStatuses

\* Every step keeps the types.
LEMMA TypeNext == ASSUME IInv, [Next]_vars PROVE TypeOK'
<1> USE IngestionAssumption DEF IInv, TypeOK
<1> USE DEF Points, worldVars, tableVars, threadVars, Goto, EndFile, Restart
<1>k. pc \in Parsed => Key \in Keys /\ envelope \in Files
  BY KeyIsKey DEF ThreadInv, Points, Parsed, Known, Copying, Key
<1>r. pc \in Known => rows[Key] \in Rows
  BY <1>k, RowOrNot DEF ThreadInv, Parsed
<1>c. pc \notin {"scan", "next"} => cur \in Names /\ watch[cur] \in Files /\ source \in Sources
  BY DEF ThreadInv
<1>s. ASSUME NEW status \in SeenStatuses, NEW key \in Keys \union {NoKey},
             pc \notin {"scan", "next"}, Conclude(status, key)
      PROVE  seen' \in [Sources -> Claims \union {NotSeen}]
  BY <1>c, <1>s, IsClaim DEF Conclude
<1>w. ASSUME NEW k \in Keys, rows[k] \in Rows, NEW status \in RowStatuses,
             rows' = [rows EXCEPT ![k].status = status]
      PROVE  rows' \in [Keys -> Rows \union {NoRow}]
  <2>1. rows' = [rows EXCEPT ![k] = [rows[k] EXCEPT !.status = status]]
    BY <1>w
  <2> QED BY <1>w, <2>1, StatusUpdate
<1>1. CASE Scan
  BY <1>1 DEF Scan
<1>2. CASE EndScan
  BY <1>2 DEF EndScan
<1>3. ASSUME NEW n \in Names, Claim(n) PROVE TypeOK'
  <2> DEFINE s == [name |-> n, body |-> watch[n].body]
  <2>1. n \in pending
    BY <1>3 DEF Claim, IsNext
  <2>2. s \in Sources /\ [status |-> "DISCOVERED", key |-> NoKey] \in Claims
    BY <1>3, <2>1, IsClaim DEF ThreadInv, Sources, SeenStatuses, Files
  <2> QED BY <1>3, <2>1, <2>2 DEF Claim
<1>4. CASE Parse
  BY <1>4, <1>c DEF Parse
<1>5. CASE Reject
  <2>1. seen' \in [Sources -> Claims \union {NotSeen}]
    BY <1>5, <1>s DEF Reject, SeenStatuses
  <2> QED BY <1>5, <2>1 DEF Reject
<1>6. CASE Reserve
  <2>1. Key \in Keys /\ envelope \in Files /\ source \in Sources
    BY <1>6, <1>c, <1>k DEF Reserve, Parsed
  <2>2. [status |-> "RESERVED", path |-> 0, file |-> envelope, source |-> source] \in Rows
    BY <2>1 DEF Rows, RowStatuses
  <2> QED BY <1>6, <2>1, <2>2 DEF Reserve
<1>7. CASE Suppress
  <2>1. seen' \in [Sources -> Claims \union {NotSeen}]
    BY <1>7, <1>s, <1>k DEF Suppress, SeenStatuses, Parsed, Known
  <2> QED BY <1>7, <2>1 DEF Suppress
<1>8. CASE Resume
  <2>1. Key \in Keys /\ rows[Key].status \in RowStatuses
    BY <1>8, <1>k, <1>r, RowOrNot DEF Resume, Parsed, Known
  <2>2. CASE Conclude(rows[Key].status, Key) /\ EndFile
    <3>1. seen' \in [Sources -> Claims \union {NotSeen}]
      BY <1>8, <2>1, <2>2, <1>s DEF Resume, SeenStatuses
    <3> QED BY <1>8, <2>2, <3>1 DEF Resume
  <2>3. CASE Goto("copy") /\ UNCHANGED seen
    BY <1>8, <2>3 DEF Resume
  <2> QED BY <1>8, <2>2, <2>3 DEF Resume
<1>9. CASE Copy
  <2>1. [body |-> watch[cur].body, form |-> "raw"] \in Copies
    BY <1>9, <1>c DEF Copy, Copies, Files
  <2> QED BY <1>9, <1>c, <2>1 DEF Copy
<1>10. CASE Rewrite
  <2>1. [body |-> envelope.body, form |-> "normal"] \in Copies
    BY <1>10, <1>k DEF Rewrite, Parsed, Known, Copying, Copies, Files
  <2> QED BY <1>10, <1>c, <2>1 DEF Rewrite
<1>11. CASE ConcludeCopyFailure
  <2>1. seen' \in [Sources -> Claims \union {NotSeen}]
    BY <1>11, <1>s, <1>k DEF ConcludeCopyFailure, SeenStatuses, RowStatuses, Parsed, Known
  <2> QED BY <1>11, <2>1 DEF ConcludeCopyFailure
<1>12. CASE SetArtifact
  <2>1. Key \in Keys /\ rows[Key] \in Rows /\ cur \in Names
    BY <1>12, <1>c, <1>k, <1>r DEF SetArtifact, Parsed, Known, Copying
  <2>2. [rows[Key] EXCEPT !.path = cur, !.status = "RESERVED"] \in Rows
    BY <2>1, ArtifactUpdate DEF RowStatuses
  <2>3. rows' = [rows EXCEPT ![Key] = [rows[Key] EXCEPT !.path = cur, !.status = "RESERVED"]]
    BY <1>12, <2>1 DEF SetArtifact
  <2> QED BY <1>12, <2>1, <2>2, <2>3 DEF SetArtifact
<1>13. CASE Finalize
  <2>1. seen' \in [Sources -> Claims \union {NotSeen}]
    BY <1>13, <1>s, <1>k DEF Finalize, SeenStatuses, RowStatuses, Parsed, Known
  <2> QED BY <1>13, <2>1 DEF Finalize
<1>14. ASSUME CutShort PROVE processing' \in [Names -> Copies \union {NoCopy}]
  <2>1. CASE pc = "copy"
    <3>1. [body |-> watch[cur].body, form |-> "torn"] \in Copies
      BY <2>1, <1>c DEF Copies, Files
    <3> QED BY <1>14, <2>1, <3>1 DEF CutShort
  <2>2. CASE pc = "rewrite"
    <3>1. [body |-> envelope.body, form |-> "torn"] \in Copies
      BY <2>2, <1>k DEF Parsed, Known, Copying, Copies, Files
    <3> QED BY <1>14, <2>2, <3>1 DEF CutShort
  <2> QED BY <1>14, <2>1, <2>2 DEF CutShort
<1>15. CASE CopyFails
  <2>1. Key \in Keys /\ rows[Key] \in Rows
    BY <1>15, <1>k, <1>r DEF CopyFails, Parsed, Known, Copying
  <2>2. rows' = [rows EXCEPT ![Key].status = "FILE_COPY_FAILED"] =>
            rows' \in [Keys -> Rows \union {NoRow}]
    BY <2>1, <1>w DEF RowStatuses
  <2>3. processing' \in [Names -> Copies \union {NoCopy}]
    BY <1>14, <1>15 DEF CopyFails
  <2>4. failures' \in 0..MaxFailures
    BY <1>15 DEF CopyFails
  <2> QED BY <1>15, <2>2, <2>3, <2>4 DEF CopyFails
<1>16. CASE Crash
  <2>1. processing' \in [Names -> Copies \union {NoCopy}]
    BY <1>14, <1>16 DEF Crash
  <2>2. crashes' \in 0..MaxCrashes
    BY <1>16 DEF Crash
  <2> QED BY <1>16, <2>1, <2>2 DEF Crash
<1>17. ASSUME NEW n \in Names, Expire(n) PROVE TypeOK'
  BY <1>17 DEF Expire
<1>18. ASSUME NEW n \in Names, NEW b \in Bodies, Write(n, b) PROVE TypeOK'
  <2>1. clock' = clock + 1 /\ clock' \in 1..MaxStamp
    BY <1>18 DEF Write
  <2>2. [body |-> b, stamp |-> clock + 1] \in Files
    BY <2>1 DEF Files, Stamps
  <2>3. watch' \in [Names -> Files \union {NoFile}]
    BY <1>18, <2>2 DEF Write
  <2>4. written' \in [Names -> SUBSET Files]
    BY <1>18, <2>2 DEF Write
  <2> QED BY <1>18, <2>1, <2>3, <2>4 DEF Write
<1>19. ASSUME NEW k \in Keys, Settle(k) PROVE TypeOK'
  <2>1. rows[k] \in Rows
    BY <1>19, RowOrNot DEF Settle
  <2>2. rows' \in [Keys -> Rows \union {NoRow}]
    BY <1>19, <2>1, <1>w DEF Settle, RowStatuses
  <2> QED BY <1>19, <2>2 DEF Settle
<1>20. ASSUME NEW k \in Keys, Replay(k) PROVE TypeOK'
  <2>1. rows[k] \in Rows
    BY <1>20, RowOrNot DEF Replay, RowStatuses
  <2>2. rows' \in [Keys -> Rows \union {NoRow}]
    BY <1>20, <2>1, <1>w DEF Replay, RowStatuses
  <2> QED BY <1>20, <2>2 DEF Replay
<1>21. ASSUME NEW k \in Keys, Cleanup(k) PROVE TypeOK'
  <2>1. rows[k] \in Rows
    BY <1>21, RowOrNot DEF Cleanup, RowStatuses
  <2> QED BY <1>21 DEF Cleanup
<1>22. CASE UNCHANGED vars
  BY <1>22 DEF vars
<1> QED BY <1>1, <1>2, <1>3, <1>4, <1>5, <1>6, <1>7, <1>8, <1>9, <1>10, <1>11, <1>12,
           <1>13, <1>15, <1>16, <1>17, <1>18, <1>19, <1>20, <1>21, <1>22 DEF Next, Thread, World

-----------------------------------------------------------------------------
(* What a step does to the artifacts of the rows.                          *)

\* A step leaves a row with an artifact alone but for its status, and a finished
\* row alone altogether: rows are only reserved where there is none, and given
\* an artifact where they lack one (app.py, _process_pending_file).
LEMMA RowStep ==
  ASSUME IInv, [Next]_vars, NEW k \in Keys, rows[k].path # 0
  PROVE  /\ rows'[k].path = rows[k].path
         /\ rows[k].status = "DONE" => rows'[k].status = "DONE"
<1> USE DEF IInv, TypeOK
<1>1. rows[k] \in Rows /\ rows[k] # NoRow
  BY RowOrNot DEF NoRow
<1>2. CASE UNCHANGED rows
  BY <1>2
<1>3. ASSUME NEW j \in Keys, NEW status \in RowStatuses, rows[j].status # "DONE",
             rows' = [rows EXCEPT ![j].status = status]
      PROVE  /\ rows'[k].path = rows[k].path
             /\ rows[k].status = "DONE" => rows'[k].status = "DONE"
  <2>1. rows' = [rows EXCEPT ![j] = [rows[j] EXCEPT !.status = status]]
    BY <1>3
  <2> QED BY <1>1, <1>3, <2>1, StatusUpdate
<1>4. ASSUME NEW j, rows[j].path = 0, NEW row, rows' = [rows EXCEPT ![j] = row]
      PROVE  rows'[k] = rows[k]
  BY <1>4
<1>5. CASE Reserve
  <2>1. CASE UNCHANGED rows
    BY <2>1, <1>2
  <2>2. CASE rows[Key] = NoRow
    BY <1>1, <1>5, <2>2 DEF Reserve, NoRow
  <2> QED BY <1>5, <2>1, <2>2 DEF Reserve
<1>6. CASE SetArtifact
  <2>1. rows[Key].path = 0
    BY <1>6 DEF SetArtifact, ThreadInv, Copying
  <2>2. rows' = [rows EXCEPT ![Key] = [rows[Key] EXCEPT !.path = cur, !.status = "RESERVED"]]
    BY <1>6 DEF SetArtifact
  <2> QED BY <1>4, <2>1, <2>2
<1>7. CASE CopyFails
  <2>1. rows[Key].path = 0
    BY <1>7 DEF CopyFails, ThreadInv, Copying
  <2>2. CASE UNCHANGED rows
    BY <2>2, <1>2
  <2>3. CASE rows' = [rows EXCEPT ![Key] = [rows[Key] EXCEPT !.status = "FILE_COPY_FAILED"]]
    BY <1>4, <2>1, <2>3
  <2> QED BY <1>7, <2>2, <2>3 DEF CopyFails
<1>8. ASSUME NEW j \in Keys, Settle(j) \/ Replay(j)
      PROVE  /\ rows'[k].path = rows[k].path
             /\ rows[k].status = "DONE" => rows'[k].status = "DONE"
  BY <1>3, <1>8 DEF Settle, Replay, RowStatuses
<1>9. \/ UNCHANGED rows
      \/ Reserve \/ SetArtifact \/ CopyFails
      \/ \E j \in Keys : Settle(j) \/ Replay(j)
  BY DEF Next, Thread, World, Scan, EndScan, Claim, Parse, Reject, Suppress, Resume, Copy,
         Rewrite, ConcludeCopyFailure, Finalize, Crash, Expire, Write, Cleanup, vars,
         tableVars
<1> QED BY <1>2, <1>5, <1>6, <1>7, <1>8, <1>9

-----------------------------------------------------------------------------
(* What the thread knows, and the invariant.                               *)

\* Changing the status of an existing row keeps every artifact, and every row.
LEMMA StatusKeeps ==
  ASSUME TypeOK, NEW j \in Keys, rows[j] \in Rows, NEW status \in RowStatuses,
         rows' = [rows EXCEPT ![j].status = status]
  PROVE  \A k \in Keys :
             /\ rows'[k].path = rows[k].path
             /\ rows[k] # NoRow => rows'[k] # NoRow
<1>1. rows' = [rows EXCEPT ![j] = [rows[j] EXCEPT !.status = status]]
  OBVIOUS
<1>2. [rows[j] EXCEPT !.status = status] # NoRow
  BY StatusUpdate DEF NoRow, RowStatuses
<1> QED BY <1>1, <1>2, StatusUpdate DEF TypeOK

\* What the thread knows at its point stays true whatever it or the rest of the
\* system does: only the thread reserves rows and sets artifacts, and no file of
\* the watch directory is removed.
LEMMA ThreadNext == ASSUME IInv, [Next]_vars PROVE ThreadInv'
<1> USE DEF IInv, TypeOK, ThreadInv, Parsed, Known, Copying, worldVars, tableVars,
            threadVars, Goto, EndFile, Restart
<1>k. pc \in Parsed => Key \in Keys
  BY KeyIsKey DEF Key
<1>r. pc \in Known => rows[Key] \in Rows
  BY <1>k, RowOrNot
<1>0. ASSUME UNCHANGED <<threadVars, watch>>,
             \A k \in Keys :
                 /\ rows'[k].path = rows[k].path
                 /\ rows[k] # NoRow => rows'[k] # NoRow
      PROVE  ThreadInv'
  <2>1. Key' = Key
    BY <1>0 DEF Key
  <2>2. UNCHANGED <<pending, pc, cur, source, envelope, watch>>
    BY <1>0
  <2> QED BY <1>0, <1>k, <2>1, <2>2
<1>1. CASE Scan \/ EndScan \/ Reject \/ Suppress \/ ConcludeCopyFailure \/ Finalize \/ Crash
  BY <1>1 DEF Scan, EndScan, Reject, Suppress, ConcludeCopyFailure, Finalize, Crash
<1>2. ASSUME NEW n \in Names, Claim(n) PROVE ThreadInv'
  <2> DEFINE s == [name |-> n, body |-> watch[n].body]
  <2>1. n \in pending /\ pc = "next"
    BY <1>2 DEF Claim, IsNext
  <2>2. s \in Sources
    BY <1>2, <2>1 DEF Sources, Files
  <2>3. /\ pending' \subseteq pending /\ UNCHANGED watch
        /\ \/ pc' = "next"
           \/ pc' = "parse" /\ cur' = n /\ source' = s
    BY <1>2, <2>1 DEF Claim
  <2> QED BY <2>1, <2>2, <2>3
<1>3. CASE Parse
  BY <1>3 DEF Parse
<1>4. CASE Reserve
  <2>1. Key' = Key /\ Key \in Keys
    BY <1>4, <1>k DEF Reserve, Key
  <2>2. CASE rows[Key] = NoRow
    <3>1. rows'[Key].path = 0 /\ rows'[Key].status = "RESERVED"
      BY <1>4, <2>1, <2>2 DEF Reserve
    <3>2. rows'[Key] # NoRow
      BY <3>1 DEF NoRow
    <3> QED BY <1>4, <2>1, <2>2, <3>1, <3>2 DEF Reserve
  <2>3. CASE rows[Key] # NoRow
    BY <1>4, <2>1, <2>3 DEF Reserve
  <2> QED BY <2>2, <2>3
<1>5. CASE Resume
  BY <1>5 DEF Resume, Key
<1>6. CASE Copy \/ Rewrite
  BY <1>6 DEF Copy, Rewrite, Key
<1>7. CASE SetArtifact
  <2>1. Key' = Key /\ Key \in Keys /\ rows[Key] \in Rows /\ cur \in Names
    BY <1>7, <1>k, <1>r DEF SetArtifact, Key
  <2>2. rows'[Key] = [rows[Key] EXCEPT !.path = cur, !.status = "RESERVED"]
    BY <1>7, <2>1 DEF SetArtifact
  <2>3. rows'[Key].path = cur /\ cur # 0
    <3>1. cur # 0
      BY <2>1, IngestionAssumption
    <3>2. "RESERVED" \in RowStatuses
      BY DEF RowStatuses
    <3>3. [rows[Key] EXCEPT !.path = cur, !.status = "RESERVED"].path = cur
      <4> HIDE DEF IInv
      <4> QED BY <2>1, <3>2, ArtifactUpdate
    <3> QED BY <2>2, <3>1, <3>3
  <2>4. rows'[Key] # NoRow
    BY <2>3 DEF NoRow
  <2> QED BY <1>7, <2>1, <2>3, <2>4 DEF SetArtifact
<1>8. CASE CopyFails
  <2>1. Key \in Keys /\ rows[Key] \in Rows
    BY <1>8, <1>k, <1>r DEF CopyFails
  <2>2. CASE Restart
    BY <1>8, <2>2 DEF CopyFails
  <2>3. CASE rows' = [rows EXCEPT ![Key].status = "FILE_COPY_FAILED"] /\ Goto("copy_failed")
    <3>1. rows'[Key] = [rows[Key] EXCEPT !.status = "FILE_COPY_FAILED"]
      BY <2>1, <2>3
    <3>2. rows'[Key].status = "FILE_COPY_FAILED"
      BY <2>1, <3>1, StatusUpdate DEF RowStatuses
    <3>3. rows'[Key] # NoRow
      BY <3>2 DEF NoRow
    <3> QED BY <1>8, <2>1, <2>3, <3>3 DEF CopyFails, Key
  <2> QED BY <1>8, <2>2, <2>3 DEF CopyFails
<1>9. ASSUME NEW n \in Names, Expire(n) \/ \E b \in Bodies : Write(n, b) PROVE ThreadInv'
  <2>1. UNCHANGED <<threadVars, rows>> /\ (Expire(n) => UNCHANGED watch)
    BY <1>9 DEF Expire, Write
  <2>2. \A m \in Names : watch[m] # NoFile => watch'[m] # NoFile
    <3>1. CASE Expire(n)
      BY <2>1, <3>1
    <3>2. ASSUME NEW b \in Bodies, Write(n, b)
          PROVE  \A m \in Names : watch[m] # NoFile => watch'[m] # NoFile
      <4>1. [body |-> b, stamp |-> clock + 1] # NoFile
        BY <3>2, IngestionAssumption DEF Write, NoFile
      <4> QED BY <3>2, <4>1 DEF Write
    <3> QED BY <1>9, <3>1, <3>2
  <2> QED BY <2>1, <2>2 DEF Key
<1>10. ASSUME NEW j \in Keys, Settle(j) \/ Replay(j) PROVE ThreadInv'
  <2>1. rows[j] \in Rows /\ UNCHANGED <<threadVars, watch>>
    BY <1>10, RowOrNot DEF Settle, Replay, RowStatuses
  <2>2. PICK status \in RowStatuses : rows' = [rows EXCEPT ![j].status = status]
    BY <1>10 DEF Settle, Replay, RowStatuses
  <2> QED BY <1>0, <2>1, <2>2, StatusKeeps
<1>11. ASSUME NEW j \in Keys, Cleanup(j) PROVE ThreadInv'
  BY <1>0, <1>11 DEF Cleanup
<1>12. CASE UNCHANGED vars
  BY <1>0, <1>12 DEF vars
<1> QED BY <1>1, <1>2, <1>3, <1>4, <1>5, <1>6, <1>7, <1>8, <1>9, <1>10, <1>11, <1>12
        DEF Next, Thread, World

\* Every step keeps the invariant.
LEMMA InvNext == IInv /\ [Next]_vars => IInv'
<1> SUFFICES ASSUME IInv, [Next]_vars PROVE IInv'
  OBVIOUS
<1>1. TypeOK' /\ ThreadInv'
  BY TypeNext, ThreadNext
<1>2. ClaimInv
  BY DEF IInv
<1>3. \A k \in Keys : rows[k].path # 0 => rows'[k].path # 0
  BY RowStep
<1> SUFFICES ClaimInv'
  BY <1>1 DEF IInv
<1>4. ASSUME UNCHANGED seen PROVE ClaimInv'
  BY <1>2, <1>3, <1>4 DEF ClaimInv
<1>5. ASSUME NEW status, NEW key, UNCHANGED rows, source \in Sources,
             seen' = [seen EXCEPT ![source] = [status |-> status, key |-> key]],
             status = "RESERVED" => key \in Keys /\ rows[key].path # 0
      PROVE  ClaimInv'
  BY <1>2, <1>5 DEF ClaimInv, IInv, TypeOK
<1>6. pc \in Known => source \in Sources /\ Key \in Keys
  BY KeyIsKey DEF IInv, ThreadInv, Parsed, Known, Copying, Key
<1>7. CASE Reject
  <2>1. /\ seen' = [seen EXCEPT ![source] = [status |-> "REJECTED", key |-> NoKey]]
        /\ UNCHANGED rows /\ source \in Sources
    BY <1>7 DEF Reject, Conclude, IInv, ThreadInv
  <2> QED BY <1>5, <2>1
<1>8. CASE Suppress
  <2>1. /\ seen' = [seen EXCEPT ![source] = [status |-> "DUPLICATE_SUPPRESSED", key |-> Key]]
        /\ UNCHANGED rows /\ source \in Sources
    BY <1>6, <1>8 DEF Suppress, Conclude, Known
  <2> QED BY <1>5, <2>1
<1>9. CASE Resume
  <2>1. CASE rows[Key].path # 0
    <3>1. /\ seen' = [seen EXCEPT ![source] = [status |-> rows[Key].status, key |-> Key]]
          /\ UNCHANGED rows /\ source \in Sources /\ Key \in Keys
      BY <1>6, <1>9, <2>1 DEF Resume, Conclude, Known
    <3> QED BY <1>5, <2>1, <3>1
  <2>2. CASE rows[Key].path = 0
    BY <1>4, <1>9, <2>2 DEF Resume
  <2> QED BY <2>1, <2>2
<1>10. CASE ConcludeCopyFailure
  <2>1. /\ seen' = [seen EXCEPT ![source] = [status |-> "FILE_COPY_FAILED", key |-> Key]]
        /\ UNCHANGED rows /\ source \in Sources
    BY <1>6, <1>10 DEF ConcludeCopyFailure, Conclude, Known
  <2> QED BY <1>5, <2>1
<1>11. CASE Finalize
  <2>1. /\ seen' = [seen EXCEPT ![source] = [status |-> "RESERVED", key |-> Key]]
        /\ UNCHANGED rows /\ rows[Key].path # 0
    BY <1>11 DEF Finalize, Conclude, IInv, ThreadInv
  <2>2. source \in Sources /\ Key \in Keys
    BY <1>6, <1>11 DEF Finalize, Conclude, Known
  <2> QED BY <1>5, <2>1, <2>2
<1>12. ASSUME NEW n \in Names, Claim(n) PROVE ClaimInv'
  <2>1. CASE UNCHANGED seen
    BY <1>4, <2>1
  <2>2. ASSUME NEW s, seen' = [seen EXCEPT ![s] = [status |-> "DISCOVERED", key |-> NoKey]]
        PROVE  ClaimInv'
    BY <1>2, <1>3, <2>2 DEF ClaimInv, IInv, TypeOK
  <2> QED BY <1>12, <2>1, <2>2 DEF Claim
<1>13. \/ UNCHANGED seen
       \/ Reject \/ Suppress \/ Resume \/ ConcludeCopyFailure \/ Finalize
       \/ \E n \in Names : Claim(n)
  BY DEF Next, Thread, World, Scan, EndScan, Parse, Reserve, Copy, Rewrite, SetArtifact,
         CopyFails, Crash, Expire, Write, Settle, Replay, Cleanup, vars, tableVars
<1> QED BY <1>4, <1>7, <1>8, <1>9, <1>10, <1>11, <1>12, <1>13

-----------------------------------------------------------------------------
(* Theorems.                                                               *)

\* The invariant holds in every reachable state.
THEOREM Invariance == Spec => []IInv
BY InvInit, InvNext, PTL DEF Spec

\* Type correctness of the ingestion (app.py, _process_pending_file).
THEOREM TypeCorrect == Spec => []TypeOK
<1>1. IInv => TypeOK
  BY DEF IInv
<1> QED BY <1>1, Invariance, PTL

\* A claim concluded as RESERVED names a row with an artifact, over any number of
\* crashes, failures and resumptions.
THEOREM ReservedHasArtifactAlways == Spec => []ReservedHasArtifact
<1>1. IInv => ReservedHasArtifact
  BY DEF IInv, ClaimInv, ReservedHasArtifact
<1> QED BY <1>1, Invariance, PTL

\* No step moves the artifact of a row or reopens a finished row, whatever files
\* share a key or a name.
THEOREM CompletedOnceAlways == Spec => CompletedOnce
<1>1. IInv /\ [Next]_vars =>
          [\A k \in Keys : rows[k].path # 0 =>
              /\ rows'[k].path = rows[k].path
              /\ rows[k].status = "DONE" => rows'[k].status = "DONE"]_vars
  BY RowStep
<1> QED BY <1>1, Invariance, PTL DEF Spec, CompletedOnce

-----------------------------------------------------------------------------
(* Rows, claims and files over a step.                                     *)

\* A row stays, with its file and its claim; it is new only in Reserve.
LEMMA RowsGrow ==
  ASSUME IInv, [Next]_vars, NEW k \in Keys
  PROVE  /\ rows[k] # NoRow => /\ rows'[k] # NoRow
                               /\ rows'[k].file = rows[k].file
                               /\ rows'[k].source = rows[k].source
                               /\ rows'[k].path = 0 => rows[k].path = 0
         /\ rows[k] = NoRow /\ rows'[k] # NoRow =>
                /\ Reserve /\ pc' = "copy" /\ k = Key
                /\ rows'[k].file = envelope /\ rows'[k].source = source
                /\ rows'[k].path = 0
<1> USE DEF IInv, TypeOK
<1> DEFINE Goal == /\ rows[k] # NoRow => /\ rows'[k] # NoRow
                                         /\ rows'[k].file = rows[k].file
                                         /\ rows'[k].source = rows[k].source
                                         /\ rows'[k].path = 0 => rows[k].path = 0
                   /\ rows[k] = NoRow /\ rows'[k] # NoRow =>
                          /\ Reserve /\ pc' = "copy" /\ k = Key
                          /\ rows'[k].file = envelope /\ rows'[k].source = source
                          /\ rows'[k].path = 0
<1>0. CASE UNCHANGED rows
  BY <1>0
<1>u. ASSUME NEW j \in Keys, rows[j] \in Rows, NEW path \in Names \union {0},
             NEW status \in RowStatuses,
             rows[j].path # 0 => path # 0,
             rows' = [rows EXCEPT ![j] = [rows[j] EXCEPT !.path = path, !.status = status]]
      PROVE  Goal
  <2>1. [rows[j] EXCEPT !.path = path, !.status = status] \in Rows
    BY <1>u DEF Rows
  <2>2. [rows[j] EXCEPT !.path = path, !.status = status] # NoRow /\ rows[j] # NoRow
    BY <1>u, <2>1 DEF Rows, NoRow, RowStatuses
  <2>3. /\ [rows[j] EXCEPT !.path = path, !.status = status].file = rows[j].file
        /\ [rows[j] EXCEPT !.path = path, !.status = status].source = rows[j].source
        /\ [rows[j] EXCEPT !.path = path, !.status = status].path = path
    BY <1>u DEF Rows
  <2> QED BY <1>u, <2>2, <2>3
<1>w. ASSUME NEW j \in Keys, rows[j] \in Rows, NEW status \in RowStatuses,
             rows' = [rows EXCEPT ![j].status = status]
      PROVE  Goal
  <2>1. [rows[j] EXCEPT !.status = status] =
            [rows[j] EXCEPT !.path = rows[j].path, !.status = status]
    BY <1>w DEF Rows
  <2>2. rows' = [rows EXCEPT ![j] = [rows[j] EXCEPT !.status = status]]
    BY <1>w
  <2>3. rows[j].path \in Names \union {0}
    BY <1>w DEF Rows
  <2>4. rows' = [rows EXCEPT ![j] = [rows[j] EXCEPT !.path = rows[j].path, !.status = status]]
    BY <2>1, <2>2
  <2> HIDE DEF Goal
  <2> QED BY <1>u, <1>w, <2>3, <2>4
<1>k. pc \in Parsed => Key \in Keys
  BY KeyIsKey DEF ThreadInv, Points, Parsed, Known, Copying, Key
<1>r. pc \in Known => rows[Key] \in Rows
  BY <1>k, RowOrNot DEF ThreadInv, Parsed
<1>1. CASE Reserve
  <2>1. CASE rows[Key] = NoRow
    <3>1. /\ rows' = [rows EXCEPT ![Key] = [status |-> "RESERVED", path |-> 0, file |-> envelope,
                                            source |-> source]]
          /\ pc' = "copy" /\ Key \in Keys
      BY <1>1, <2>1, <1>k DEF Reserve, Parsed
    <3> QED BY <1>1, <2>1, <3>1
  <2>2. CASE rows[Key] # NoRow
    BY <1>0, <1>1, <2>2 DEF Reserve
  <2> QED BY <2>1, <2>2
<1>2. CASE SetArtifact
  <2>1. rows' = [rows EXCEPT ![Key] = [rows[Key] EXCEPT !.path = cur, !.status = "RESERVED"]]
    BY <1>2 DEF SetArtifact
  <2>2. Key \in Keys /\ rows[Key] \in Rows /\ cur \in Names /\ rows[Key].path = 0
    BY <1>2, <1>k, <1>r DEF SetArtifact, ThreadInv, Parsed, Known, Copying
  <2> QED BY <1>u, <2>1, <2>2 DEF RowStatuses
<1>3. CASE CopyFails
  <2>1. Key \in Keys /\ rows[Key] \in Rows
    BY <1>3, <1>k, <1>r DEF CopyFails, Parsed, Known, Copying
  <2>2. CASE UNCHANGED rows
    BY <2>2, <1>0
  <2>3. CASE rows' = [rows EXCEPT ![Key].status = "FILE_COPY_FAILED"]
    BY <1>w, <2>1, <2>3 DEF RowStatuses
  <2> QED BY <1>3, <2>2, <2>3 DEF CopyFails
<1>4. ASSUME NEW j \in Keys, Settle(j) \/ Replay(j) PROVE Goal
  <2>1. rows[j] \in Rows
    BY <1>4, RowOrNot DEF Settle, Replay, RowStatuses
  <2>2. PICK status \in RowStatuses : rows' = [rows EXCEPT ![j].status = status]
    BY <1>4 DEF Settle, Replay, RowStatuses
  <2> QED BY <1>w, <2>1, <2>2
<1>5. \/ UNCHANGED rows
      \/ Reserve \/ SetArtifact \/ CopyFails
      \/ \E j \in Keys : Settle(j) \/ Replay(j)
  BY DEF Next, Thread, World, Scan, EndScan, Claim, Parse, Reject, Suppress, Resume, Copy,
         Rewrite, ConcludeCopyFailure, Finalize, Crash, Expire, Write, Cleanup, vars,
         tableVars
<1> QED BY <1>0, <1>1, <1>2, <1>3, <1>4, <1>5

\* A write takes a time stamp no file had, and what was written stays written; a file that
\* is out of date stays so.
LEMMA WatchStep ==
  ASSUME TypeOK, [Next]_vars
  PROVE  /\ stale \subseteq stale'
         /\ \A n \in Names : written[n] \subseteq written'[n]
         /\ \/ UNCHANGED <<watch, clock>>
            \/ /\ clock' = clock + 1
               /\ UNCHANGED <<tableVars, processing, threadVars>>
               /\ \E n \in Names, b \in Bodies :
                      LET file == [body |-> b, stamp |-> clock + 1] IN
                      watch' = [watch EXCEPT ![n] = file] /\ file \in written'[n]
<1> USE DEF worldVars
<1>1. ASSUME NEW n \in Names, NEW b \in Bodies, Write(n, b)
      PROVE  /\ clock' = clock + 1 /\ UNCHANGED stale
             /\ UNCHANGED <<tableVars, processing, threadVars>>
             /\ watch' = [watch EXCEPT ![n] = [body |-> b, stamp |-> clock + 1]]
             /\ [body |-> b, stamp |-> clock + 1] \in written'[n]
             /\ \A m \in Names : written[m] \subseteq written'[m]
  BY <1>1 DEF Write, TypeOK
<1>2. \/ UNCHANGED worldVars
      \/ \E n \in Names : Expire(n) \/ \E b \in Bodies : Write(n, b)
  BY DEF Next, Thread, World, Scan, EndScan, Claim, Parse, Reject, Reserve, Suppress, Resume,
         Copy, Rewrite, ConcludeCopyFailure, SetArtifact, Finalize, CopyFails, Crash, Settle,
         Replay, Cleanup, vars
<1>3. CASE UNCHANGED worldVars
  BY <1>3
<1>4. ASSUME NEW n \in Names, Expire(n)
      PROVE  stale \subseteq stale' /\ UNCHANGED <<watch, clock, written>>
  BY <1>4 DEF Expire
<1> QED BY <1>1, <1>2, <1>3, <1>4

\* A claim stays; it is changed by the thread alone, and only the claim of the file under
\* work, or of a file seen first.
LEMMA SeenStep ==
  ASSUME IInv, [Next]_vars, NEW s \in Sources
  PROVE  /\ seen[s] # NotSeen => seen'[s] # NotSeen
         /\ \/ seen'[s] = seen[s]
            \/ seen'[s].status \in Unfinished
            \/ s = source /\ (Reject \/ Suppress \/ Resume \/ Finalize)
<1> USE DEF IInv, TypeOK
<1> DEFINE Goal == /\ seen[s] # NotSeen => seen'[s] # NotSeen
                   /\ \/ seen'[s] = seen[s]
                      \/ seen'[s].status \in Unfinished
                      \/ s = source /\ (Reject \/ Suppress \/ Resume \/ Finalize)
<1>c. ASSUME NEW status, NEW key, Conclude(status, key), status # "UNSEEN",
             \/ status \in Unfinished
             \/ Reject \/ Suppress \/ Resume \/ Finalize
      PROVE  Goal
  <2>1. CASE s = source
    <3>1. seen'[s] = [status |-> status, key |-> key]
      BY <1>c, <2>1 DEF Conclude
    <3> QED BY <1>c, <2>1, <3>1 DEF NotSeen
  <2>2. CASE s # source
    BY <1>c, <2>2 DEF Conclude
  <2> QED BY <2>1, <2>2
<1>1. CASE UNCHANGED seen
  BY <1>1
<1>2. ASSUME NEW n \in Names, Claim(n) PROVE Goal
  <2> DEFINE c == [name |-> n, body |-> watch[n].body]
  <2>1. CASE UNCHANGED seen
    BY <2>1, <1>1
  <2>2. CASE /\ seen[c] = NotSeen
             /\ seen' = [seen EXCEPT ![c] = [status |-> "DISCOVERED", key |-> NoKey]]
    BY <2>2 DEF Unfinished, NotSeen
  <2> QED BY <1>2, <2>1, <2>2 DEF Claim
<1>3. CASE Reject \/ Suppress \/ ConcludeCopyFailure \/ Finalize
  BY <1>3, <1>c DEF Reject, Suppress, ConcludeCopyFailure, Finalize, Unfinished
<1>4. CASE Resume
  <2>1. CASE UNCHANGED seen
    BY <2>1, <1>1
  <2>2. CASE Conclude(rows[Key].status, Key)
    <3>1. Key \in Keys /\ rows[Key] \in Rows
      BY <1>4, KeyIsKey, RowOrNot DEF Resume, ThreadInv, Parsed, Known, Key
    <3>2. rows[Key].status # "UNSEEN"
      BY <3>1, RowOrNot DEF RowStatuses
    <3> QED BY <1>c, <1>4, <2>2, <3>2
  <2> QED BY <1>4, <2>1, <2>2 DEF Resume
<1>5. \/ UNCHANGED seen
      \/ Reject \/ Suppress \/ Resume \/ ConcludeCopyFailure \/ Finalize
      \/ \E n \in Names : Claim(n)
  BY DEF Next, Thread, World, Scan, EndScan, Parse, Reserve, Copy, Rewrite, SetArtifact,
         CopyFails, Crash, Expire, Write, Settle, Replay, Cleanup, vars, tableVars
<1> QED BY <1>1, <1>2, <1>3, <1>4, <1>5

\* The row under work is the only one of its file that its claim can wait for: any other
\* has been overtaken by a file written later.
LEMMA OthersWithdrawn ==
  ASSUME IInv, CarryInv, pc \in Parsed, NEW k \in Keys, Awaits(k, source), k # Key
  PROVE  Withdrawn(k)
<1>1. k = KeyFor(rows[k].source.name, rows[k].file) /\ rows[k].source.name = cur
  BY DEF CarryInv, RowsOfFiles, ClaimIsOpen, Awaits, Parsed, Known, Copying
<1>2. envelope = watch[cur] \/ rows[k].file # watch[cur]
  BY DEF CarryInv, ClaimIsOpen, Awaits
<1> QED BY <1>1, <1>2 DEF Withdrawn, Key

\* Files, rows and claims keep their order of appearance.
LEMMA RowsOfFilesNext ==
  ASSUME IInv, CarryInv, [Next]_vars
  PROVE  RowsOfFiles'
<1> USE DEF IInv, TypeOK, CarryInv
<1>0. clock \in Nat /\ (clock' = clock \/ clock' = clock + 1)
  BY WatchStep, IngestionAssumption
<1>1. ASSUME NEW n \in Names, watch'[n] # NoFile PROVE watch'[n].stamp <= clock'
  <2>1. CASE UNCHANGED <<watch, clock>>
    BY <1>1, <2>1 DEF RowsOfFiles
  <2>2. ASSUME clock' = clock + 1, NEW m \in Names, NEW b \in Bodies,
               watch' = [watch EXCEPT ![m] = [body |-> b, stamp |-> clock + 1]]
        PROVE  watch'[n].stamp <= clock'
    <3>1. CASE n = m
      BY <1>0, <2>2, <3>1
    <3>2. CASE n # m
      <4>1. watch'[n] = watch[n] /\ watch[n].stamp \in Nat /\ watch[n].stamp <= clock
        BY <1>1, <2>2, <3>2 DEF RowsOfFiles, Files, Stamps
      <4>2. watch[n].stamp <= clock + 1
        BY <1>0, <4>1
      <4> QED BY <2>2, <4>1, <4>2
    <3> QED BY <3>1, <3>2
  <2> QED BY <2>1, <2>2, WatchStep
<1>l. ASSUME NEW x \in Nat, x <= clock PROVE x <= clock'
  <2>1. x <= clock + 1
    BY <1>0, <1>l
  <2> QED BY <1>0, <1>l, <2>1
<1>2. ASSUME pc' \in Parsed PROVE envelope'.stamp <= clock'
  <2>1. CASE Parse
    <3>1. envelope' = watch[cur] /\ watch[cur] \in Files /\ cur \in Names /\ UNCHANGED clock
      BY <1>2, <2>1 DEF Parse, Goto, Parsed, Known, Copying, ThreadInv, worldVars
    <3> QED BY <3>1 DEF RowsOfFiles, Files, NoFile, Stamps
  <2>2. CASE ~Parse
    <3>1. envelope' = envelope /\ pc \in Parsed
      BY <1>2, <2>2 DEF Next, Thread, World, Scan, EndScan, Claim, Reject, Reserve, Suppress, Resume,
         Copy, Rewrite, ConcludeCopyFailure, SetArtifact, Finalize, CopyFails, Crash, Settle,
         Replay, Cleanup, Expire, Write, vars, threadVars, Goto, EndFile, Restart, Parsed, Known,
         Copying, IsNext
    <3>2. envelope.stamp \in Nat /\ envelope.stamp <= clock
      BY <3>1 DEF ThreadInv, Files, Stamps, RowsOfFiles
    <3> QED BY <1>l, <3>1, <3>2
  <2> QED BY <2>1, <2>2
<1>3. ASSUME NEW k \in Keys, rows'[k] # NoRow
      PROVE  /\ k = KeyFor(rows'[k].source.name, rows'[k].file)
             /\ rows'[k].file.stamp <= clock'
             /\ seen'[rows'[k].source] # NotSeen
  <2>1. CASE rows[k] # NoRow
    <3>1. rows'[k].file = rows[k].file /\ rows'[k].source = rows[k].source
      BY <2>1, RowsGrow
    <3>2. rows[k].file \in Files /\ rows[k].source \in Sources
      BY <2>1 DEF Rows
    <3>3. /\ k = KeyFor(rows[k].source.name, rows[k].file)
          /\ rows[k].file.stamp <= clock
          /\ seen[rows[k].source] # NotSeen
      BY <2>1 DEF RowsOfFiles
    <3>4. rows[k].file.stamp <= clock'
      BY <1>l, <3>2, <3>3 DEF Files, Stamps
    <3>5. seen'[rows[k].source] # NotSeen
      BY <3>2, <3>3, SeenStep
    <3> QED BY <3>1, <3>3, <3>4, <3>5
  <2>2. CASE rows[k] = NoRow
    <3>1. /\ Reserve /\ k = Key
          /\ rows'[k].file = envelope /\ rows'[k].source = source
      BY <1>3, <2>2, RowsGrow
    <3>2. /\ source.name = cur /\ seen[source].status \in Unfinished /\ source \in Sources
          /\ envelope \in Files /\ envelope.stamp <= clock /\ UNCHANGED <<clock, seen>>
      BY <3>1 DEF Reserve, ClaimIsOpen, ThreadInv, RowsOfFiles, Parsed, worldVars
    <3>3. seen[source] # NotSeen
      BY <3>2 DEF NotSeen, Unfinished
    <3> QED BY <3>1, <3>2, <3>3 DEF Key
  <2> QED BY <2>1, <2>2
<1> QED BY <1>1, <1>2, <1>3 DEF RowsOfFiles

\* A row that is out of date stays so: no file has the time stamp of an earlier one.
LEMMA WithdrawnStays ==
  ASSUME IInv, CarryInv, [Next]_vars, NEW k \in Keys, rows[k] # NoRow, Withdrawn(k)
  PROVE  Withdrawn(k)'
<1>1. rows'[k].file = rows[k].file /\ rows'[k].source = rows[k].source
  BY RowsGrow
<1>2. rows[k].file.stamp \in Nat /\ rows[k].file.stamp <= clock /\ clock \in Nat
      /\ rows[k].source.name \in Names
  BY IngestionAssumption DEF IInv, TypeOK, Rows, Files, Stamps, Sources, CarryInv, RowsOfFiles
<1>3. stale \subseteq stale'
  BY WatchStep DEF IInv
<1>4. ASSUME watch'[rows[k].source.name] = rows[k].file
      PROVE  watch'[rows[k].source.name] = watch[rows[k].source.name]
  <2>1. CASE UNCHANGED watch
    BY <2>1
  <2>2. ASSUME NEW m \in Names, NEW b \in Bodies,
               watch' = [watch EXCEPT ![m] = [body |-> b, stamp |-> clock + 1]]
        PROVE  watch'[rows[k].source.name] = watch[rows[k].source.name]
    <3>1. rows[k].file.stamp # clock + 1
      BY <1>2
    <3>2. rows[k].source.name # m
      BY <1>2, <1>4, <2>2, <3>1 DEF IInv, TypeOK
    <3> QED BY <1>2, <2>2, <3>2 DEF IInv, TypeOK
  <2> QED BY <2>1, <2>2, WatchStep DEF IInv
<1> QED BY <1>1, <1>3, <1>4 DEF Withdrawn

\* Nobody but the thread concludes the claim of the file under work, and it never has two.
LEMMA ClaimIsOpenNext ==
  ASSUME IInv, CarryInv, [Next]_vars
  PROVE  ClaimIsOpen'
<1> USE DEF IInv, TypeOK
<1> DEFINE First == {"parse", "reject", "reserve", "suppress"}
           Open == pc \notin {"scan", "next"} =>
                       source.name = cur /\ seen[source].status \in Unfinished
           NoRowYet == pc \in First /\ ~resuming =>
                           \A k \in Keys : rows[k] # NoRow => rows[k].source # source
           Suppressed == pc = "suppress" => ~resuming
           Rejected == pc = "reject" => \A k \in Keys : Awaits(k, source) => Withdrawn(k)
           Current == pc \in Parsed =>
                          \/ envelope = watch[cur]
                          \/ \A k \in Keys : rows[k] # NoRow => rows[k].file # watch[cur]
<1>c. Open /\ NoRowYet /\ Suppressed /\ Rejected /\ Current
  BY DEF CarryInv, ClaimIsOpen
<1>p. ASSUME Open', NoRowYet', Suppressed', Rejected', Current' PROVE ClaimIsOpen'
  BY <1>p DEF ClaimIsOpen
<1>n. ASSUME pc' \in {"scan", "next"} PROVE ClaimIsOpen'
  BY <1>n, <1>p DEF Parsed, Known, Copying
<1>g. ASSUME NEW k \in Keys, ~Reserve, rows'[k] # NoRow
      PROVE  /\ rows[k] # NoRow /\ rows'[k].file = rows[k].file /\ rows'[k].source = rows[k].source
             /\ rows'[k].path = 0 => rows[k].path = 0
  BY <1>g, RowsGrow
<1>f. ASSUME UNCHANGED <<pc, cur, source, envelope, resuming, watch>>, UNCHANGED seen, ~Reserve
      PROVE  ClaimIsOpen'
  <2>1. Rejected'
    BY <1>c, <1>f, <1>g, WithdrawnStays DEF Awaits
  <2>2. NoRowYet' /\ Current'
    BY <1>c, <1>f, <1>g
  <2> HIDE DEF Rejected, NoRowYet, Current
  <2> QED BY <1>c, <1>f, <1>p, <2>1, <2>2
<1>1. ASSUME NEW n \in Names, Claim(n) PROVE ClaimIsOpen'
  <2> DEFINE s == [name |-> n, body |-> watch[n].body]
  <2>1. UNCHANGED rows /\ pc = "next" /\ n \in Names /\ s \in Sources
    BY <1>1 DEF Claim, IsNext, ThreadInv, Sources, Files
  <2>2. CASE pc' = "next"
    BY <2>2, <1>n
  <2>3. CASE /\ seen[s] = NotSeen
             /\ seen' = [seen EXCEPT ![s] = [status |-> "DISCOVERED", key |-> NoKey]]
             /\ cur' = n /\ source' = s /\ resuming' = FALSE /\ pc' = "parse"
    <3>1. \A k \in Keys : rows'[k] # NoRow => rows'[k].source # s
      BY <2>1, <2>3 DEF CarryInv, RowsOfFiles
    <3>2. Open'
      BY <2>1, <2>3 DEF Unfinished
    <3> QED BY <2>3, <3>1, <3>2, <1>p DEF Parsed, Known, Copying
  <2>4. CASE /\ seen[s].status \in Unfinished /\ UNCHANGED seen
             /\ cur' = n /\ source' = s /\ resuming' = TRUE /\ pc' = "parse"
    BY <2>4, <1>p DEF Parsed, Known, Copying
  <2> QED BY <1>1, <2>1, <2>2, <2>3, <2>4 DEF Claim
<1>2. CASE Parse
  <2> USE <1>2 DEF Parse, tableVars, worldVars, Goto
  <2>1. Open'
    BY <1>c
  <2>2. NoRowYet'
    BY <1>c
  <2>3. Rejected'
    <3> SUFFICES ASSUME pc' = "reject", NEW k \in Keys, Awaits(k, source) PROVE Withdrawn(k)'
      BY DEF Awaits
    <3>1. watch[cur] \in stale /\ UNCHANGED <<rows, watch, stale>>
      OBVIOUS
    <3>2. rows[k].source.name = cur
      BY <1>c DEF Awaits
    <3> QED BY <3>1, <3>2 DEF Withdrawn
  <2>4. Current' /\ Suppressed'
    BY DEF Parsed, Known, Copying
  <2> HIDE DEF Open, NoRowYet, Rejected, Current, Suppressed
  <2> QED BY <2>1, <2>2, <2>3, <2>4, <1>p
<1>3. CASE Reserve
  <2>1. UNCHANGED <<watch, seen, cur, source, envelope>> /\ pc = "reserve"
    BY <1>3 DEF Reserve, worldVars, Goto
  <2>2. CASE rows[Key] = NoRow
    <3>1. pc' = "copy"
      BY <1>3, <2>2 DEF Reserve
    <3>2. Current'
      <4> SUFFICES ASSUME envelope # watch[cur], NEW k \in Keys, rows'[k] # NoRow
                   PROVE  rows'[k].file # watch[cur]
        BY <2>1
      <4> QED BY <1>c, <2>1, RowsGrow DEF Parsed
    <3>3. Open'
      BY <1>c, <2>1
    <3> QED BY <3>1, <3>2, <3>3, <1>p
  <2>3. CASE rows[Key] # NoRow
    <3>1. UNCHANGED <<rows, resuming>> /\ pc' = (IF resuming THEN "resume" ELSE "suppress")
      BY <1>3, <2>3 DEF Reserve, Goto
    <3>2. Current'
      BY <1>c, <2>1, <3>1 DEF Parsed
    <3> QED BY <1>c, <2>1, <3>1, <3>2, <1>p
  <2> QED BY <2>2, <2>3
<1>4. CASE \/ Scan \/ EndScan \/ Reject \/ Suppress \/ ConcludeCopyFailure \/ Finalize \/ Crash
  BY <1>4, <1>n DEF Scan, EndScan, Reject, Suppress, ConcludeCopyFailure, Finalize, Crash,
     EndFile, Restart, Goto
<1>5. CASE Resume \/ Copy \/ Rewrite \/ SetArtifact \/ CopyFails
  <2>1. CASE pc' = "next" \/ pc' = "scan"
    BY <2>1, <1>n
  <2>2. CASE pc' \notin {"next", "scan"}
    <3>1. /\ UNCHANGED <<cur, source, envelope, watch, seen>>
          /\ pc' \in {"copy", "rewrite", "artifact", "finalize", "copy_failed"}
          /\ pc \in Parsed
      <4>1. CASE Resume
        BY <2>2, <4>1 DEF Resume, worldVars, EndFile, Goto, Restart, Parsed, Known, Copying
      <4>2. CASE Copy
        BY <2>2, <4>2 DEF Copy, worldVars, tableVars, EndFile, Goto, Restart, Parsed, Known, Copying
      <4>3. CASE Rewrite
        BY <2>2, <4>3 DEF Rewrite, worldVars, tableVars, EndFile, Goto, Restart, Parsed, Known, Copying
      <4>4. CASE SetArtifact
        BY <2>2, <4>4 DEF SetArtifact, worldVars, EndFile, Goto, Restart, Parsed, Known, Copying
      <4>5. CASE CopyFails
        BY <2>2, <4>5 DEF CopyFails, worldVars, EndFile, Goto, Restart, Parsed, Known, Copying
      <4> QED BY <1>5, <4>1, <4>2, <4>3, <4>4, <4>5
    <3>2. ~Reserve
      BY <1>5 DEF Reserve, Resume, Copy, Rewrite, SetArtifact, CopyFails
    <3>3. Current'
      BY <1>c, <3>1, <3>2, <1>g
    <3>4. Open'
      BY <1>c, <3>1 DEF Parsed, Known, Copying
    <3> QED BY <3>1, <3>3, <3>4, <1>p
  <2> QED BY <2>1, <2>2
<1>6. ASSUME NEW n \in Names, NEW b \in Bodies, Write(n, b) PROVE ClaimIsOpen'
  <2>1. /\ watch' = [watch EXCEPT ![n] = [body |-> b, stamp |-> clock + 1]]
        /\ UNCHANGED <<pc, cur, source, envelope, resuming, seen, rows>> /\ ~Reserve
    BY <1>6 DEF Write, Reserve, tableVars, threadVars, worldVars
  <2>2. Current'
    <3>1. CASE cur = n
      <4>1. pc \in Parsed => watch'[cur].stamp = clock + 1
        BY <2>1, <3>1
      <4>2. \A k \in Keys : rows[k] # NoRow => rows[k].file.stamp # clock + 1
        BY IngestionAssumption DEF CarryInv, RowsOfFiles, Rows, Files, Stamps
      <4> QED BY <2>1, <4>1, <4>2
    <3>2. CASE cur # n
      BY <1>c, <2>1, <3>2
    <3> QED BY <3>1, <3>2
  <2>3. Rejected'
    BY <1>c, <2>1, WithdrawnStays DEF Awaits
  <2>4. Open' /\ NoRowYet' /\ Suppressed'
    BY <1>c, <2>1
  <2> HIDE DEF Open, NoRowYet, Rejected, Current, Suppressed
  <2> QED BY <2>2, <2>3, <2>4, <1>p
<1>7. ASSUME NEW n \in Names, Expire(n) PROVE ClaimIsOpen'
  BY <1>7, <1>f DEF Expire, tableVars, threadVars, Reserve, worldVars
<1>8. ASSUME NEW k \in Keys, Settle(k) \/ Replay(k) \/ Cleanup(k) PROVE ClaimIsOpen'
  <2>1. UNCHANGED <<pc, cur, source, envelope, resuming, watch>> /\ UNCHANGED seen
    BY <1>8 DEF Settle, Replay, Cleanup, tableVars, threadVars, worldVars
  <2>2. ~Reserve
    <3>1. Reserve => pc' # pc
      BY DEF Reserve, Goto
    <3> QED BY <2>1, <3>1
  <2> QED BY <2>1, <2>2, <1>f
<1>9. CASE UNCHANGED vars
  <2>1. ~Reserve
    BY <1>9 DEF vars, threadVars, Reserve, Goto
  <2> QED BY <1>9, <2>1, <1>f DEF vars, tableVars, threadVars, worldVars
<1> QED BY <1>1, <1>2, <1>3, <1>4, <1>5, <1>6, <1>7, <1>8, <1>9 DEF Next, Thread, World

\* A row without artifact keeps its open claim until its file is out of date: a claim is
\* concluded only when its row has the artifact, when it never had a row, or when its file
\* was rejected.
LEMMA CarriedNext ==
  ASSUME IInv, CarryInv, [Next]_vars
  PROVE  RowIsCarried'
<1> SUFFICES ASSUME NEW k \in Keys, rows'[k] # NoRow, rows'[k].path = 0
             PROVE  seen'[rows'[k].source].status \in Unfinished \/ Withdrawn(k)'
  BY DEF RowIsCarried, Withdrawn
<1>1. CASE rows[k] = NoRow
  <2>1. Reserve /\ rows'[k].source = source
    BY <1>1, RowsGrow
  <2>2. seen[source].status \in Unfinished /\ UNCHANGED seen
    BY <2>1 DEF Reserve, CarryInv, ClaimIsOpen
  <2> QED BY <2>1, <2>2
<1>2. CASE rows[k] # NoRow
  <2>1. /\ rows[k].path = 0 /\ rows'[k].source = rows[k].source
        /\ rows[k].source \in Sources
    BY <1>2, RowsGrow DEF IInv, TypeOK, Rows
  <2>2. CASE Withdrawn(k)
    BY <1>2, <2>2, WithdrawnStays
  <2>3. CASE ~Withdrawn(k)
    <3>1. seen[rows[k].source].status \in Unfinished
      BY <1>2, <2>1, <2>3 DEF CarryInv, RowIsCarried, Withdrawn
    <3>2. CASE \/ seen'[rows[k].source] = seen[rows[k].source]
               \/ seen'[rows[k].source].status \in Unfinished
      BY <2>1, <3>1, <3>2
    <3>3. ASSUME rows[k].source = source PROVE Awaits(k, source)
      BY <1>2, <2>1, <3>3 DEF Awaits
    <3>4. CASE rows[k].source = source /\ Reject
      BY <2>3, <3>3, <3>4 DEF Reject, CarryInv, ClaimIsOpen
    <3>5. CASE rows[k].source = source /\ Suppress
      BY <1>2, <3>5 DEF Suppress, CarryInv, ClaimIsOpen
    <3>6. CASE rows[k].source = source /\ (Resume \/ Finalize)
      <4>1. pc \in Parsed
        BY <3>6 DEF Resume, Finalize, Parsed, Known, Copying
      <4>2. CASE rows[Key].path # 0
        <5>1. k # Key
          BY <2>1, <4>2
        <5> QED BY <2>3, <3>3, <3>6, <4>1, <5>1, OthersWithdrawn
      <4>3. CASE rows[Key].path = 0
        <5>1. UNCHANGED seen
          BY <3>6, <4>3 DEF Resume, Finalize, IInv, ThreadInv
        <5> QED BY <2>1, <3>1, <5>1
      <4> QED BY <4>2, <4>3
    <3> QED BY <2>1, <3>2, <3>4, <3>5, <3>6, SeenStep
  <2> QED BY <2>2, <2>3
<1> QED BY <1>1, <1>2

\* The invariant holds in every reachable state.
LEMMA CarryInvariance == Spec => []CarryInv
<1>1. Init => CarryInv
  <2> SUFFICES ASSUME Init PROVE CarryInv
    OBVIOUS
  <2> USE DEF Init
  <2>1. RowsOfFiles
    BY DEF RowsOfFiles, Parsed, Known, Copying
  <2>2. ClaimIsOpen
    BY DEF ClaimIsOpen, Parsed, Known, Copying
  <2> QED BY <2>1, <2>2 DEF CarryInv, RowIsCarried
<1>2. IInv /\ CarryInv /\ [Next]_vars => CarryInv'
  BY RowsOfFilesNext, ClaimIsOpenNext, CarriedNext DEF CarryInv
<1> QED BY <1>1, <1>2, Invariance, PTL DEF Spec

\* A row that still lacks its artifact is not forgotten, over any number of crashes, disk
\* failures, resumptions and rewritten files (app.py, _process_pending_file).
THEOREM RowsAreCarried == Spec => []RowIsCarried
<1>1. CarryInv => RowIsCarried
  BY DEF CarryInv
<1> QED BY <1>1, CarryInvariance, PTL

-----------------------------------------------------------------------------
(* Artifacts.                                                              *)

\* A row gets its artifact in SetArtifact.
LEMMA PathStep ==
  ASSUME IInv, [Next]_vars, NEW k \in Keys, rows[k].path = 0, rows'[k].path # 0
  PROVE  SetArtifact /\ k = Key /\ rows'[k].path = cur
<1> USE DEF IInv, TypeOK
<1>k. pc \in Parsed => Key \in Keys
  BY KeyIsKey DEF ThreadInv, Points, Parsed, Known, Copying, Key
<1>r. pc \in Known => rows[Key] \in Rows
  BY <1>k, RowOrNot DEF ThreadInv, Parsed
<1>1. ASSUME NEW j \in Keys, rows[j] \in Rows, NEW status \in RowStatuses,
             rows' = [rows EXCEPT ![j].status = status]
      PROVE  FALSE
  BY <1>1, StatusKeeps
<1>2. CASE Reserve
  <2>1. k # Key \/ UNCHANGED rows \/ rows'[k].path = 0
    BY <1>2 DEF Reserve
  <2> QED BY <1>2, <2>1 DEF Reserve
<1>3. CASE SetArtifact
  <2>1. rows' = [rows EXCEPT ![Key] = [rows[Key] EXCEPT !.path = cur, !.status = "RESERVED"]]
    BY <1>3 DEF SetArtifact
  <2>2. Key \in Keys /\ rows[Key] \in Rows /\ cur \in Names
    BY <1>3, <1>k, <1>r DEF SetArtifact, ThreadInv, Parsed, Known, Copying
  <2>3. [rows[Key] EXCEPT !.path = cur, !.status = "RESERVED"].path = cur
    BY <2>2, ArtifactUpdate DEF RowStatuses
  <2> QED BY <1>3, <2>1, <2>2, <2>3
<1>4. CASE CopyFails
  <2>1. Key \in Keys /\ rows[Key] \in Rows
    BY <1>4, <1>k, <1>r DEF CopyFails, Parsed, Known, Copying
  <2> QED BY <1>1, <1>4, <2>1 DEF CopyFails, RowStatuses
<1>5. ASSUME NEW j \in Keys, Settle(j) \/ Replay(j) PROVE FALSE
  <2>1. rows[j] \in Rows
    BY <1>5, RowOrNot DEF Settle, Replay, RowStatuses
  <2> QED BY <1>1, <1>5, <2>1 DEF Settle, Replay, RowStatuses
<1>6. \/ UNCHANGED rows
      \/ Reserve \/ SetArtifact \/ CopyFails
      \/ \E j \in Keys : Settle(j) \/ Replay(j)
  BY DEF Next, Thread, World, Scan, EndScan, Claim, Parse, Reject, Suppress, Resume, Copy,
         Rewrite, ConcludeCopyFailure, Finalize, Crash, Expire, Write, Cleanup, vars,
         tableVars
<1> QED BY <1>2, <1>3, <1>4, <1>5, <1>6

\* A row is settled once it has its artifact.
LEMMA SettleStep ==
  ASSUME IInv, [Next]_vars, NEW k \in Keys, rows[k].path = 0,
         rows[k].status \notin {"DONE", "DEADLETTER_B"}
  PROVE  rows'[k].status \notin {"DONE", "DEADLETTER_B"}
<1> USE DEF IInv, TypeOK
<1>u. ASSUME NEW j, NEW row, row.status \notin {"DONE", "DEADLETTER_B"},
             rows' = [rows EXCEPT ![j] = row]
      PROVE  rows'[k].status \notin {"DONE", "DEADLETTER_B"}
  BY <1>u
<1>1. CASE Reserve
  BY <1>1, <1>u DEF Reserve
<1>2. CASE SetArtifact
  <2>1. rows' = [rows EXCEPT ![Key] = [rows[Key] EXCEPT !.path = cur, !.status = "RESERVED"]]
    BY <1>2 DEF SetArtifact
  <2>2. Key \in Keys /\ rows[Key] \in Rows
    BY <1>2, KeyIsKey, RowOrNot DEF SetArtifact, ThreadInv, Parsed, Known, Copying, Key
  <2>3. [rows[Key] EXCEPT !.path = cur, !.status = "RESERVED"].status = "RESERVED"
    BY <2>2 DEF Rows
  <2> QED BY <1>u, <2>1, <2>3
<1>3. CASE CopyFails
  <2>1. Key \in Keys /\ rows[Key] \in Rows
    BY <1>3, KeyIsKey, RowOrNot DEF CopyFails, ThreadInv, Parsed, Known, Copying, Key
  <2>2. [rows[Key] EXCEPT !.status = "FILE_COPY_FAILED"].status = "FILE_COPY_FAILED"
    BY <2>1 DEF Rows
  <2>3. \/ UNCHANGED rows
        \/ rows' = [rows EXCEPT ![Key] = [rows[Key] EXCEPT !.status = "FILE_COPY_FAILED"]]
    BY <1>3 DEF CopyFails
  <2> QED BY <1>u, <2>2, <2>3
<1>4. ASSUME NEW j \in Keys, Settle(j) \/ Replay(j)
      PROVE  rows'[k].status \notin {"DONE", "DEADLETTER_B"}
  <2>1. CASE j = k
    BY <1>4, <2>1 DEF Settle, Replay
  <2>2. CASE j # k
    BY <1>4, <2>2 DEF Settle, Replay
  <2> QED BY <2>1, <2>2
<1>5. \/ UNCHANGED rows
      \/ Reserve \/ SetArtifact \/ CopyFails
      \/ \E j \in Keys : Settle(j) \/ Replay(j)
  BY DEF Next, Thread, World, Scan, EndScan, Claim, Parse, Reject, Suppress, Resume, Copy,
         Rewrite, ConcludeCopyFailure, Finalize, Crash, Expire, Write, Cleanup, vars,
         tableVars
<1> QED BY <1>1, <1>2, <1>3, <1>4, <1>5

\* A copy is made by the thread, of its file, and removed by the cleanup of a done row.
LEMMA CopyStep ==
  ASSUME IInv, [Next]_vars, NEW n \in Names
  PROVE  \/ processing'[n] = processing[n]
         \/ \E k \in Keys : rows[k].status = "DONE" /\ n = rows[k].path /\ Cleanup(k)
                            /\ processing'[n] = NoCopy
         \/ /\ n = cur /\ pc \in {"copy", "rewrite"} /\ UNCHANGED watch
            /\ processing'[n] # NoCopy
            /\ \/ processing'[n].body = watch[n].body
               \/ pc = "rewrite" /\ processing'[n].body = envelope.body
<1> USE DEF IInv, TypeOK
<1> DEFINE Goal == \/ processing'[n] = processing[n]
                   \/ \E k \in Keys : rows[k].status = "DONE" /\ n = rows[k].path /\ Cleanup(k)
                                      /\ processing'[n] = NoCopy
                   \/ /\ n = cur /\ pc \in {"copy", "rewrite"} /\ UNCHANGED watch
                      /\ processing'[n] # NoCopy
                      /\ \/ processing'[n].body = watch[n].body
                         \/ pc = "rewrite" /\ processing'[n].body = envelope.body
<1>1. ASSUME NEW b, NEW form \in {"raw", "torn", "normal"}, UNCHANGED watch,
             processing' = [processing EXCEPT ![cur] = [body |-> b, form |-> form]],
             \/ pc \in {"copy", "rewrite"} /\ b = watch[cur].body
             \/ pc = "rewrite" /\ b = envelope.body
      PROVE  Goal
  <2>1. CASE n = cur
    <3>1. processing'[n] = [body |-> b, form |-> form]
      BY <1>1, <2>1
    <3>2. processing'[n] # NoCopy
      BY <3>1 DEF NoCopy
    <3> QED BY <1>1, <2>1, <3>1, <3>2
  <2>2. CASE n # cur
    BY <1>1, <2>2
  <2> QED BY <2>1, <2>2
<1>2. CASE Copy
  BY <1>1, <1>2 DEF Copy, worldVars
<1>3. CASE Rewrite
  BY <1>1, <1>3 DEF Rewrite, worldVars
<1>4. CASE CopyFails \/ Crash
  <2>1. CutShort /\ UNCHANGED watch
    BY <1>4 DEF CopyFails, Crash, worldVars
  <2> QED BY <1>1, <2>1 DEF CutShort
<1>5. ASSUME NEW k \in Keys, Cleanup(k) PROVE Goal
  BY <1>5 DEF Cleanup
<1>6. CASE UNCHANGED processing
  BY <1>6
<1>7. \/ UNCHANGED processing
      \/ Copy \/ Rewrite \/ CopyFails \/ Crash
      \/ \E k \in Keys : Cleanup(k)
  BY DEF Next, Thread, World, Scan, EndScan, Claim, Parse, Reject, Reserve, Suppress, Resume,
         ConcludeCopyFailure, SetArtifact, Finalize, Expire, Write, Settle, Replay, vars
<1> QED BY <1>2, <1>3, <1>4, <1>5, <1>6, <1>7

\* What is read, copied and dispatched under a name was written under it, and the copy goes
\* only when a row of that name is done.
LEMMA NameNext ==
  ASSUME IInv, CarryInv, NameInv, [Next]_vars
  PROVE  NameInv'
<1> USE DEF IInv, TypeOK
<1>w. \A n \in Names : written[n] \subseteq written'[n]
  BY WatchStep
<1>c. pc \notin {"scan", "next"} => cur \in Names /\ watch[cur] \in written[cur]
  BY DEF ThreadInv, NameInv
<1>m. \A n \in Names : Messages(n) \subseteq Messages(n)'
  BY <1>w DEF Messages, KeyFor
<1>d. ASSUME NEW n \in Names, DoneUnder(n) PROVE DoneUnder(n)'
  <2>1. PICK j \in Keys : rows[j].path = n /\ rows[j].status = "DONE"
    BY <1>d DEF DoneUnder
  <2>2. rows[j].path # 0
    BY <2>1, IngestionAssumption
  <2>3. rows'[j].path = n /\ rows'[j].status = "DONE"
    BY <2>1, <2>2, RowStep
  <2> QED BY <2>3 DEF DoneUnder
<1>x. ASSUME NEW n \in Names, processing[n] # NoCopy \/ DoneUnder(n)
      PROVE  processing'[n] # NoCopy \/ DoneUnder(n)'
  <2>1. CASE DoneUnder(n)
    BY <1>d, <2>1
  <2>2. CASE processing[n] # NoCopy /\ processing'[n] = NoCopy
    <3>1. PICK j \in Keys : rows[j].status = "DONE" /\ n = rows[j].path
      BY <2>2, CopyStep
    <3> QED BY <1>d, <3>1 DEF DoneUnder
  <2> QED BY <1>x, <2>1, <2>2
<1>1. ASSUME NEW n \in Names, watch'[n] # NoFile PROVE watch'[n] \in written'[n]
  <2>1. CASE watch'[n] = watch[n]
    BY <1>1, <1>w, <2>1 DEF NameInv
  <2>2. CASE watch'[n] # watch[n]
    BY <2>2, WatchStep
  <2> QED BY <2>1, <2>2
<1>2. ASSUME pc' \in Parsed PROVE envelope' \in written'[cur']
  <2>1. CASE Parse
    <3>1. envelope' = watch[cur] /\ cur' = cur /\ pc = "parse"
      BY <1>2, <2>1 DEF Parse, Goto, Parsed, Known, Copying
    <3> QED BY <1>c, <1>w, <3>1
  <2>2. CASE ~Parse
    <3>1. envelope' = envelope /\ cur' = cur /\ pc \in Parsed
      BY <1>2, <2>2 DEF Next, Thread, World, Scan, EndScan, Claim, Reject, Reserve, Suppress,
         Resume, Copy, Rewrite, ConcludeCopyFailure, SetArtifact, Finalize, CopyFails, Crash,
         Settle, Replay, Cleanup, Expire, Write, vars, threadVars, Goto, EndFile, Restart,
         Parsed, Known, Copying, IsNext
    <3>2. pc \notin {"scan", "next"} /\ envelope \in written[cur]
      BY <3>1 DEF NameInv, Parsed, Known, Copying
    <3> QED BY <1>c, <1>w, <3>1, <3>2
  <2> QED BY <2>1, <2>2
<1>3. ASSUME NEW n \in Names, processing'[n] # NoCopy
      PROVE  \E f \in written'[n] : f.body = processing'[n].body
  <2>1. CASE processing'[n] = processing[n]
    BY <1>3, <1>w, <2>1 DEF NameInv
  <2>2. CASE n = cur /\ pc \in {"copy", "rewrite"} /\ processing'[n].body = watch[n].body
    BY <1>c, <1>w, <2>2
  <2>3. CASE n = cur /\ pc = "rewrite" /\ processing'[n].body = envelope.body
    <3>1. envelope \in written[cur]
      BY <2>3 DEF NameInv, Parsed, Known, Copying
    <3> QED BY <1>w, <2>3, <3>1
  <2> QED BY <1>3, <2>1, <2>2, <2>3, CopyStep
<1>4. ASSUME pc' = "artifact" PROVE processing'[cur'] # NoCopy \/ DoneUnder(cur)'
  <2>1. CASE pc = "artifact"
    <3>1. cur' = cur
      BY <1>4, <2>1 DEF Next, Thread, World, Scan, EndScan, Claim, Parse, Reject, Reserve, Suppress,
         Resume, Copy, Rewrite, ConcludeCopyFailure, SetArtifact, Finalize, CopyFails, Crash,
         Settle, Replay, Cleanup, Expire, Write, vars, threadVars, Goto, EndFile, Restart, IsNext
    <3>2. DoneUnder(cur') <=> DoneUnder(cur)
      BY <3>1
    <3>3. processing[cur] # NoCopy \/ DoneUnder(cur)
      BY <2>1 DEF NameInv
    <3>4. processing'[cur] # NoCopy \/ \E j \in Keys : rows'[j].path = cur /\ rows'[j].status = "DONE"
      BY <1>c, <1>x, <2>1, <3>3 DEF DoneUnder
    <3> QED BY <3>1, <3>4 DEF DoneUnder
  <2>2. CASE pc # "artifact"
    <3>1. Copy \/ Rewrite
      BY <1>4, <2>2 DEF Next, Thread, World, Scan, EndScan, Claim, Parse, Reject, Reserve, Suppress,
         Resume, ConcludeCopyFailure, SetArtifact, Finalize, CopyFails, Crash,
         Settle, Replay, Cleanup, Expire, Write, vars, threadVars, Goto, EndFile, Restart, IsNext
    <3>2. CASE Copy
      BY <1>4, <3>2 DEF Copy, Goto
    <3>3. CASE Rewrite
      <4>1. processing'[cur] = [body |-> envelope.body, form |-> "normal"] /\ cur' = cur
        BY <1>c, <3>3 DEF Rewrite, Goto
      <4> QED BY <4>1 DEF NoCopy
    <3> QED BY <3>1, <3>2, <3>3
  <2> QED BY <2>1, <2>2
<1>5. ASSUME NEW k \in Keys, rows'[k].path # 0
      PROVE  /\ k \in Messages(rows[k].path)'
             /\ processing'[rows'[k].path] # NoCopy \/ DoneUnder(rows[k].path)'
  <2>1. CASE rows[k].path # 0
    <3>1. rows'[k].path = rows[k].path /\ rows[k].path \in Names
      BY <2>1, RowStep, RowOrNot
    <3>2. /\ k \in Messages(rows[k].path)
          /\ processing[rows[k].path] # NoCopy \/ DoneUnder(rows[k].path)
      BY <2>1 DEF NameInv
    <3> DEFINE n == rows[k].path
    <3>3. k \in {KeyFor(n, f) : f \in written'[n]}
      BY <1>w, <3>1, <3>2 DEF Messages
    <3>4. processing'[n] # NoCopy \/ \E j \in Keys : rows'[j].path = n /\ rows'[j].status = "DONE"
      BY <1>x, <3>1, <3>2 DEF DoneUnder
    <3> QED BY <3>1, <3>3, <3>4 DEF Messages, DoneUnder
  <2>2. CASE rows[k].path = 0
    <3>1. SetArtifact /\ k = Key /\ rows'[k].path = cur
      BY <1>5, <2>2, PathStep
    <3>2. UNCHANGED processing /\ pc = "artifact"
      BY <3>1 DEF SetArtifact
    <3>3. envelope \in written'[cur] /\ k = KeyFor(cur, envelope)
      BY <1>c, <1>w, <3>1, <3>2 DEF NameInv, Key, Parsed, Known, Copying
    <3>4. processing'[cur] # NoCopy \/ \E j \in Keys : rows'[j].path = cur /\ rows'[j].status = "DONE"
      BY <1>c, <1>x, <3>2 DEF NameInv, DoneUnder
    <3> QED BY <3>1, <3>3, <3>4 DEF Messages, DoneUnder
  <2> QED BY <2>1, <2>2
<1>6. ASSUME NEW k \in Keys, rows'[k].status \in {"DONE", "DEADLETTER_B"}
      PROVE  rows'[k].path # 0
  <2>1. rows[k].path # 0
    BY <1>6, SettleStep DEF NameInv
  <2> QED BY <2>1, RowStep
<1> HIDE DEF IInv, TypeOK
<1> QED BY <1>1, <1>2, <1>3, <1>4, <1>5, <1>6 DEF NameInv

\* NameInv holds in every reachable state.
LEMMA NamesAreKept == Spec => [](IInv /\ NameInv)
<1>1. Init => NameInv
  BY DEF Init, NameInv, Parsed, Known, Copying, NoRow
<1>2. IInv /\ CarryInv /\ NameInv /\ [Next]_vars => NameInv'
  BY NameNext
<1> QED BY <1>1, <1>2, Invariance, CarryInvariance, PTL DEF Spec

\* What is dispatched for a row was written under its file name, and is its own message when
\* the name has stood for no other; only a finished message of the same name takes the copy
\* away (app.py, _materialize_processing_copy).
THEOREM ArtifactsAreTheirMessages == Spec => []ArtifactIsTheMessage
<1>1. ASSUME IInv, NameInv PROVE ArtifactIsTheMessage
  <2> SUFFICES ASSUME NEW k \in Keys, rows[k].path # 0, rows[k].status # "DONE"
               PROVE  LET n == rows[k].path  copy == processing[n] IN
                      /\ k \in Messages(n)
                      /\ copy # NoCopy => \E f \in written[n] : f.body = copy.body
                      /\ copy = NoCopy =>
                             /\ Messages(n) # {k}
                             /\ \E j \in Keys \ {k} : rows[j].path = n /\ rows[j].status = "DONE"
    BY DEF ArtifactIsTheMessage
  <2> DEFINE n == rows[k].path
  <2>1. n \in Names /\ n # 0
    BY <1>1, RowOrNot DEF IInv, TypeOK
  <2>2. k \in Messages(n)
    BY <1>1, <2>1 DEF NameInv
  <2>3. processing[n] # NoCopy => \E f \in written[n] : f.body = processing[n].body
    BY <1>1, <2>1 DEF NameInv
  <2>4. ASSUME processing[n] = NoCopy
        PROVE  \E j \in Keys \ {k} : j \in Messages(n) /\ rows[j].path = n /\ rows[j].status = "DONE"
    <3>1. PICK j \in Keys : rows[j].path = n /\ rows[j].status = "DONE"
      BY <1>1, <2>1, <2>4 DEF NameInv, DoneUnder
    <3>2. j # k /\ j \in Messages(n)
      BY <1>1, <2>1, <3>1 DEF NameInv
    <3> QED BY <3>1, <3>2
  <2>5. processing[n] = NoCopy => Messages(n) # {k}
    BY <2>4
  <2> HIDE DEF n
  <2> QED BY <2>2, <2>3, <2>4, <2>5 DEF n
<1> QED BY <1>1, NamesAreKept, PTL

\* And cleanup leaves what a replay needs, unless another message of that file name is
\* finished (the run ingestion_cleanup).
THEOREM DeadlettersKeepArtifacts ==
  Spec => [](\A k \in Keys : rows[k].status = "DEADLETTER_B" =>
                 processing[rows[k].path] # NoCopy \/ DoneUnder(rows[k].path))
<1>1. IInv /\ NameInv =>
          \A k \in Keys : rows[k].status = "DEADLETTER_B" =>
              processing[rows[k].path] # NoCopy \/ DoneUnder(rows[k].path)
  BY DEF NameInv
<1> QED BY <1>1, NamesAreKept, PTL
=============================================================================
