------------------------------ MODULE Ingestion ------------------------------
(***************************************************************************)
(* How files of the watch directory become messages: _process_pending_file *)
(* of the relay (app.py), with the writers of the directory, crashes, full *)
(* disks, the rest of the relay that settles the messages, and the cleanup *)
(* command of another process.                                             *)
(*                                                                         *)
(* A file is its content and its time stamp.  A content carries its own    *)
(* idempotency key or leaves it to the relay, which then derives one from  *)
(* path and time stamp; claims in seen_files go by path and content.  "pc" *)
(* is the point the thread has reached with file "cur"; each action runs   *)
(* it to the next commit, or the next change of the processing directory.  *)
(***************************************************************************)
EXTENDS Naturals, FiniteSets

CONSTANTS Names,        \* file names, in the order of their sorting
          Bodies,       \* contents of files
          Keyed,        \* contents with an idempotency key of their own
          KeyOf,        \* that key
          MaxStamp,     \* bound: files written
          MaxFailures,  \* bound: failures of the disk
          MaxCrashes    \* bound: crashes of the relay

ASSUME IngestionAssumption ==
    /\ Names \subseteq Nat \ {0}
    /\ Keyed \subseteq Bodies
    /\ KeyOf \in [Keyed -> Nat \ {0}]
    /\ MaxStamp \in Nat /\ MaxFailures \in Nat /\ MaxCrashes \in Nat

VARIABLES watch,       \* the watch directory
          clock,       \* time stamp of the latest write
          written,     \* by name, the files that have been written
          stale,       \* files Envelope.from_file rejects: invalid, or expired
          seen,        \* the table seen_files, by path and content
          rows,        \* the table messages, by idempotency key
          processing,  \* the processing directory
          pending,     \* names of the scan not reached yet
          pc, cur,     \* the thread and the file under work
          source,      \* source_key: path and content of the claim
          envelope,    \* what Envelope.from_file read
          resuming,    \* is_resume
          failures, crashes

worldVars == <<watch, clock, written, stale>>
tableVars == <<seen, rows>>
threadVars == <<pending, pc, cur, source, envelope, resuming>>
vars == <<worldVars, tableVars, processing, threadVars, failures, crashes>>

Stamps == 1..MaxStamp
Files == [body : Bodies, stamp : Stamps]
Sources == [name : Names, body : Bodies]
NoFile == [body |-> "none", stamp |-> 0]
NoSource == [name |-> 0, body |-> "none"]

\* The idempotency key of a file: its own, or one made of its path and stamp.
Keys == [own : {KeyOf[b] : b \in Keyed}] \union [name : Names, stamp : Stamps]
KeyFor(n, f) ==
    IF f.body \in Keyed THEN [own |-> KeyOf[f.body]] ELSE [name |-> n, stamp |-> f.stamp]

NoKey == [own |-> 0]
NotSeen == [status |-> "UNSEEN", key |-> NoKey]
NoRow == [status |-> "ABSENT", path |-> 0, file |-> NoFile, source |-> NoSource]
NoCopy == [body |-> "none", form |-> "none"]

RowStatuses == {"RESERVED", "FILE_COPY_FAILED", "DONE", "DEADLETTER_B"}
Unfinished == {"DISCOVERED", "FILE_COPY_FAILED"}
SeenStatuses == {"DISCOVERED", "DUPLICATE_SUPPRESSED", "REJECTED"} \union RowStatuses
Points == {"scan", "next", "parse", "reject", "reserve", "suppress", "resume", "copy",
           "rewrite", "artifact", "finalize", "copy_failed"}

\* What a claim, a row and a processing copy are once they exist.
Claims == [status : SeenStatuses, key : Keys \union {NoKey}]
Rows == [status : RowStatuses, path : Names \union {0}, file : Files, source : Sources]
Copies == [body : Bodies, form : {"raw", "torn", "normal"}]

TypeOK ==
    /\ watch \in [Names -> Files \union {NoFile}]
    /\ clock \in 0..MaxStamp
    /\ written \in [Names -> SUBSET Files]
    /\ stale \subseteq Files
    /\ seen \in [Sources -> Claims \union {NotSeen}]
    /\ rows \in [Keys -> Rows \union {NoRow}]
    /\ processing \in [Names -> Copies \union {NoCopy}]
    /\ pending \subseteq Names
    /\ pc \in Points
    /\ cur \in Names \union {0}
    /\ source \in Sources \union {NoSource}
    /\ envelope \in Files \union {NoFile}
    /\ resuming \in BOOLEAN
    /\ failures \in 0..MaxFailures /\ crashes \in 0..MaxCrashes

Init ==
    /\ watch = [n \in Names |-> NoFile] /\ clock = 0
    /\ written = [n \in Names |-> {}] /\ stale = {}
    /\ seen = [s \in Sources |-> NotSeen]
    /\ rows = [k \in Keys |-> NoRow]
    /\ processing = [n \in Names |-> NoCopy]
    /\ pending = {} /\ pc = "scan" /\ cur = 0
    /\ source = NoSource /\ envelope = NoFile /\ resuming = FALSE
    /\ failures = 0 /\ crashes = 0

-----------------------------------------------------------------------------
(* The thread: one scan after the other, the files of a scan by name.      *)

IsNext(n) == pc = "next" /\ n \in pending /\ \A k \in pending : n <= k

EndFile ==
    /\ pc' = "next" /\ cur' = 0
    /\ source' = NoSource /\ envelope' = NoFile /\ resuming' = FALSE
    /\ UNCHANGED pending

Goto(p) == pc' = p /\ UNCHANGED <<pending, cur, source, envelope, resuming>>

\* What a process that ends leaves of the thread.
Restart ==
    /\ pc' = "scan" /\ pending' = {} /\ cur' = 0
    /\ source' = NoSource /\ envelope' = NoFile /\ resuming' = FALSE

Conclude(status, key) == seen' = [seen EXCEPT ![source] = [status |-> status, key |-> key]]

Key == KeyFor(cur, envelope)

Scan ==
    /\ pc = "scan"
    /\ pending' = {n \in Names : watch[n] # NoFile}
    /\ pc' = "next"
    /\ UNCHANGED <<cur, source, envelope, resuming>>
    /\ UNCHANGED <<worldVars, tableVars, processing, failures, crashes>>

EndScan ==
    /\ pc = "next" /\ pending = {}
    /\ Goto("scan")
    /\ UNCHANGED <<worldVars, tableVars, processing, failures, crashes>>

\* Mutant of Claim: a claim that exists is taken for a concluded one.
ClaimOnlyNewFiles(n) ==
    LET s == [name |-> n, body |-> watch[n].body] IN
    /\ IsNext(n)
    /\ pending' = pending \ {n}
    /\ \/ /\ seen[s] = NotSeen
          /\ seen' = [seen EXCEPT ![s] = [status |-> "DISCOVERED", key |-> NoKey]]
          /\ cur' = n /\ source' = s /\ resuming' = FALSE /\ pc' = "parse"
       \/ /\ seen[s] # NotSeen
          /\ UNCHANGED <<seen, pc, cur, source, resuming>>
    /\ UNCHANGED envelope
    /\ UNCHANGED <<worldVars, rows, processing, failures, crashes>>

\* claim_source_file inserts the claim, or finds one that was not concluded.
Claim(n) ==
    LET s == [name |-> n, body |-> watch[n].body] IN
    /\ IsNext(n)
    /\ pending' = pending \ {n}
    /\ \/ /\ seen[s] = NotSeen
          /\ seen' = [seen EXCEPT ![s] = [status |-> "DISCOVERED", key |-> NoKey]]
          /\ cur' = n /\ source' = s /\ resuming' = FALSE /\ pc' = "parse"
       \/ /\ seen[s].status \in Unfinished
          /\ cur' = n /\ source' = s /\ resuming' = TRUE /\ pc' = "parse"
          /\ UNCHANGED seen
       \/ /\ seen[s] # NotSeen /\ seen[s].status \notin Unfinished
          /\ UNCHANGED <<seen, pc, cur, source, resuming>>
    /\ UNCHANGED envelope
    /\ UNCHANGED <<worldVars, rows, processing, failures, crashes>>

\* The file is read again: it may have been replaced or expired since the claim.
Parse ==
    /\ pc = "parse"
    /\ IF watch[cur] \in stale
          THEN Goto("reject")
          ELSE /\ envelope' = watch[cur] /\ pc' = "reserve"
               /\ UNCHANGED <<pending, cur, source, resuming>>
    /\ UNCHANGED <<worldVars, tableVars, processing, failures, crashes>>

\* Mutant of Reject: the code of the error is written as it is.
RejectLowerCase ==
    /\ pc = "reject"
    /\ Conclude("rejected", NoKey)
    /\ EndFile
    /\ UNCHANGED <<worldVars, rows, processing, failures, crashes>>

Reject ==
    /\ pc = "reject"
    /\ Conclude("REJECTED", NoKey)
    /\ EndFile
    /\ UNCHANGED <<worldVars, rows, processing, failures, crashes>>

Reserve ==
    /\ pc = "reserve"
    /\ IF rows[Key] = NoRow
          THEN /\ rows' = [rows EXCEPT ![Key] =
                      [status |-> "RESERVED", path |-> 0, file |-> envelope, source |-> source]]
               /\ pc' = "copy" /\ resuming' = FALSE
               /\ UNCHANGED <<pending, cur, source, envelope>>
          ELSE /\ Goto(IF resuming THEN "resume" ELSE "suppress")
               /\ UNCHANGED rows
    /\ UNCHANGED <<worldVars, seen, processing, failures, crashes>>

Suppress ==
    /\ pc = "suppress"
    /\ Conclude("DUPLICATE_SUPPRESSED", Key)
    /\ EndFile
    /\ UNCHANGED <<worldVars, rows, processing, failures, crashes>>

\* Mutant of Resume: the claim is concluded without a look at the artifact.
ResumeConcludes ==
    /\ pc = "resume"
    /\ Conclude(rows[Key].status, Key) /\ EndFile
    /\ UNCHANGED <<worldVars, rows, processing, failures, crashes>>

\* Mutant of Resume: the artifact is made again.
ResumeCopies ==
    /\ pc = "resume"
    /\ Goto("copy")
    /\ UNCHANGED <<worldVars, tableVars, processing, failures, crashes>>

\* A resumed file is taken for the owner of the row: it completes the row, or
\* only its own claim when the row has its artifact already.
Resume ==
    /\ pc = "resume"
    /\ IF rows[Key].path # 0
          THEN Conclude(rows[Key].status, Key) /\ EndFile
          ELSE Goto("copy") /\ UNCHANGED seen
    /\ UNCHANGED <<worldVars, rows, processing, failures, crashes>>

\* _materialize_processing_copy: a copy of that name is taken as it is.
Copy ==
    /\ pc = "copy"
    /\ IF processing[cur] # NoCopy
          THEN Goto("artifact") /\ UNCHANGED processing
          ELSE /\ processing' = [processing EXCEPT ![cur] =
                                    [body |-> watch[cur].body, form |-> "raw"]]
               /\ Goto("rewrite")
    /\ UNCHANGED <<worldVars, tableVars, failures, crashes>>

Rewrite ==
    /\ pc = "rewrite"
    /\ processing' = [processing EXCEPT ![cur] = [body |-> envelope.body, form |-> "normal"]]
    /\ Goto("artifact")
    /\ UNCHANGED <<worldVars, tableVars, failures, crashes>>

\* What is left when the copy or the rewrite stops midway: nothing was written
\* yet, or part of it.
CutShort ==
    \/ UNCHANGED processing
    \/ /\ pc = "copy" /\ processing[cur] = NoCopy
       /\ processing' = [processing EXCEPT ![cur] = [body |-> watch[cur].body, form |-> "torn"]]
    \/ /\ pc = "rewrite"
       /\ processing' = [processing EXCEPT ![cur] = [body |-> envelope.body, form |-> "torn"]]

\* The disk fails the copy or the rewrite.  A first ingestion marks row and
\* file; a resumption lets the exception escape.
CopyFails ==
    /\ pc = "rewrite" \/ (pc = "copy" /\ processing[cur] = NoCopy)
    /\ failures < MaxFailures
    /\ failures' = failures + 1
    /\ CutShort
    /\ IF resuming
          THEN Restart /\ UNCHANGED rows
          ELSE /\ rows' = [rows EXCEPT ![Key].status = "FILE_COPY_FAILED"]
               /\ Goto("copy_failed")
    /\ UNCHANGED <<worldVars, seen, crashes>>

\* Mutant of ConcludeCopyFailure: a failed copy is concluded for good.
RejectCopyFailure ==
    /\ pc = "copy_failed"
    /\ Conclude("REJECTED", Key)
    /\ EndFile
    /\ UNCHANGED <<worldVars, rows, processing, failures, crashes>>

ConcludeCopyFailure ==
    /\ pc = "copy_failed"
    /\ Conclude("FILE_COPY_FAILED", Key)
    /\ EndFile
    /\ UNCHANGED <<worldVars, rows, processing, failures, crashes>>

\* update_message_artifact writes path and status whatever the row's status is.
SetArtifact ==
    /\ pc = "artifact"
    /\ rows' = [rows EXCEPT ![Key].path = cur, ![Key].status = "RESERVED"]
    /\ Goto("finalize")
    /\ UNCHANGED <<worldVars, seen, processing, failures, crashes>>

Finalize ==
    /\ pc = "finalize"
    /\ Conclude("RESERVED", Key)
    /\ EndFile
    /\ UNCHANGED <<worldVars, rows, processing, failures, crashes>>

Thread ==
    \/ Scan \/ EndScan \/ (\E n \in Names : Claim(n))
    \/ Parse \/ Reject \/ Reserve \/ Suppress \/ Resume
    \/ Copy \/ Rewrite \/ ConcludeCopyFailure \/ SetArtifact \/ Finalize

-----------------------------------------------------------------------------
(* A crash keeps tables and directories.                                   *)

Crash ==
    /\ crashes < MaxCrashes
    /\ crashes' = crashes + 1
    /\ CutShort
    /\ Restart
    /\ UNCHANGED <<worldVars, tableVars, failures>>

(* The rest of the system.                                                 *)

\* A writer adds a file, writes the same message again, or uses the name of a
\* file for another message: a content without key is one when written again.
Write(n, b) ==
    LET file == [body |-> b, stamp |-> clock + 1] IN
    /\ clock < MaxStamp
    /\ clock' = clock + 1
    /\ watch' = [watch EXCEPT ![n] = file]
    /\ written' = [written EXCEPT ![n] = @ \union {file}]
    /\ UNCHANGED stale
    /\ UNCHANGED <<tableVars, processing, threadVars, failures, crashes>>

\* A file that is invalid from the start is one that expires at once.
Expire(n) ==
    /\ watch[n] # NoFile /\ watch[n] \notin stale
    /\ stale' = stale \union {watch[n]}
    /\ UNCHANGED <<watch, clock, written>>
    /\ UNCHANGED <<tableVars, processing, threadVars, failures, crashes>>

\* The passes after the scan settle a row in the end.  A copy that cannot be
\* read as an envelope is retried until the row is deadlettered; a copy that is
\* missing stops the relay there.
Settle(k) ==
    /\ pc = "scan"
    /\ rows[k].path # 0 /\ rows[k].status = "RESERVED"
    /\ processing[rows[k].path] # NoCopy
    /\ \/ /\ processing[rows[k].path].form # "torn"
          /\ rows' = [rows EXCEPT ![k].status = "DONE"]
       \/ rows' = [rows EXCEPT ![k].status = "DEADLETTER_B"]
    /\ UNCHANGED <<worldVars, seen, processing, threadVars, failures, crashes>>

\* replay-deadletter makes the row dispatchable again.
Replay(k) ==
    /\ rows[k].status = "DEADLETTER_B"
    /\ rows' = [rows EXCEPT ![k].status = "RESERVED"]
    /\ UNCHANGED <<worldVars, seen, processing, threadVars, failures, crashes>>

\* Mutant of Cleanup: the status of the row is not asked for.
CleanupAnyRow(k) ==
    /\ rows[k].path # 0
    /\ processing[rows[k].path] # NoCopy
    /\ processing' = [processing EXCEPT ![rows[k].path] = NoCopy]
    /\ UNCHANGED <<worldVars, tableVars, threadVars, failures, crashes>>

\* cleanup: a row that has been DONE for long loses its processing copy.
Cleanup(k) ==
    /\ rows[k].status = "DONE"
    /\ processing[rows[k].path] # NoCopy
    /\ processing' = [processing EXCEPT ![rows[k].path] = NoCopy]
    /\ UNCHANGED <<worldVars, tableVars, threadVars, failures, crashes>>

World ==
    \/ \E n \in Names : Expire(n) \/ \E b \in Bodies : Write(n, b)
    \/ \E k \in Keys : Settle(k) \/ Replay(k) \/ Cleanup(k)

Next == Thread \/ CopyFails \/ Crash \/ World

Spec == Init /\ [][Next]_vars

\* The thread keeps running; a failing disk or a crash only delays it.
FairSpec == Spec /\ WF_vars(Thread)

-----------------------------------------------------------------------------
(* Properties.                                                             *)

\* A claim concluded as RESERVED has a row that can be dispatched: the row got
\* its artifact first, in whatever incarnation of the relay.
ReservedHasArtifact ==
    \A s \in Sources : seen[s].status = "RESERVED" => rows[seen[s].key].path # 0

\* A row that still lacks its artifact is not forgotten: the claim of the file
\* that reserved it is open, unless the file has been replaced or has expired in
\* the meantime.  (An open claim is resumed while its content is in the watch
\* directory: the row of a file that was replaced just before it was read, under
\* the claim of the content before, is carried by a claim that nothing resumes.)
RowIsCarried ==
    \A k \in Keys : rows[k] # NoRow /\ rows[k].path = 0 =>
        \/ seen[rows[k].source].status \in Unfinished
        \/ watch[rows[k].source.name] # rows[k].file
        \/ rows[k].file \in stale

\* The messages a file name has stood for.
Messages(n) == {KeyFor(n, f) : f \in written[n]}

\* A row that is not finished has the copy of its file name for an artifact: a
\* file that was written under that name, though with a name that has stood for
\* several messages not always the row's own (a copy of that name is taken as it
\* is).  The copy is missing only after another message of that name was
\* finished and cleaned up; a name that has stood for one message gives exactly
\* that message, over crashes, resumptions and failing copies.
ArtifactIsTheMessage ==
    \A k \in Keys : rows[k].path # 0 /\ rows[k].status # "DONE" =>
        LET n == rows[k].path  copy == processing[n] IN
        /\ k \in Messages(n)
        /\ copy # NoCopy => \E f \in written[n] : f.body = copy.body
        /\ copy = NoCopy =>
               /\ Messages(n) # {k}
               /\ \E j \in Keys \ {k} : rows[j].path = n /\ rows[j].status = "DONE"

\* Ingestion completes a row once: neither a resumption nor a second file moves
\* the artifact of a row or makes a settled row dispatchable again.
CompletedOnce ==
    [][\A k \in Keys : rows[k].path # 0 =>
          /\ rows'[k].path = rows[k].path
          /\ rows[k].status = "DONE" => rows'[k].status = "DONE"]_vars

\* A file that was claimed is concluded in the end, over crashes and failures,
\* unless a file with another content takes its name: the claim is of the content.
ClaimIsConcluded ==
    \A s \in Sources : seen[s].status \in Unfinished ~>
        seen[s].status \notin Unfinished \/ watch[s.name].body # s.body

-----------------------------------------------------------------------------
(* What documents and tests say and the code departs from.                 *)

\* Metadata left out of a file is completed by the relay (README.md, message
\* rules): what it dispatches is the completed envelope.  A crash or a failing
\* disk between the copy and its rewrite leaves the file as it came, or half of
\* it, and the resumption takes that for the copy.
ArtifactIsComplete ==
    \A k \in Keys : rows[k].path # 0 /\ rows[k].status = "RESERVED" =>
        processing[rows[k].path].form = "normal"

\* Cleanup keeps the processing copies of deadlettered messages for replay
\* (retentionとcleanup.md).  It deletes by path, and messages with the same file
\* name share one.
DeadletterKeepsArtifact ==
    \A k \in Keys : rows[k].status = "DEADLETTER_B" => processing[rows[k].path] # NoCopy
-----------------------------------------------------------------------------
(* What the thread knows at each point, for the proofs.                    *)

\* The points at which the thread has still to give the row its artifact, knows
\* that there is a row, has parsed its file.
Copying == {"copy", "rewrite", "artifact"}
Known == {"suppress", "resume", "copy_failed", "finalize"} \union Copying
Parsed == {"reserve"} \union Known

ThreadInv ==
    /\ \A n \in pending : watch[n] # NoFile
    /\ pc \notin {"scan", "next"} =>
           cur \in Names /\ watch[cur] # NoFile /\ source \in Sources
    /\ pc \in Parsed => envelope \in Files
    /\ pc \in Known => rows[Key] # NoRow
    /\ pc \in Copying => rows[Key].path = 0
    /\ pc = "finalize" => rows[Key].path # 0

\* ReservedHasArtifact, and that the claim names a row at all.
ClaimInv ==
    \A s \in Sources : seen[s].status = "RESERVED" =>
        seen[s].key \in Keys /\ rows[seen[s].key].path # 0

IInv == TypeOK /\ ThreadInv /\ ClaimInv

-----------------------------------------------------------------------------
(* Why a row is carried.                                                   *)

\* A row that waits for its artifact and is of file f of the claim s.
Awaits(k, s) == rows[k] # NoRow /\ rows[k].path = 0 /\ rows[k].source = s

Withdrawn(k) == watch[rows[k].source.name] # rows[k].file \/ rows[k].file \in stale

\* A row belongs to the file it was reserved for, which was written and claimed before.
RowsOfFiles ==
    /\ \A n \in Names : watch[n] # NoFile => watch[n].stamp <= clock
    /\ pc \in Parsed => envelope.stamp <= clock
    /\ \A k \in Keys : rows[k] # NoRow =>
           /\ k = KeyFor(rows[k].source.name, rows[k].file)
           /\ rows[k].file.stamp <= clock
           /\ seen[rows[k].source] # NotSeen

\* The claim of the file under work is open.  A first claim has no row yet; a claim is
\* given up for an expired file only when that file or its row is out of date.
ClaimIsOpen ==
    /\ pc \notin {"scan", "next"} => source.name = cur /\ seen[source].status \in Unfinished
    /\ pc \in {"parse", "reject", "reserve", "suppress"} /\ ~resuming =>
           \A k \in Keys : rows[k] # NoRow => rows[k].source # source
    /\ pc = "suppress" => ~resuming
    /\ pc = "reject" => \A k \in Keys : Awaits(k, source) => Withdrawn(k)
    /\ pc \in Parsed =>
           envelope = watch[cur] \/ \A k \in Keys : rows[k] # NoRow => rows[k].file # watch[cur]

CarryInv == RowsOfFiles /\ ClaimIsOpen /\ RowIsCarried

-----------------------------------------------------------------------------
(* Where artifacts come from.                                              *)

DoneUnder(n) == \E j \in Keys : rows[j].path = n /\ rows[j].status = "DONE"

\* What is read, copied and dispatched under a name was written under it, and the
\* copy of a name goes only when a row of that name is done.
NameInv ==
    /\ \A n \in Names : watch[n] # NoFile => watch[n] \in written[n]
    /\ pc \in Parsed => envelope \in written[cur]
    /\ \A n \in Names : processing[n] # NoCopy =>
           \E f \in written[n] : f.body = processing[n].body
    /\ pc = "artifact" => processing[cur] # NoCopy \/ DoneUnder(cur)
    /\ \A k \in Keys : rows[k].path # 0 =>
           /\ k \in Messages(rows[k].path)
           /\ processing[rows[k].path] # NoCopy \/ DoneUnder(rows[k].path)
    /\ \A k \in Keys : rows[k].status \in {"DONE", "DEADLETTER_B"} => rows[k].path # 0

=============================================================================
