------------------------------ MODULE AlertStore ------------------------------
(***************************************************************************)
(* The alerts the relay shows on its dashboard (alerts.py), fed by the     *)
(* webhook of Alertmanager (receive_alertmanager_webhook of app.py).  The  *)
(* active alerts and a bounded history are kept in memory, under a lock,   *)
(* and written to a file as a whole after every webhook; a restart reads   *)
(* the file.  Alertmanager sends the alerts of a group in one webhook (it  *)
(* groups by five labels, deploy/monitoring/alertmanager.yml); it repeats  *)
(* firing alerts and webhooks that failed.                                 *)
(***************************************************************************)
EXTENDS Naturals, Sequences, FiniteSets, SequencesExt

CONSTANTS Alerts,     \* fingerprints
          Groupings,  \* the ways their labels may put them into groups
          MaxHistory, \* max_history: entries of the history
          NumThreads, \* bound: webhooks served at a time
          MaxChanges, \* bound: alerts that begin to fire
          MaxFaults,  \* bound: failed writes and webhooks that time out
          MaxCrashes  \* bound: crashes of the relay

ASSUME AlertAssumption ==
    /\ IsFiniteSet(Alerts)
    /\ \A G \in Groupings :
           /\ G \subseteq SUBSET Alerts
           /\ \A f \in Alerts : \E g \in G : f \in g
           /\ \A g, h \in G : g \intersect h # {} => g = h
    /\ MaxHistory \in Nat \ {0}
    /\ NumThreads \in Nat /\ MaxChanges \in Nat /\ MaxFaults \in Nat /\ MaxCrashes \in Nat

VARIABLES up,       \* the relay runs, or starts again whenever it stops
          active,   \* fingerprints of the active alerts
          recent,   \* the history, newest first
          file,     \* the file as written last, or as a write cut short leaves it
          lock,     \* the thread that holds the lock, 0 if none
          thread,   \* thread[t]: the webhook t serves and how far it is
          groups,   \* the groups of this installation
          firing,   \* alerts that fire at Alertmanager
          notified, \* notified[f]: the last report of f that was accepted
          waiting,  \* waiting[g]: the thread whose answer Alertmanager waits for
          doubt,    \* doubt[f]: what makes the last report of f uncertain
          changes, faults, crashes

memory == <<up, active, recent>>
managerVars == <<groups, firing, notified, waiting, doubt, changes>>
vars == <<memory, file, lock, thread, managerVars, faults, crashes>>

Threads == 1..NumThreads
Points == {"idle", "lock", "open", "write", "ok", "error"}
Reports == [alert : Alerts, firing : BOOLEAN]
AlertsOf(w) == {w[i].alert : i \in DOMAIN w}
FiringOf(w) == {w[i].alert : i \in {j \in DOMAIN w : w[j].firing}}
Free == [at |-> "idle", group |-> {}, webhook |-> <<>>]
Whole(a, r) == [is |-> "whole", active |-> a, recent |-> r]

\* What a write that stops leaves is no JSON ("cut"), or no UTF-8 either, if it ends
\* inside a character ("garbled": the texts of the alerts are not escaped).
Torn(how) == [is |-> how, active |-> {}, recent |-> <<>>]

TypeOK ==
    /\ up \in BOOLEAN
    /\ active \subseteq Alerts
    /\ recent \in Seq(Reports) /\ Len(recent) <= MaxHistory
    /\ file \in [is : {"whole", "cut", "garbled"}, active : SUBSET Alerts, recent : Seq(Reports)]
    /\ Len(file.recent) <= MaxHistory
    /\ lock \in Threads \union {0}
    /\ thread \in [Threads -> [at : Points, group : groups \union {{}}, webhook : Seq(Reports)]]
    /\ groups \in Groupings
    /\ firing \subseteq Alerts
    /\ notified \in [Alerts -> {"nothing", "firing", "resolved"}]
    /\ waiting \in [groups -> Threads \union {0}]
    /\ doubt \in [Alerts -> {"none", "failed", "late"}]
    /\ changes \in Nat /\ faults \in Nat /\ crashes \in Nat

\* There is no file at first, which reads as an empty one.
Init ==
    /\ up = TRUE
    /\ active = {} /\ recent = <<>>
    /\ file = Whole({}, <<>>)
    /\ lock = 0
    /\ thread = [t \in Threads |-> Free]
    /\ groups \in Groupings
    /\ firing = {}
    /\ notified = [f \in Alerts |-> "nothing"]
    /\ waiting = [g \in groups |-> 0]
    /\ doubt = [f \in Alerts |-> "none"]
    /\ changes = 0 /\ faults = 0 /\ crashes = 0

At(t, p) == thread[t].at = p

Goto(t, p) == thread' = [thread EXCEPT ![t].at = p]

Fault == faults < MaxFaults /\ faults' = faults + 1

-----------------------------------------------------------------------------
(* record_webhook.                                                         *)

\* Mutant of Shorten: the history is cut one entry too late.
ShortenLate(h) == SubSeq(h, 1, IF Len(h) <= MaxHistory THEN Len(h) ELSE MaxHistory + 1)

Shorten(h) == SubSeq(h, 1, IF Len(h) < MaxHistory THEN Len(h) ELSE MaxHistory)

\* Mutant of Record: the new entries are put at the end of the history.
RecordLast(t) ==
    /\ At(t, "lock") /\ lock = 0
    /\ lock' = t
    /\ LET w == thread[t].webhook IN
       /\ active' = (active \ AlertsOf(w)) \union FiringOf(w)
       /\ recent' = Shorten(recent \o w)
    /\ Goto(t, "open")
    /\ UNCHANGED <<up, file, managerVars, faults, crashes>>

\* Under the lock: each alert of the webhook becomes active or is removed, and is put
\* at the head of the history.
Record(t) ==
    /\ At(t, "lock") /\ lock = 0
    /\ lock' = t
    /\ LET w == thread[t].webhook IN
       /\ active' = (active \ AlertsOf(w)) \union FiringOf(w)
       /\ recent' = Shorten(Reverse(w) \o recent)
    /\ Goto(t, "open")
    /\ UNCHANGED <<up, file, managerVars, faults, crashes>>

\* write_text truncates the file,
OpenFile(t) ==
    /\ At(t, "open")
    /\ \E how \in {"cut", "garbled"} : file' = Torn(how)
    /\ Goto(t, "write")
    /\ UNCHANGED <<memory, lock, managerVars, faults, crashes>>

\* and writes it in place: what memory holds, not what the webhook said.
WriteFile(t) ==
    /\ At(t, "write")
    /\ file' = Whole(active, recent)
    /\ lock' = 0
    /\ Goto(t, "ok")
    /\ UNCHANGED <<memory, managerVars, faults, crashes>>

\* Mutant of WriteFails: the error is caught.
WriteFailsQuietly(t) ==
    /\ thread[t].at \in {"open", "write"}
    /\ Fault
    /\ lock' = 0
    /\ Goto(t, "ok")
    /\ UNCHANGED <<memory, file, managerVars, crashes>>

\* Mutant of WriteFails: the lock is not released.
WriteFailsLocked(t) ==
    /\ thread[t].at \in {"open", "write"}
    /\ Fault
    /\ Goto(t, "error")
    /\ UNCHANGED <<memory, file, lock, managerVars, crashes>>

\* An OSError answers the webhook with an error; memory keeps what was recorded.
WriteFails(t) ==
    /\ thread[t].at \in {"open", "write"}
    /\ Fault
    /\ lock' = 0
    /\ Goto(t, "error")
    /\ UNCHANGED <<memory, file, managerVars, crashes>>

\* _load: a file that is no JSON reads as an empty one.  One that is no UTF-8 raises
\* UnicodeDecodeError, which nobody catches: the relay stops, at this and every start.
Restart ==
    /\ up' = (file.is # "garbled")
    /\ active' = file.active /\ recent' = file.recent
    /\ thread' = [t \in Threads |-> Free] /\ lock' = 0
    /\ UNCHANGED file

-----------------------------------------------------------------------------
(* Alertmanager.                                                           *)

Fire(f) ==
    /\ changes < MaxChanges
    /\ changes' = changes + 1
    /\ f \notin firing
    /\ firing' = firing \union {f}
    /\ UNCHANGED <<memory, file, lock, thread, groups, notified, waiting, doubt, faults, crashes>>

Resolve(f) ==
    /\ f \in firing
    /\ firing' = firing \ {f}
    /\ UNCHANGED <<memory, file, lock, thread, groups, notified, waiting, doubt, changes, faults, crashes>>

Webhook(order) ==
    [i \in DOMAIN order |-> [alert |-> order[i], firing |-> order[i] \in firing]]

\* One webhook of a group at a time: alerts that fire, again and again, and those that
\* are resolved until that is accepted, if they were accepted as firing before.  Others
\* may come along as resolved: those that stopped before they were reported.
Notify(g) ==
    /\ up
    /\ waiting[g] = 0
    /\ LET due == {f \in g : f \in firing \/ notified[f] = "firing"} IN
       /\ due # {}
       /\ \E more \in SUBSET {f \in g : notified[f] = "nothing"} :
          \E order \in SetToSeqs(due \union more), t \in Threads :
              /\ At(t, "idle") /\ \A u \in Threads : At(u, "idle") => t <= u
              /\ thread' = [thread EXCEPT ![t] = [at |-> "lock", group |-> g, webhook |-> Webhook(order)]]
              /\ waiting' = [waiting EXCEPT ![g] = t]
    /\ UNCHANGED <<memory, file, lock, groups, firing, notified, doubt, changes, faults, crashes>>

\* "failed" until the next report is accepted; "late" for good, as the webhook
\* nobody waits for any more may be recorded after a later one.
Doubted(told, why) ==
    [f \in Alerts |-> IF f \in told /\ doubt[f] # "late" THEN why ELSE doubt[f]]

TimeOut(g) ==
    /\ waiting[g] # 0
    /\ Fault
    /\ waiting' = [waiting EXCEPT ![g] = 0]
    /\ doubt' = Doubted(AlertsOf(thread[waiting[g]].webhook), "late")
    /\ UNCHANGED <<memory, file, lock, thread, groups, firing, notified, changes, crashes>>

\* What Alertmanager knows when a webhook is accepted.
Accepted(w) ==
    [f \in Alerts |-> IF f \in FiringOf(w) THEN "firing"
                      ELSE IF f \in AlertsOf(w) THEN "resolved" ELSE notified[f]]

\* The answer, if anybody still waits for it.
Answer(t) ==
    /\ thread[t].at \in {"ok", "error"}
    /\ LET g == thread[t].group
           w == thread[t].webhook
       IN IF waiting[g] = t
          THEN /\ waiting' = [waiting EXCEPT ![g] = 0]
               /\ doubt' = Doubted(AlertsOf(w), IF At(t, "ok") THEN "none" ELSE "failed")
               /\ notified' = IF At(t, "ok") THEN Accepted(w) ELSE notified
          ELSE UNCHANGED <<waiting, notified, doubt>>
    /\ thread' = [thread EXCEPT ![t] = Free]
    /\ UNCHANGED <<memory, file, lock, groups, firing, changes, faults, crashes>>

Serves(t, f) == f \in AlertsOf(thread[t].webhook)
Served(f) == \E t \in Threads : Serves(t, f)

\* The webhooks under way get no answer; a torn file has lost every alert.
Crash ==
    /\ up
    /\ crashes < MaxCrashes
    /\ crashes' = crashes + 1
    /\ Restart
    /\ waiting' = [g \in groups |-> 0]
    /\ doubt' = [f \in Alerts |->
           IF doubt[f] # "late" /\ (Served(f) \/ file.is # "whole") THEN "failed" ELSE doubt[f]]
    /\ UNCHANGED <<groups, firing, notified, changes, faults>>

Serve(t) == Record(t) \/ OpenFile(t) \/ WriteFile(t) \/ WriteFails(t) \/ Answer(t)

Next ==
    \/ \E t \in Threads : Serve(t)
    \/ \E f \in Alerts : Fire(f) \/ Resolve(f)
    \/ \E g \in groups : Notify(g) \/ TimeOut(g)
    \/ Crash

\* Threads run, one that waits for the lock gets it in the end (webhooks are minutes
\* apart), and Alertmanager repeats its webhooks.
Fairness ==
    /\ \A t \in Threads : WF_vars(Serve(t)) /\ SF_vars(Record(t))
    /\ \A g \in SUBSET Alerts : WF_vars(g \in groups /\ Notify(g))

Spec == Init /\ [][Next]_vars /\ Fairness

-----------------------------------------------------------------------------
(* Properties.                                                             *)

\* The newest entry of each alert in a history says whether it is listed.
Decides(listed, history) ==
    \A i \in DOMAIN history :
        (\A j \in DOMAIN history : history[j].alert = history[i].alert => i <= j) =>
            (history[i].firing <=> history[i].alert \in listed)

\* The dashboard shows a list of active alerts and a history: the newest entry of
\* an alert decides whether it is listed, also if one webhook holds more alerts than
\* the history, and after a restart from any file a crash or a full disk has left.
NewestEntryDecides == Decides(active, recent)

\* What a webhook was answered for is in the file, unless the file is torn: other
\* webhooks and failed writes do not take it back, nor does a crash that meets a
\* whole file.  (A crash during a write loses every alert: EventuallyShown.)
AcceptedIsSaved ==
    file.is = "whole" => \A f \in Alerts : doubt[f] = "none" /\ ~Served(f) =>
        /\ notified[f] = "firing" => f \in file.active
        /\ notified[f] = "resolved" => f \notin file.active

\* A restart met a file it cannot decode: the relay does not come up by itself.
Unreadable == ~up /\ file.is = "garbled"

\* In the end the list shows what fires: failed writes, files that are no JSON,
\* restarts and late webhooks are made up for by the repetition, but not a file cut
\* inside a character, from which the relay never starts again.  An alert that is
\* resolved leaves the list, unless its last report while it fired was not accepted,
\* so that Alertmanager has nothing to take back, or a late one overtook the others.
EventuallyShown ==
    \A f \in Alerts :
        /\ <>[](f \in firing) => <>[](f \in active \/ Unreadable)
        /\ <>[](f \notin firing) => <>[](f \notin active \/ doubt[f] # "none" \/ Unreadable)

-----------------------------------------------------------------------------
(* The inductive invariant.                                                *)

\* The lock is held while the file is written.  A webhook lists alerts of one group,
\* each once.  Alertmanager waits for a thread that serves the group; a thread nobody
\* waits for has made its alerts doubtful for good.
ThreadInv ==
    /\ \A t \in Threads :
           /\ At(t, "idle") => thread[t].webhook = <<>>
           /\ ~At(t, "idle") => thread[t].group \in groups
           /\ AlertsOf(thread[t].webhook) \subseteq thread[t].group
           /\ \A i, j \in DOMAIN thread[t].webhook :
                  thread[t].webhook[i].alert = thread[t].webhook[j].alert => i = j
           /\ At(t, "open") \/ At(t, "write") => lock = t
    /\ \A g \in groups : waiting[g] # 0 =>
           ~At(waiting[g], "idle") /\ thread[waiting[g]].group = g
    /\ \A t \in Threads, f \in Alerts : Serves(t, f) =>
           waiting[thread[t].group] = t \/ doubt[f] = "late"

\* Memory lists f, or does not, and so does the file unless it is torn.
Listed(f) == f \in active /\ (file.is = "whole" => f \in file.active)
Gone(f) == f \notin active /\ (file.is = "whole" => f \notin file.active)

\* Memory follows a report from its recording on, the file from its success on, until
\* the next report of the same alert.
SavedInv ==
    /\ \A t \in Threads, f \in Alerts : Serves(t, f) /\ doubt[f] # "late" =>
           /\ At(t, "open") \/ At(t, "write") =>
                  (f \in active <=> f \in FiringOf(thread[t].webhook))
           /\ At(t, "ok") => IF f \in FiringOf(thread[t].webhook) THEN Listed(f) ELSE Gone(f)
    /\ \A f \in Alerts : doubt[f] = "none" /\ ~Served(f) =>
           /\ notified[f] = "firing" => Listed(f)
           /\ notified[f] = "resolved" => Gone(f)

IInv ==
    /\ TypeOK
    /\ NewestEntryDecides
    /\ Decides(file.active, file.recent)
    /\ ThreadInv
    /\ SavedInv
=============================================================================
