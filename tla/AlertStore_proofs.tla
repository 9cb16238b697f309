-------------------------- MODULE AlertStore_proofs --------------------------
(***************************************************************************)
(* Theorems about the alert store, for every finite set of alerts and any  *)
(* grouping of them, any length of the history, any number of webhooks     *)
(* served at a time, and every bound: its types, the agreement of list and *)
(* history, and that an accepted report is in the file.                    *)
(***************************************************************************)
EXTENDS AlertStore, SequenceTheorems, FiniteSetTheorems, TLAPS

\* The new history is the webhook, its last alert first, followed by the old history,
\* and cut (alerts.py, record_webhook).
LEMMA ShortenedHistory ==
  ASSUME NEW h \in Seq(Reports), NEW w \in Seq(Reports)
  PROVE  LET s == Shorten(Reverse(w) \o h) IN
         /\ s \in Seq(Reports) /\ Len(s) <= MaxHistory
         /\ \A i \in DOMAIN s :
                \/ i <= Len(w) /\ s[i] = w[(Len(w) - i) + 1]
                \/ i > Len(w) /\ i - Len(w) \in DOMAIN h /\ s[i] = h[i - Len(w)]
<1> DEFINE v == Reverse(w)
           long == v \o h
           n == IF Len(long) < MaxHistory THEN Len(long) ELSE MaxHistory
<1>1. Len(w) \in Nat /\ Len(h) \in Nat /\ DOMAIN h = 1..Len(h)
  BY LenProperties
<1>2. \A i \in 1..Len(w) : (Len(w) - i) + 1 \in 1..Len(w) /\ w[(Len(w) - i) + 1] \in Reports
  <2>1. \A i \in 1..Len(w) : (Len(w) - i) + 1 \in 1..Len(w)
    BY <1>1
  <2>2. \A i \in 1..Len(w) : w[i] \in Reports
    BY ElementOfSeq
  <2> QED BY <2>1, <2>2
<1>3. v \in Seq(Reports) /\ Len(v) = Len(w)
      /\ \A i \in 1..Len(w) : v[i] = w[(Len(w) - i) + 1]
  <2>2. v \in Seq(Reports)
    BY <1>1, <1>2, SMT DEF Reverse
  <2>3. DOMAIN v = 1..Len(w)
    BY DEF Reverse
  <2>4. Len(v) = Len(w)
    BY <1>1, <2>2, <2>3, LenProperties
  <2>5. \A i \in 1..Len(w) : v[i] = w[(Len(w) - i) + 1]
    BY DEF Reverse
  <2> QED BY <2>2, <2>4, <2>5
<1> HIDE DEF v
<1>4. /\ long \in Seq(Reports) /\ Len(long) = Len(w) + Len(h)
      /\ \A i \in 1..Len(long) : long[i] = IF i <= Len(w) THEN v[i] ELSE h[i - Len(w)]
  <2>1. /\ v \o h \in Seq(Reports) /\ Len(v \o h) = Len(v) + Len(h)
        /\ \A i \in 1..Len(v) + Len(h) : (v \o h)[i] = IF i <= Len(v) THEN v[i] ELSE h[i - Len(v)]
    BY <1>3, ConcatProperties, Zenon
  <2> QED BY <1>3, <2>1
<1>5. n \in 0..Len(long) /\ n <= MaxHistory /\ n \in Nat
  BY <1>1, <1>4, AlertAssumption
<1> DEFINE s == SubSeq(long, 1, n)
<1> HIDE DEF n, long
<1>6. s \in Seq(Reports) /\ Len(s) = n /\ \A i \in 1..n : s[i] = long[i]
  BY <1>1, <1>4, <1>5, SMTT(30)
<1> HIDE DEF s
<1>7. DOMAIN s = 1..n
  BY <1>6, LenProperties
<1>8. ASSUME NEW i \in 1..n
      PROVE  \/ i <= Len(w) /\ s[i] = w[(Len(w) - i) + 1]
             \/ i > Len(w) /\ i - Len(w) \in DOMAIN h /\ s[i] = h[i - Len(w)]
  <2>1. i \in 1..Len(long) /\ s[i] = long[i]
    BY <1>1, <1>4, <1>5, <1>6
  <2>2. CASE i <= Len(w)
    BY <1>1, <1>3, <1>4, <2>1, <2>2
  <2>3. CASE ~(i <= Len(w))
    BY <1>1, <1>4, <2>1, <2>3
  <2> QED BY <2>2, <2>3
<1>9. Shorten(Reverse(w) \o h) = s
  BY DEF Shorten, s, n, long, v
<1> QED BY <1>5, <1>6, <1>7, <1>8, <1>9

\* A webhook that lists each alert once: its firing alerts and its other alerts.
LEMMA WebhookParts ==
  ASSUME NEW w \in Seq(Reports)
  PROVE  /\ AlertsOf(w) \subseteq Alerts
         /\ FiringOf(w) \subseteq AlertsOf(w)
         /\ \A i \in DOMAIN w : w[i].alert \in AlertsOf(w) /\ w[i] \in Reports
         /\ (\A i, j \in DOMAIN w : w[i].alert = w[j].alert => i = j) =>
                \A i \in DOMAIN w : w[i].firing <=> w[i].alert \in FiringOf(w)
<1>1. \A i \in DOMAIN w : w[i] \in Reports
  BY ElementOfSeq, LenProperties
<1>2. \A i \in DOMAIN w : w[i].alert \in Alerts /\ w[i].firing \in BOOLEAN
  BY <1>1 DEF Reports
<1> QED BY <1>1, <1>2 DEF AlertsOf, FiringOf

\* A webhook that heads the history and moves its alerts keeps list and history in
\* agreement, and the rest of the list as it is (record_webhook).
LEMMA RecordDecides ==
  ASSUME NEW h \in Seq(Reports), NEW w \in Seq(Reports), NEW listed, Decides(listed, h),
         \A i, j \in DOMAIN w : w[i].alert = w[j].alert => i = j
  PROVE  Decides((listed \ AlertsOf(w)) \union FiringOf(w), Shorten(Reverse(w) \o h))
<1> DEFINE s == Shorten(Reverse(w) \o h)
           l == (listed \ AlertsOf(w)) \union FiringOf(w)
<1>1. /\ s \in Seq(Reports)
      /\ \A i \in DOMAIN s :
             \/ i <= Len(w) /\ s[i] = w[(Len(w) - i) + 1]
             \/ i > Len(w) /\ i - Len(w) \in DOMAIN h /\ s[i] = h[i - Len(w)]
  BY ShortenedHistory
<1>2. /\ Len(s) \in Nat /\ Len(h) \in Nat /\ Len(w) \in Nat
      /\ DOMAIN s = 1..Len(s) /\ DOMAIN h = 1..Len(h) /\ DOMAIN w = 1..Len(w)
  BY <1>1, LenProperties
<1> HIDE DEF s
<1>3. SUFFICES ASSUME NEW i \in DOMAIN s,
                      \A j \in DOMAIN s : s[j].alert = s[i].alert => i <= j
               PROVE  s[i].firing <=> s[i].alert \in l
  BY DEF Decides, s, l
<1>4. CASE i <= Len(w)
  <2> DEFINE k == (Len(w) - i) + 1
  <2>1. k \in DOMAIN w /\ s[i] = w[k]
    BY <1>1, <1>2, <1>4
  <2>2. w[k].alert \in AlertsOf(w) /\ (w[k].firing <=> w[k].alert \in FiringOf(w))
    <3> HIDE DEF k
    <3> QED BY <2>1, WebhookParts
  <2> HIDE DEF k
  <2> QED BY <2>1, <2>2
<1>5. CASE i > Len(w)
  <2> DEFINE k == i - Len(w)
  <2>1. k \in DOMAIN h /\ s[i] = h[k] /\ i = k + Len(w) /\ k \in Nat
    BY <1>1, <1>2, <1>5
  <2>2. s[i].alert \notin AlertsOf(w)
    <3>1. SUFFICES ASSUME NEW m \in DOMAIN w, w[m].alert = s[i].alert PROVE FALSE
      BY DEF AlertsOf
    <3> DEFINE j == (Len(w) - m) + 1
    <3>2. j \in DOMAIN s /\ j <= Len(w) /\ j < i /\ (Len(w) - j) + 1 = m
      BY <1>2, <1>3, <1>5
    <3>3. s[j] = w[m]
      <4>1. ~(j > Len(w))
        BY <1>2, <3>2
      <4> QED BY <1>1, <3>2, <4>1
    <3> HIDE DEF j
    <3> QED BY <1>2, <1>3, <3>1, <3>2, <3>3
  <2>3. ASSUME NEW j \in DOMAIN h, h[j].alert = h[k].alert PROVE k <= j
    <3>1. SUFFICES ASSUME j < k PROVE FALSE
      BY <1>2, <2>1
    <3> DEFINE m == j + Len(w)
    <3>2. m \in DOMAIN s /\ m > Len(w) /\ m - Len(w) = j /\ m < i
      BY <1>2, <2>1, <3>1
    <3>3. s[m] = h[j]
      <4>1. ~(m <= Len(w))
        BY <1>2, <3>2
      <4> QED BY <1>1, <3>2, <4>1
    <3> HIDE DEF m
    <3> QED BY <1>2, <1>3, <2>1, <2>3, <3>2, <3>3
  <2> HIDE DEF k
  <2>4. h[k].firing <=> h[k].alert \in listed
    BY <2>1, <2>3 DEF Decides
  <2>5. s[i].alert \notin FiringOf(w)
    BY <2>2, WebhookParts
  <2> QED BY <2>1, <2>2, <2>4, <2>5
<1> QED BY <1>2, <1>4, <1>5

-----------------------------------------------------------------------------

\* A webhook as Alertmanager makes it (Notify) lists alerts of its group, each once.
LEMMA NotifiedWebhook ==
  ASSUME NEW g, g \subseteq Alerts, NEW told, told \subseteq g, NEW order \in SetToSeqs(told)
  PROVE  LET w == Webhook(order) IN
         /\ w \in Seq(Reports)
         /\ AlertsOf(w) \subseteq g
         /\ \A i, j \in DOMAIN w : w[i].alert = w[j].alert => i = j
<1> DEFINE n == Cardinality(told)
           w == Webhook(order)
<1>1. n \in Nat
  <2>1. IsFiniteSet(told)
    BY FS_Subset, AlertAssumption
  <2> QED BY <2>1, FS_CardinalityType
<1> HIDE DEF n
<1>2. order \in [1..n -> told] /\ \A i, j \in 1..n : i # j => order[i] # order[j]
  BY DEF SetToSeqs, n
<1>3. w = [i \in 1..n |-> [alert |-> order[i], firing |-> order[i] \in firing]]
  BY <1>2 DEF Webhook
<1> HIDE DEF w
<1>4. \A i \in 1..n : [alert |-> order[i], firing |-> order[i] \in firing] \in Reports
  BY <1>2 DEF Reports
<1>5. w \in Seq(Reports)
  BY <1>1, <1>3, <1>4, SMT
<1>6. DOMAIN w = 1..n /\ \A i \in 1..n : w[i].alert = order[i]
  BY <1>3
<1>7. AlertsOf(w) \subseteq g /\ \A i, j \in DOMAIN w : w[i].alert = w[j].alert => i = j
  BY <1>2, <1>6 DEF AlertsOf
<1> QED BY <1>5, <1>7 DEF w

\* A step of Alertmanager hands an idle thread the webhook of a group nobody waits for.
LEMMA NotifyParts ==
  ASSUME NEW g, Notify(g)
  PROVE  \E told \in SUBSET g : \E order \in SetToSeqs(told), t \in Threads :
             /\ waiting[g] = 0 /\ At(t, "idle")
             /\ thread' = [thread EXCEPT ![t] =
                    [at |-> "lock", group |-> g, webhook |-> Webhook(order)]]
             /\ waiting' = [waiting EXCEPT ![g] = t]
<1> DEFINE due == {f \in g : f \in firing \/ notified[f] = "firing"}
<1>1. PICK more \in SUBSET {f \in g : notified[f] = "nothing"} :
         \E order \in SetToSeqs(due \union more), t \in Threads :
             /\ waiting[g] = 0 /\ At(t, "idle")
             /\ thread' = [thread EXCEPT ![t] =
                    [at |-> "lock", group |-> g, webhook |-> Webhook(order)]]
             /\ waiting' = [waiting EXCEPT ![g] = t]
  BY Zenon DEF Notify
<1>2. due \union more \in SUBSET g
  OBVIOUS
<1> HIDE DEF due
<1> QED BY <1>1, <1>2

LEMMA NoWebhook == /\ <<>> \in Seq(Reports) /\ Len(<<>>) = 0 /\ DOMAIN <<>> = {}
                   /\ AlertsOf(<<>>) = {}
<1>1. <<>> \in Seq(Reports) /\ Len(<<>>) = 0
  BY EmptySeq
<1>2. DOMAIN <<>> = {}
  BY <1>1, LenProperties
<1> QED BY <1>1, <1>2 DEF AlertsOf

-----------------------------------------------------------------------------

LEMMA InvInit == Init => IInv
<1> SUFFICES ASSUME Init PROVE IInv
  OBVIOUS
<1>1. TypeOK
  <2>1. Free \in [at : Points, group : groups \union {{}}, webhook : Seq(Reports)]
    BY NoWebhook DEF Free, Points
  <2> QED BY <2>1, NoWebhook, AlertAssumption DEF Init, TypeOK, Whole
<1>2. NewestEntryDecides /\ Decides(file.active, file.recent)
  BY NoWebhook DEF Init, Whole, NewestEntryDecides, Decides
<1>3. \A t \in Threads : thread[t].at = "idle" /\ thread[t].webhook = <<>>
  BY DEF Init, Free
<1>4. ThreadInv
  BY <1>3, NoWebhook DEF Init, ThreadInv, At, Serves
<1>5. SavedInv
  BY <1>3, NoWebhook DEF Init, SavedInv, Serves
<1> QED BY <1>1, <1>2, <1>4, <1>5 DEF IInv

\* The grouping of an installation does not change.
LEMMA GroupsKept == [Next]_vars => UNCHANGED groups
BY DEF Next, vars, managerVars, Serve, Record, OpenFile, WriteFile, WriteFails, Answer,
       Fire, Resolve, Notify, TimeOut, Crash

\* Every step keeps the types.
LEMMA TypeNext == ASSUME IInv, [Next]_vars PROVE TypeOK'
<1> USE DEF IInv, TypeOK
<1> DEFINE Jobs == [at : Points, group : groups \union {{}}, webhook : Seq(Reports)]
<1>0. groups' = groups
  BY GroupsKept
<1>a. \A t \in Threads, p \in Points : Goto(t, p) => thread' \in [Threads -> Jobs]
  <2>1. SUFFICES ASSUME NEW t \in Threads, NEW p \in Points, Goto(t, p)
                 PROVE  thread' \in [Threads -> Jobs]
    OBVIOUS
  <2>2. thread \in [Threads -> Jobs] /\ thread[t] \in Jobs
    OBVIOUS
  <2>3. [thread[t] EXCEPT !.at = p] \in Jobs
    BY <2>2
  <2> HIDE DEF Jobs, TypeOK, IInv
  <2> QED BY <2>1, <2>2, <2>3 DEF Goto
<1>b. \A t \in Threads : thread[t].webhook \in Seq(Reports)
  OBVIOUS
<1>c. Free \in Jobs
  BY NoWebhook DEF Free, Points
<1>1. ASSUME NEW t \in Threads, Record(t) PROVE TypeOK'
  <2> DEFINE w == thread[t].webhook
  <2>1. recent' \in Seq(Reports) /\ Len(recent') <= MaxHistory
    BY <1>1, <1>b, ShortenedHistory DEF Record
  <2>2. active' \subseteq Alerts
    <3>1. AlertsOf(w) \subseteq Alerts /\ FiringOf(w) \subseteq AlertsOf(w)
      BY <1>b, WebhookParts
    <3> QED BY <1>1, <3>1 DEF Record
  <2>3. thread' \in [Threads -> Jobs]
    BY <1>1, <1>a DEF Record, Points
  <2> QED BY <1>0, <1>1, <2>1, <2>2, <2>3 DEF Record, managerVars
<1>2. ASSUME NEW t \in Threads, OpenFile(t) \/ WriteFile(t) \/ WriteFails(t) PROVE TypeOK'
  <2>1. thread' \in [Threads -> Jobs]
    BY <1>2, <1>a DEF OpenFile, WriteFile, WriteFails, Points
  <2>2. file' \in [is : {"whole", "cut", "garbled"}, active : SUBSET Alerts, recent : Seq(Reports)]
        /\ Len(file'.recent) <= MaxHistory
    <3>1. CASE OpenFile(t)
      <4>1. PICK how \in {"cut", "garbled"} : file' = Torn(how)
        BY <3>1 DEF OpenFile
      <4> QED BY <4>1, NoWebhook, AlertAssumption DEF Torn
    <3>2. CASE WriteFile(t)
      BY <3>2 DEF WriteFile, Whole
    <3>3. CASE WriteFails(t)
      BY <3>3 DEF WriteFails
    <3> QED BY <1>2, <3>1, <3>2, <3>3
  <2>3. lock' \in Threads \union {0}
    BY <1>2 DEF OpenFile, WriteFile, WriteFails
  <2> QED BY <1>0, <1>2, <2>1, <2>2, <2>3
         DEF OpenFile, WriteFile, WriteFails, managerVars, memory, Fault
<1>3. ASSUME NEW t \in Threads, Answer(t) PROVE TypeOK'
  <2>1. thread' \in [Threads -> Jobs]
    BY <1>3, <1>c DEF Answer
  <2>2. waiting' \in [groups -> Threads \union {0}]
    BY <1>3 DEF Answer
  <2>3. doubt' \in [Alerts -> {"none", "failed", "late"}]
    BY <1>3 DEF Answer, Doubted
  <2>4. notified' \in [Alerts -> {"nothing", "firing", "resolved"}]
    BY <1>3 DEF Answer, Accepted
  <2> QED BY <1>0, <1>3, <2>1, <2>2, <2>3, <2>4 DEF Answer, memory
<1>4. ASSUME NEW f \in Alerts, Fire(f) \/ Resolve(f) PROVE TypeOK'
  <2>1. CASE Fire(f)
    BY <1>0, <2>1 DEF Fire, memory
  <2>2. CASE Resolve(f)
    BY <1>0, <2>2 DEF Resolve, memory
  <2> QED BY <1>4, <2>1, <2>2
<1>5. ASSUME NEW g \in groups, TimeOut(g) PROVE TypeOK'
  <2>1. doubt' \in [Alerts -> {"none", "failed", "late"}]
    BY <1>5 DEF TimeOut, Doubted
  <2>2. waiting' \in [groups -> Threads \union {0}]
    BY <1>5 DEF TimeOut
  <2> QED BY <1>0, <1>5, <2>1, <2>2 DEF TimeOut, Fault, memory
<1>6. ASSUME NEW g \in groups, Notify(g) PROVE TypeOK'
  <2>1. PICK t \in Threads, job \in Jobs :
            thread' = [thread EXCEPT ![t] = job] /\ waiting' = [waiting EXCEPT ![g] = t]
    <3>0. PICK told \in SUBSET g : \E order \in SetToSeqs(told), t \in Threads :
              /\ waiting[g] = 0 /\ At(t, "idle")
              /\ thread' = [thread EXCEPT ![t] =
                     [at |-> "lock", group |-> g, webhook |-> Webhook(order)]]
              /\ waiting' = [waiting EXCEPT ![g] = t]
      BY <1>6, NotifyParts, Zenon
    <3>1. PICK order \in SetToSeqs(told), t \in Threads :
              /\ thread' = [thread EXCEPT ![t] =
                     [at |-> "lock", group |-> g, webhook |-> Webhook(order)]]
              /\ waiting' = [waiting EXCEPT ![g] = t]
      BY <3>0
    <3>2. g \subseteq Alerts
      BY AlertAssumption
    <3>3. Webhook(order) \in Seq(Reports)
      BY <3>2, NotifiedWebhook
    <3>4. [at |-> "lock", group |-> g, webhook |-> Webhook(order)] \in Jobs
      BY <3>3 DEF Points
    <3> QED BY <3>1, <3>4
  <2>2. thread' \in [Threads -> Jobs] /\ waiting' \in [groups -> Threads \union {0}]
    BY <2>1
  <2> QED BY <1>0, <1>6, <2>2 DEF Notify, memory
<1>7. CASE Crash
  <2>1. thread' \in [Threads -> Jobs]
    BY <1>7, <1>c DEF Crash, Restart
  <2>2. up' \in BOOLEAN /\ active' \subseteq Alerts /\ recent' \in Seq(Reports)
        /\ Len(recent') <= MaxHistory /\ lock' \in Threads \union {0} /\ file' = file
    BY <1>7 DEF Crash, Restart
  <2>3. waiting' \in [groups -> Threads \union {0}] /\ doubt' \in [Alerts -> {"none", "failed", "late"}]
    BY <1>7 DEF Crash
  <2> QED BY <1>0, <1>7, <2>1, <2>2, <2>3 DEF Crash
<1>8. CASE UNCHANGED vars
  BY <1>8 DEF vars, memory, managerVars
<1> QED BY <1>1, <1>2, <1>3, <1>4, <1>5, <1>6, <1>7, <1>8 DEF Next, Serve

\* List and history agree, in memory and in the file (record_webhook, _load).
LEMMA DecidesNext ==
  ASSUME IInv, [Next]_vars
  PROVE  NewestEntryDecides' /\ Decides(file.active, file.recent)'
<1> USE DEF IInv, NewestEntryDecides
<1>1. ASSUME NEW t \in Threads, Record(t)
      PROVE  Decides(active, recent)' /\ Decides(file.active, file.recent)'
  <2> DEFINE w == thread[t].webhook
  <2>1. w \in Seq(Reports) /\ \A i, j \in DOMAIN w : w[i].alert = w[j].alert => i = j
    BY DEF TypeOK, ThreadInv
  <2>2. recent \in Seq(Reports)
    BY DEF TypeOK
  <2>3. active' = (active \ AlertsOf(w)) \union FiringOf(w) /\ recent' = Shorten(Reverse(w) \o recent)
        /\ file' = file
    BY <1>1 DEF Record
  <2> HIDE DEF w
  <2>4. Decides(active', recent')
    BY <2>1, <2>2, <2>3, RecordDecides
  <2> QED BY <2>3, <2>4
<1>2. Decides({}, <<>>)
  BY NoWebhook DEF Decides
<1>3. ASSUME NEW t \in Threads, OpenFile(t)
      PROVE  Decides(active, recent)' /\ Decides(file.active, file.recent)'
  BY <1>2, <1>3 DEF OpenFile, Torn, memory
<1>4. ASSUME NEW t \in Threads, WriteFile(t)
      PROVE  Decides(active, recent)' /\ Decides(file.active, file.recent)'
  BY <1>4 DEF WriteFile, Whole, memory
<1>5. CASE Crash
  BY <1>5 DEF Crash, Restart
<1>6. CASE UNCHANGED <<memory, file>>
  BY <1>6 DEF memory
<1>7. ASSUME NEW t \in Threads, WriteFails(t) \/ Answer(t) PROVE UNCHANGED <<memory, file>>
  BY <1>7 DEF WriteFails, Answer
<1>8. ASSUME NEW f \in Alerts, Fire(f) \/ Resolve(f) PROVE UNCHANGED <<memory, file>>
  BY <1>8 DEF Fire, Resolve
<1>9. ASSUME NEW g \in groups, Notify(g) \/ TimeOut(g) PROVE UNCHANGED <<memory, file>>
  BY <1>9 DEF Notify, TimeOut
<1>10. CASE UNCHANGED vars
  BY <1>10, <1>6 DEF vars
<1> QED BY <1>1, <1>3, <1>4, <1>5, <1>6, <1>7, <1>8, <1>9, <1>10 DEF Next, Serve

\* A thread that goes on keeps its webhook, and so does every other.
LEMMA GotoServes ==
  ASSUME TypeOK, NEW t \in Threads, NEW p, Goto(t, p)
  PROVE  /\ \A u \in Threads : /\ thread'[u].webhook = thread[u].webhook
                               /\ thread'[u].group = thread[u].group
                               /\ thread'[u].at = IF u = t THEN p ELSE thread[u].at
                               /\ \A f : Serves(u, f)' <=> Serves(u, f)
         /\ \A f : Served(f)' <=> Served(f)
<1>1. \A u \in Threads : /\ thread'[u].webhook = thread[u].webhook
                         /\ thread'[u].group = thread[u].group
                         /\ thread'[u].at = IF u = t THEN p ELSE thread[u].at
  BY DEF TypeOK, Goto
<1> QED BY <1>1 DEF Serves, Served

\* Groups share no alert, so an alert that is not late is served by one thread.
LEMMA OneServes ==
  ASSUME IInv, NEW t \in Threads, NEW u \in Threads, NEW f \in Alerts,
         Serves(t, f), Serves(u, f), doubt[f] # "late"
  PROVE  t = u
<1>1. /\ thread[t].group \in groups /\ f \in thread[t].group
      /\ thread[u].group \in groups /\ f \in thread[u].group
  BY NoWebhook DEF IInv, ThreadInv, Serves
<1>2. thread[t].group = thread[u].group
  BY <1>1, AlertAssumption DEF IInv, TypeOK
<1> QED BY <1>2 DEF IInv, ThreadInv

\* Who serves what, who holds the lock, and which alerts are in doubt.
LEMMA ThreadNext == ASSUME IInv, [Next]_vars PROVE ThreadInv'
<1> USE DEF IInv, TypeOK, At
<1>0. groups' = groups
  BY GroupsKept
<1>1. ASSUME NEW t \in Threads, NEW p \in Points \ {"idle"}, Goto(t, p), ~At(t, "idle"),
             UNCHANGED <<waiting, doubt>>,
             \A u \in Threads : At(u, "open")' \/ At(u, "write")' => lock' = u
      PROVE  ThreadInv'
  <2>1. \A u \in Threads : /\ thread'[u].webhook = thread[u].webhook
                           /\ thread'[u].group = thread[u].group
                           /\ At(u, "idle")' <=> At(u, "idle")
                           /\ \A f : Serves(u, f)' <=> Serves(u, f)
    BY <1>1, GotoServes
  <2> HIDE DEF At
  <2>2. \A u \in Threads :
           /\ At(u, "idle")' => thread'[u].webhook = <<>>
           /\ ~At(u, "idle")' => thread'[u].group \in groups'
           /\ AlertsOf(thread'[u].webhook) \subseteq thread'[u].group
           /\ \A i, j \in DOMAIN thread'[u].webhook :
                  thread'[u].webhook[i].alert = thread'[u].webhook[j].alert => i = j
    BY <1>0, <2>1 DEF ThreadInv
  <2>3. \A g \in groups' : waiting'[g] # 0 =>
           ~At(waiting[g], "idle")' /\ thread'[waiting'[g]].group = g
    BY <1>0, <1>1, <2>1 DEF ThreadInv
  <2>4. \A u \in Threads, f \in Alerts : Serves(u, f)' =>
           waiting'[thread'[u].group] = u \/ doubt'[f] = "late"
    BY <1>1, <2>1 DEF ThreadInv
  <2> QED BY <1>1, <2>2, <2>3, <2>4 DEF ThreadInv
<1>2. ASSUME NEW t \in Threads, Record(t) PROVE ThreadInv'
  <2>1. Goto(t, "open") /\ ~At(t, "idle") /\ UNCHANGED <<waiting, doubt>> /\ lock = 0 /\ lock' = t
    BY <1>2 DEF Record, managerVars
  <2>2. \A u \in Threads : At(u, "open")' \/ At(u, "write")' => lock' = u
    BY <2>1, GotoServes DEF ThreadInv, Threads
  <2> QED BY <1>1, <2>1, <2>2 DEF Points
<1>3. ASSUME NEW t \in Threads, OpenFile(t) PROVE ThreadInv'
  <2>1. Goto(t, "write") /\ ~At(t, "idle") /\ UNCHANGED <<waiting, doubt, lock>> /\ lock = t
    BY <1>3 DEF OpenFile, managerVars, ThreadInv
  <2>2. \A u \in Threads : At(u, "open")' \/ At(u, "write")' => lock' = u
    BY <2>1, GotoServes DEF ThreadInv
  <2> QED BY <1>1, <2>1, <2>2 DEF Points
<1>4. ASSUME NEW t \in Threads, WriteFile(t) \/ WriteFails(t) PROVE ThreadInv'
  <2>1. PICK p \in {"ok", "error"} : Goto(t, p)
    BY <1>4 DEF WriteFile, WriteFails
  <2>2. ~At(t, "idle") /\ UNCHANGED <<waiting, doubt>> /\ lock = t
    BY <1>4 DEF WriteFile, WriteFails, managerVars, ThreadInv
  <2>3. \A u \in Threads : ~(At(u, "open")' \/ At(u, "write")')
    <3>1. \A u \in Threads : thread'[u].at = IF u = t THEN p ELSE thread[u].at
      BY <2>1, GotoServes
    <3> QED BY <2>2, <3>1 DEF ThreadInv
  <2> QED BY <1>1, <2>1, <2>2, <2>3 DEF Points
<1>5. ASSUME NEW t \in Threads, Answer(t) PROVE ThreadInv'
  <2> DEFINE h == thread[t].group
  <2>1. h \in groups
    BY <1>5 DEF Answer, ThreadInv
  <2>2. \A u \in Threads : thread'[u] = IF u = t THEN Free ELSE thread[u]
    BY <1>5 DEF Answer
  <2>3. Free.at = "idle" /\ Free.webhook = <<>> /\ AlertsOf(Free.webhook) = {} /\ UNCHANGED lock
        /\ DOMAIN Free.webhook = {}
    BY <1>5, NoWebhook DEF Answer, Free
  <2>4. \A g \in groups : waiting'[g] = IF g = h /\ waiting[h] = t THEN 0 ELSE waiting[g]
    BY <1>5, <2>1 DEF Answer
  <2>5. \A f \in Alerts : doubt[f] = "late" => doubt'[f] = "late"
    BY <1>5 DEF Answer, Doubted
  <2>6. \A u \in Threads :
           /\ At(u, "idle")' => thread'[u].webhook = <<>>
           /\ ~At(u, "idle")' => thread'[u].group \in groups'
           /\ AlertsOf(thread'[u].webhook) \subseteq thread'[u].group
           /\ \A i, j \in DOMAIN thread'[u].webhook :
                  thread'[u].webhook[i].alert = thread'[u].webhook[j].alert => i = j
           /\ At(u, "open")' \/ At(u, "write")' => lock' = u
    BY <1>0, <2>2, <2>3 DEF ThreadInv
  <2>7. ASSUME NEW g \in groups', waiting'[g] # 0
        PROVE  ~At(waiting[g], "idle")' /\ thread'[waiting'[g]].group = g
    <3>1. waiting'[g] = waiting[g] /\ waiting[g] \in Threads /\ thread[waiting[g]].group = g
          /\ ~At(waiting[g], "idle")
      BY <1>0, <2>4, <2>7 DEF ThreadInv
    <3>2. waiting[g] # t
      BY <1>0, <2>4, <2>7, <3>1
    <3> QED BY <2>2, <3>1, <3>2
  <2>8. ASSUME NEW u \in Threads, NEW f \in Alerts, Serves(u, f)'
        PROVE  waiting'[thread'[u].group] = u \/ doubt'[f] = "late"
    <3>1. u # t /\ thread'[u] = thread[u]
      BY <2>2, <2>3, <2>8 DEF Serves
    <3>2. Serves(u, f)
      BY <2>8, <3>1 DEF Serves
    <3>3. thread[u].group \in groups
      BY <3>2, NoWebhook DEF ThreadInv, Serves
    <3> QED BY <2>4, <2>5, <3>1, <3>2, <3>3 DEF ThreadInv
  <2> HIDE DEF At
  <2> QED BY <2>6, <2>7, <2>8 DEF ThreadInv
<1>6. ASSUME NEW f \in Alerts, Fire(f) \/ Resolve(f) PROVE ThreadInv'
  BY <1>0, <1>6 DEF Fire, Resolve, ThreadInv, Serves
<1>7. ASSUME NEW g \in groups, TimeOut(g) PROVE ThreadInv'
  <2>1. UNCHANGED <<thread, lock>> /\ waiting' = [waiting EXCEPT ![g] = 0] /\ waiting[g] # 0
    BY <1>7 DEF TimeOut
  <2>2. \A f \in Alerts : doubt'[f] =
            IF f \in AlertsOf(thread[waiting[g]].webhook) THEN "late" ELSE doubt[f]
    BY <1>7 DEF TimeOut, Doubted
  <2>3. ASSUME NEW u \in Threads, NEW f \in Alerts, Serves(u, f)
        PROVE  waiting'[thread[u].group] = u \/ doubt'[f] = "late"
    <3>1. thread[u].group \in groups
      BY <2>3, NoWebhook DEF ThreadInv, Serves
    <3>2. CASE thread[u].group = g
      BY <2>2, <2>3, <3>2 DEF ThreadInv, Serves
    <3>3. CASE thread[u].group # g
      BY <2>1, <2>2, <2>3, <3>1, <3>3 DEF ThreadInv
    <3> QED BY <3>2, <3>3
  <2>4. \A h \in groups : waiting'[h] # 0 => waiting'[h] = waiting[h]
    BY <2>1
  <2> QED BY <1>0, <2>1, <2>3, <2>4 DEF ThreadInv, Serves
<1>8. ASSUME NEW g \in groups, Notify(g) PROVE ThreadInv'
  <2>0. PICK told \in SUBSET g : \E order \in SetToSeqs(told), t \in Threads :
            /\ waiting[g] = 0 /\ At(t, "idle")
            /\ thread' = [thread EXCEPT ![t] =
                   [at |-> "lock", group |-> g, webhook |-> Webhook(order)]]
            /\ waiting' = [waiting EXCEPT ![g] = t]
    BY <1>8, NotifyParts, Zenon
  <2>1. PICK order \in SetToSeqs(told), t \in Threads :
            /\ waiting[g] = 0 /\ At(t, "idle")
            /\ thread' = [thread EXCEPT ![t] =
                   [at |-> "lock", group |-> g, webhook |-> Webhook(order)]]
            /\ waiting' = [waiting EXCEPT ![g] = t]
    BY <2>0
  <2> DEFINE w == Webhook(order)
  <2>2. AlertsOf(w) \subseteq g /\ \A i, j \in DOMAIN w : w[i].alert = w[j].alert => i = j
    <3>1. g \subseteq Alerts /\ told \subseteq g
      BY AlertAssumption
    <3> QED BY <3>1, NotifiedWebhook
  <2> HIDE DEF w
  <2>3. UNCHANGED <<lock, doubt>>
    BY <1>8 DEF Notify
  <2>4. \A u \in Threads :
            /\ u = t => thread'[u].at = "lock" /\ thread'[u].webhook = w /\ thread'[u].group = g
            /\ u # t => thread'[u] = thread[u]
    BY <2>1 DEF w
  <2>5. \A h \in groups : waiting'[h] = IF h = g THEN t ELSE waiting[h]
    BY <2>1
  <2>6. \A h \in groups : waiting[h] # t
    BY <2>1 DEF ThreadInv, Threads
  <2>7. \A u \in Threads :
           /\ At(u, "idle")' => thread'[u].webhook = <<>>
           /\ ~At(u, "idle")' => thread'[u].group \in groups'
           /\ AlertsOf(thread'[u].webhook) \subseteq thread'[u].group
           /\ \A i, j \in DOMAIN thread'[u].webhook :
                  thread'[u].webhook[i].alert = thread'[u].webhook[j].alert => i = j
           /\ At(u, "open")' \/ At(u, "write")' => lock' = u
    <3>1. SUFFICES ASSUME NEW u \in Threads
          PROVE  /\ At(u, "idle")' => thread'[u].webhook = <<>>
                 /\ ~At(u, "idle")' => thread'[u].group \in groups'
                 /\ AlertsOf(thread'[u].webhook) \subseteq thread'[u].group
                 /\ \A i, j \in DOMAIN thread'[u].webhook :
                        thread'[u].webhook[i].alert = thread'[u].webhook[j].alert => i = j
                 /\ At(u, "open")' \/ At(u, "write")' => lock' = u
      OBVIOUS
    <3>2. CASE u = t
      BY <1>0, <2>2, <2>4, <3>2
    <3>3. CASE u # t
      BY <1>0, <2>3, <2>4, <3>3 DEF ThreadInv
    <3> QED BY <3>2, <3>3
  <2>8. ASSUME NEW h \in groups', waiting'[h] # 0
        PROVE  ~At(waiting[h], "idle")' /\ thread'[waiting'[h]].group = h
    <3>1. CASE h = g
      BY <1>0, <2>4, <2>5, <3>1
    <3>2. CASE h # g
      BY <1>0, <2>4, <2>5, <2>6, <2>8, <3>2 DEF ThreadInv
    <3> QED BY <3>1, <3>2
  <2>9. ASSUME NEW u \in Threads, NEW f \in Alerts, Serves(u, f)'
        PROVE  waiting'[thread'[u].group] = u \/ doubt'[f] = "late"
    <3>1. CASE u = t
      BY <2>4, <2>5, <3>1
    <3>2. CASE u # t
      <4>1. Serves(u, f) /\ thread'[u].group = thread[u].group
        BY <2>4, <2>9, <3>2 DEF Serves
      <4>2. thread[u].group \in groups
        BY <4>1, NoWebhook DEF ThreadInv, Serves
      <4> QED BY <2>1, <2>3, <2>5, <3>2, <4>1, <4>2 DEF ThreadInv, Threads
    <3> QED BY <3>1, <3>2
  <2> HIDE DEF At
  <2> QED BY <2>7, <2>8, <2>9 DEF ThreadInv
<1>9. CASE Crash
  <2>1. \A u \in Threads : thread'[u].at = "idle" /\ thread'[u].webhook = <<>>
    BY <1>9 DEF Crash, Restart, Free
  <2>2. \A g \in groups : waiting'[g] = 0
    BY <1>9 DEF Crash
  <2> QED BY <1>0, <2>1, <2>2, NoWebhook DEF ThreadInv, Serves
<1>10. CASE UNCHANGED vars
  BY <1>10 DEF vars, managerVars, ThreadInv, Serves
<1> QED BY <1>2, <1>3, <1>4, <1>5, <1>6, <1>7, <1>8, <1>9, <1>10 DEF Next, Serve

\* What memory and file say of the alerts that are not in doubt.
LEMMA SavedNext == ASSUME IInv, [Next]_vars PROVE SavedInv'
<1> USE DEF IInv, TypeOK, At
<1>p. \A t \in Threads : LET w == thread[t].webhook IN
          /\ w \in Seq(Reports) /\ AlertsOf(w) \subseteq Alerts /\ FiringOf(w) \subseteq AlertsOf(w)
  BY WebhookParts
<1>1. ASSUME NEW t \in Threads, Record(t) PROVE SavedInv'
  <2> DEFINE w == thread[t].webhook
  <2>1. Goto(t, "open") /\ UNCHANGED <<waiting, doubt, notified, file>>
    BY <1>1 DEF Record, managerVars
  <2>2. \A u \in Threads : /\ thread'[u].webhook = thread[u].webhook
                           /\ thread'[u].at = IF u = t THEN "open" ELSE thread[u].at
                           /\ \A f : Serves(u, f)' <=> Serves(u, f)
    BY <2>1, GotoServes
  <2>3. \A f : Served(f)' <=> Served(f)
    BY <2>1, GotoServes
  <2>4. FiringOf(w) \subseteq AlertsOf(w) /\ active' = (active \ AlertsOf(w)) \union FiringOf(w)
    BY <1>1, <1>p DEF Record
  <2>5. /\ \A f \in AlertsOf(w) : f \in active' <=> f \in FiringOf(w)
        /\ \A f : f \notin AlertsOf(w) => (f \in active' <=> f \in active)
    BY <2>4
  <2>6. \A f \in Alerts : f \notin AlertsOf(w) => (Listed(f) => Listed(f)') /\ (Gone(f) => Gone(f)')
    BY <2>1, <2>5 DEF Listed, Gone
  <2> HIDE DEF w
  <2>7. ASSUME NEW u \in Threads, NEW f \in Alerts, Serves(u, f)', doubt'[f] # "late"
        PROVE  /\ At(u, "open")' \/ At(u, "write")' =>
                      (f \in active' <=> f \in FiringOf(thread'[u].webhook))
               /\ At(u, "ok")' => (IF f \in FiringOf(thread[u].webhook) THEN Listed(f) ELSE Gone(f))'
    <3>1. Serves(u, f) /\ doubt[f] # "late"
      BY <2>1, <2>2, <2>7
    <3>2. CASE u = t
      BY <2>2, <2>5, <3>1, <3>2 DEF Serves, w
    <3>3. CASE u # t
      <4>1. f \notin AlertsOf(w)
        BY <3>1, <3>3, OneServes DEF Serves, w
      <4> QED BY <2>2, <2>5, <2>6, <3>1, <3>3, <4>1 DEF SavedInv
    <3> QED BY <3>2, <3>3
  <2>8. ASSUME NEW f \in Alerts, doubt'[f] = "none", ~Served(f)'
        PROVE  /\ notified'[f] = "firing" => Listed(f)'
               /\ notified'[f] = "resolved" => Gone(f)'
    <3>1. f \notin AlertsOf(w)
      BY <2>3, <2>8 DEF Served, Serves, w
    <3> QED BY <2>1, <2>3, <2>6, <2>8, <3>1 DEF SavedInv
  <2> QED BY <2>7, <2>8 DEF SavedInv
<1>2. ASSUME NEW t \in Threads, OpenFile(t) \/ WriteFile(t) PROVE SavedInv'
  <2>1. UNCHANGED <<active, waiting, doubt, notified>>
    BY <1>2 DEF OpenFile, WriteFile, managerVars, memory
  <2>2. PICK p \in {"write", "ok"} :
            /\ Goto(t, p) /\ (At(t, "open") \/ At(t, "write"))
            /\ p = "write" => file'.is # "whole"
            /\ p = "ok" => file'.active = active
    BY <1>2 DEF OpenFile, WriteFile, Torn, Whole
  <2>3. \A u \in Threads : /\ thread'[u].webhook = thread[u].webhook
                           /\ thread'[u].at = IF u = t THEN p ELSE thread[u].at
                           /\ \A f : Serves(u, f)' <=> Serves(u, f)
    BY <2>2, GotoServes
  <2>4. \A f : Served(f)' <=> Served(f)
    BY <2>2, GotoServes
  <2>5. \A f \in Alerts : IF f \in active THEN Listed(f)' ELSE Gone(f)'
    BY <2>1, <2>2 DEF Listed, Gone
  <2>6. \A f \in Alerts : (Listed(f) => Listed(f)') /\ (Gone(f) => Gone(f)')
    BY <2>5 DEF Listed, Gone
  <2>7. ASSUME NEW u \in Threads, NEW f \in Alerts, Serves(u, f)', doubt'[f] # "late"
        PROVE  /\ At(u, "open")' \/ At(u, "write")' =>
                      (f \in active' <=> f \in FiringOf(thread'[u].webhook))
               /\ At(u, "ok")' => (IF f \in FiringOf(thread[u].webhook) THEN Listed(f) ELSE Gone(f))'
    <3>1. Serves(u, f) /\ doubt[f] # "late"
      BY <2>1, <2>3, <2>7
    <3>2. CASE u = t
      <4>1. f \in active <=> f \in FiringOf(thread[u].webhook)
        BY <2>2, <3>1, <3>2 DEF SavedInv
      <4> QED BY <2>1, <2>3, <2>5, <4>1
    <3>3. CASE u # t
      BY <2>1, <2>3, <2>6, <3>1, <3>3 DEF SavedInv
    <3> QED BY <3>2, <3>3
  <2>8. ASSUME NEW f \in Alerts, doubt'[f] = "none", ~Served(f)'
        PROVE  /\ notified'[f] = "firing" => Listed(f)'
               /\ notified'[f] = "resolved" => Gone(f)'
    BY <2>1, <2>4, <2>6, <2>8 DEF SavedInv
  <2> QED BY <2>7, <2>8 DEF SavedInv
<1>3. ASSUME NEW t \in Threads, WriteFails(t) PROVE SavedInv'
  <2>1. Goto(t, "error") /\ UNCHANGED <<active, waiting, doubt, notified, file>>
    BY <1>3 DEF WriteFails, managerVars, memory
  <2>2. \A u \in Threads : /\ thread'[u].webhook = thread[u].webhook
                           /\ thread'[u].at = IF u = t THEN "error" ELSE thread[u].at
                           /\ \A f : Serves(u, f)' <=> Serves(u, f)
    BY <2>1, GotoServes
  <2>3. \A f : Served(f)' <=> Served(f)
    BY <2>1, GotoServes
  <2> QED BY <2>1, <2>2, <2>3 DEF SavedInv, Listed, Gone
<1>4. ASSUME NEW t \in Threads, Answer(t) PROVE SavedInv'
  <2> DEFINE w == thread[t].webhook
  <2>1. \A u \in Threads : thread'[u] = IF u = t THEN Free ELSE thread[u]
    BY <1>4 DEF Answer
  <2>2. UNCHANGED <<active, file>>
    BY <1>4 DEF Answer, memory
  <2>3. \A f \in Alerts : (Listed(f) <=> Listed(f)') /\ (Gone(f) <=> Gone(f)')
    BY <2>2 DEF Listed, Gone
  <2>4. \A f \in Alerts : doubt'[f] # "late" => doubt[f] # "late"
    BY <1>4 DEF Answer, Doubted
  <2>5. \A f \in Alerts : f \notin AlertsOf(w) => doubt'[f] = doubt[f] /\ notified'[f] = notified[f]
    BY <1>4, <1>p DEF Answer, Doubted, Accepted
  <2>6. \A u \in Threads : \A f : Serves(u, f)' <=> u # t /\ Serves(u, f)
    <3>1. AlertsOf(Free.webhook) = {}
      BY NoWebhook DEF Free
    <3> QED BY <2>1, <3>1 DEF Serves
  <2>7. ASSUME NEW f \in AlertsOf(w), doubt'[f] = "none", doubt[f] # "late"
        PROVE  /\ IF f \in FiringOf(w) THEN Listed(f) ELSE Gone(f)
               /\ notified'[f] = IF f \in FiringOf(w) THEN "firing" ELSE "resolved"
    <3>1. f \in Alerts /\ Serves(t, f)
      BY <1>p DEF Serves
    <3>2. waiting[thread[t].group] = t
      BY <2>7, <3>1 DEF ThreadInv
    <3>3. At(t, "ok")
      BY <1>4, <2>7, <3>1, <3>2 DEF Answer, Doubted
    <3>4. notified' = Accepted(w)
      BY <1>4, <3>2, <3>3 DEF Answer
    <3>5. IF f \in FiringOf(w) THEN Listed(f) ELSE Gone(f)
      BY <2>7, <3>1, <3>3 DEF SavedInv
    <3> QED BY <3>1, <3>4, <3>5 DEF Accepted
  <2> HIDE DEF w
  <2>8. ASSUME NEW u \in Threads, NEW f \in Alerts, Serves(u, f)', doubt'[f] # "late"
        PROVE  /\ At(u, "open")' \/ At(u, "write")' =>
                      (f \in active' <=> f \in FiringOf(thread'[u].webhook))
               /\ At(u, "ok")' => (IF f \in FiringOf(thread[u].webhook) THEN Listed(f) ELSE Gone(f))'
    <3>1. u # t /\ Serves(u, f) /\ doubt[f] # "late" /\ thread'[u] = thread[u]
      BY <2>1, <2>4, <2>6, <2>8
    <3> QED BY <2>2, <2>3, <3>1 DEF SavedInv
  <2>9. ASSUME NEW f \in Alerts, doubt'[f] = "none", ~Served(f)'
        PROVE  /\ notified'[f] = "firing" => Listed(f)'
               /\ notified'[f] = "resolved" => Gone(f)'
    <3>1. CASE f \in AlertsOf(w)
      <4>1. doubt[f] # "late"
        BY <2>4, <2>9
      <4> QED BY <2>3, <2>7, <2>9, <3>1, <4>1
    <3>2. CASE f \notin AlertsOf(w)
      <4>1. ~Served(f)
        BY <2>6, <2>9, <3>2 DEF Served, Serves, w
      <4> QED BY <2>3, <2>5, <2>9, <3>2, <4>1 DEF SavedInv
    <3> QED BY <3>1, <3>2
  <2> QED BY <2>8, <2>9 DEF SavedInv
<1>5. ASSUME NEW f \in Alerts, Fire(f) \/ Resolve(f) PROVE SavedInv'
  BY <1>5 DEF Fire, Resolve, memory, SavedInv, Listed, Gone, Serves, Served
<1>6. ASSUME NEW g \in groups, TimeOut(g) PROVE SavedInv'
  <2>1. UNCHANGED <<thread, file, active, notified>>
    BY <1>6 DEF TimeOut, memory
  <2>2. \A f \in Alerts : doubt'[f] = "late" \/ doubt'[f] = doubt[f]
    BY <1>6 DEF TimeOut, Doubted
  <2> QED BY <2>1, <2>2 DEF SavedInv, Listed, Gone, Serves, Served
<1>7. ASSUME NEW g \in groups, Notify(g) PROVE SavedInv'
  <2>0. PICK told \in SUBSET g : \E order \in SetToSeqs(told), t \in Threads :
            /\ waiting[g] = 0 /\ At(t, "idle")
            /\ thread' = [thread EXCEPT ![t] =
                   [at |-> "lock", group |-> g, webhook |-> Webhook(order)]]
            /\ waiting' = [waiting EXCEPT ![g] = t]
    BY <1>7, NotifyParts, Zenon
  <2>1. PICK order \in SetToSeqs(told), t \in Threads :
            /\ At(t, "idle")
            /\ thread' = [thread EXCEPT ![t] =
                   [at |-> "lock", group |-> g, webhook |-> Webhook(order)]]
    BY <2>0
  <2>2. UNCHANGED <<doubt, notified, file, active>>
    BY <1>7 DEF Notify, memory
  <2>3. \A u \in Threads :
            /\ u = t => thread'[u].at = "lock"
            /\ u # t => thread'[u] = thread[u]
    BY <2>1
  <2>4. \A u \in Threads : \A f : Serves(u, f) => u # t /\ Serves(u, f)'
    BY <2>1, <2>3, NoWebhook DEF ThreadInv, Serves
  <2>5. ASSUME NEW u \in Threads, NEW f \in Alerts, Serves(u, f)', doubt'[f] # "late"
        PROVE  /\ At(u, "open")' \/ At(u, "write")' =>
                      (f \in active' <=> f \in FiringOf(thread'[u].webhook))
               /\ At(u, "ok")' => (IF f \in FiringOf(thread[u].webhook) THEN Listed(f) ELSE Gone(f))'
    <3>1. CASE u = t
      BY <2>3, <3>1
    <3>2. CASE u # t
      BY <2>2, <2>3, <2>5, <3>2 DEF SavedInv, Listed, Gone, Serves
    <3> QED BY <3>1, <3>2
  <2>6. ASSUME NEW f \in Alerts, doubt'[f] = "none", ~Served(f)'
        PROVE  /\ notified'[f] = "firing" => Listed(f)'
               /\ notified'[f] = "resolved" => Gone(f)'
    <3>1. ~Served(f)
      BY <2>4, <2>6 DEF Served
    <3> QED BY <2>2, <2>6, <3>1 DEF SavedInv, Listed, Gone
  <2> QED BY <2>5, <2>6 DEF SavedInv
<1>8. CASE Crash
  <2>1. \A u \in Threads : thread'[u].at = "idle"
    BY <1>8 DEF Crash, Restart, Free
  <2>2. UNCHANGED <<file, notified>> /\ active' = file.active
    BY <1>8 DEF Crash, Restart
  <2>3. \A f \in Alerts : doubt'[f] = "none" =>
            doubt[f] = "none" /\ ~Served(f) /\ file.is = "whole"
    BY <1>8 DEF Crash
  <2> QED BY <2>1, <2>2, <2>3 DEF SavedInv, Listed, Gone
<1>9. CASE UNCHANGED vars
  BY <1>9 DEF vars, memory, managerVars, SavedInv, Listed, Gone, Serves, Served
<1> QED BY <1>1, <1>2, <1>3, <1>4, <1>5, <1>6, <1>7, <1>8, <1>9 DEF Next, Serve

-----------------------------------------------------------------------------

\* The inductive invariant holds in every reachable state.
LEMMA Invariance == Spec => []IInv
<1>1. ASSUME IInv, [Next]_vars PROVE IInv'
  BY <1>1, TypeNext, DecidesNext, ThreadNext, SavedNext DEF IInv
<1> QED BY <1>1, InvInit, PTL DEF Spec

\* Every variable keeps its type; the history stays within its limit (alerts.py,
\* max_history).
THEOREM TypeCorrect == Spec => []TypeOK
<1>1. IInv => TypeOK
  BY DEF IInv
<1> QED BY <1>1, Invariance, PTL

\* The list of active alerts and the history never contradict each other, over
\* concurrent webhooks of several alerts, failed writes and restarts from torn files.
THEOREM ListMatchesHistory == Spec => []NewestEntryDecides
<1>1. IInv => NewestEntryDecides
  BY DEF IInv
<1> QED BY <1>1, Invariance, PTL

\* A webhook that was answered as accepted is in a file that is whole, until the next
\* report of the same alert (record_webhook, _persist).
THEOREM AcceptedSaved == Spec => []AcceptedIsSaved
<1>1. IInv => AcceptedIsSaved
  BY DEF IInv, SavedInv, AcceptedIsSaved, Listed, Gone
<1> QED BY <1>1, Invariance, PTL
=============================================================================
