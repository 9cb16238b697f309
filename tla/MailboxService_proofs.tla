------------------------ MODULE MailboxService_proofs ------------------------
(***************************************************************************)
(* Theorems about the mailbox service over SQLite, for every set of        *)
(* mailboxes, messages and readers: its invariants, and that it implements *)
(* the abstract mailbox.                                                   *)
(***************************************************************************)
EXTENDS MailboxService, SequenceTheorems, TLAPS

\* A function on 1..m is a sequence of length m.
LEMMA FunctionIsSeq ==
  ASSUME NEW S, NEW m \in Nat, NEW f \in [1..m -> S]
  PROVE  f \in Seq(S) /\ Len(f) = m
<1>1. f \in Seq(S)
  BY SeqDef, Zenon
<1>2. Len(f) \in Nat /\ DOMAIN f = 1..Len(f) /\ DOMAIN f = 1..m
  BY <1>1, LenProperties
<1> QED BY <1>1, <1>2

\* Delivering a row changes its status only (state.py, dequeue_mailbox_message).
LEMMA DeliverRow ==
  ASSUME TypeOK, NEW i \in DOMAIN table,
         table' = [table EXCEPT ![i].status = "delivered"]
  PROVE  /\ table' \in Seq(TableRows) /\ Len(table') = Len(table)
         /\ DOMAIN table' = DOMAIN table
         /\ \A j \in DOMAIN table :
                /\ table'[j].id = table[j].id /\ table'[j].to = table[j].to
                /\ table'[j].status = IF j = i THEN "delivered" ELSE table[j].status
<1>1. table[i] \in TableRows
  BY DEF TypeOK
<1> USE DEF TypeOK, TableRows, Statuses
<1>2. [table[i] EXCEPT !.status = "delivered"] \in TableRows
  BY <1>1
<1>3. table' = [table EXCEPT ![i] = [table[i] EXCEPT !.status = "delivered"]]
  OBVIOUS
<1>4. table' \in Seq(TableRows) /\ Len(table') = Len(table) /\ DOMAIN table' = DOMAIN table
  BY <1>2, <1>3
<1> QED BY <1>1, <1>3, <1>4

\* Accepting a message leaves the earlier rows alone (enqueue_mailbox_message).
LEMMA AppendRow ==
  ASSUME TypeOK, NEW new \in TableRows, table' = Append(table, new)
  PROVE  /\ table' \in Seq(TableRows) /\ Len(table') = Len(table) + 1
         /\ DOMAIN table' = DOMAIN table \union {Len(table) + 1}
         /\ \A j \in DOMAIN table : table'[j] = table[j] /\ j < Len(table) + 1
         /\ table'[Len(table) + 1] = new
BY DEF TypeOK

\* What has been sent grows at its end (health.py, do_GET).
LEMMA SendRow ==
  ASSUME TypeOK, NEW i \in Nat, received' = Append(received, i)
  PROVE  /\ received' \in Seq(Nat)
         /\ DOMAIN received' = DOMAIN received \union {Len(received) + 1}
         /\ \A k \in DOMAIN received : received'[k] = received[k] /\ k # Len(received) + 1
         /\ received'[Len(received) + 1] = i
         /\ Range(received') = Range(received) \union {i}
<1>1. /\ received' \in Seq(Nat)
      /\ DOMAIN received' = DOMAIN received \union {Len(received) + 1}
      /\ \A k \in DOMAIN received : received'[k] = received[k] /\ k # Len(received) + 1
      /\ received'[Len(received) + 1] = i
  BY DEF TypeOK
<1> QED BY <1>1 DEF Range

\* The service starts with an empty table in the invariant.
LEMMA InvInit == Init => IInv
BY MailboxAssumption DEF Init, IInv, TypeOK, LockInv, RowInv, SentInv, HandedOnce, InOrder,
   TableRows, Points

\* Every step keeps the types.
LEMMA TypeNext == ASSUME IInv, [Next]_vars PROVE TypeOK'
<1> USE MailboxAssumption DEF IInv
<1>1. ASSUME NEW id \in Ids, NEW b \in Boxes, Put(id, b) PROVE TypeOK'
  <2>1. [id |-> id, to |-> b, status |-> "queued"] \in TableRows
    BY DEF TableRows, Statuses
  <2>2. table' \in Seq(TableRows) /\ Len(table') = Len(table) + 1
    BY <1>1, <2>1, AppendRow DEF Put
  <2> QED BY <1>1, <2>2 DEF Put, TypeOK
<1>2. ASSUME NEW r \in Readers, Step(r) PROVE TypeOK'
  <2>1. CASE Get(r) \/ BeginImmediate(r) \/ SelectNothing(r)
    BY <2>1 DEF TypeOK, Get, BeginImmediate, SelectNothing, Points
  <2>5. CASE Fail(r)
    BY <2>5 DEF TypeOK, Fail, Points
  <2>2. CASE SelectOldest(r)
    BY <2>2 DEF TypeOK, SelectOldest, Queued, Points
  <2>3. CASE Commit(r)
    <3>1. row[r] \in DOMAIN table
      BY <2>3 DEF Commit, RowInv, Queued
    <3>2. table' \in Seq(TableRows) /\ Len(table') = Len(table)
      BY <2>3, <3>1, DeliverRow DEF Commit
    <3> QED BY <2>3, <3>2 DEF Commit, TypeOK, Points
  <2>4. CASE Answer(r)
    <3>1. received' \in Seq(Nat)
      BY <2>4, SendRow DEF Answer, TypeOK
    <3> QED BY <2>4, <3>1 DEF Answer, TypeOK, Points
  <2> QED BY <1>2, <2>1, <2>2, <2>3, <2>4, <2>5 DEF Step
<1>3. CASE Crash
  BY <1>3 DEF Crash, TypeOK, Points
<1>4. CASE UNCHANGED vars
  BY <1>4 DEF vars, TypeOK
<1> QED BY <1>1, <1>2, <1>3, <1>4 DEF Next

\* At most one reader is inside its transaction (BEGIN IMMEDIATE).
LEMMA LockNext == ASSUME IInv, [Next]_vars PROVE LockInv'
<1> USE DEF IInv, TypeOK, LockInv
<1>1. ASSUME NEW r \in Readers, Step(r) PROVE LockInv'
  BY <1>1 DEF Step, Get, BeginImmediate, Fail, SelectOldest, SelectNothing, Commit, Answer
<1>2. ASSUME NEW id \in Ids, NEW b \in Boxes, Put(id, b) PROVE LockInv'
  BY <1>2 DEF Put
<1>3. CASE Crash
  BY <1>3 DEF Crash
<1>4. CASE UNCHANGED vars
  BY <1>4 DEF vars
<1> QED BY <1>1, <1>2, <1>3, <1>4 DEF Next

\* The rows a reader holds, and the rows sent, stay what they are: only the holder
\* of the lock marks a row, and only its own (get_mailbox_message).
LEMMA RowNext == ASSUME IInv, [Next]_vars PROVE RowInv' /\ SentInv' /\ HandedOnce' /\ InOrder'
<1> USE DEF IInv
<1>0. ASSUME UNCHANGED <<table, received>>,
             \A q \in Readers : at'[q] \in {"mark", "answer"} =>
                 at'[q] = at[q] /\ row'[q] = row[q]
      PROVE  RowInv' /\ SentInv' /\ HandedOnce' /\ InOrder'
  <2>1. \A b \in Boxes : Queued(b)' = Queued(b)
    BY <1>0 DEF Queued
  <2>2. RowInv'
    BY <1>0, <2>1, MailboxAssumption DEF RowInv
  <2>3. SentInv' /\ HandedOnce' /\ InOrder'
    BY <1>0 DEF SentInv, HandedOnce, InOrder
  <2> QED BY <2>2, <2>3
<1>1. ASSUME NEW id \in Ids, NEW b \in Boxes, Put(id, b)
      PROVE  RowInv' /\ SentInv' /\ HandedOnce' /\ InOrder'
  <2> DEFINE new == [id |-> id, to |-> b, status |-> "queued"]
  <2>1. new \in TableRows
    BY DEF TableRows, Statuses
  <2>2. /\ DOMAIN table' = DOMAIN table \union {Len(table) + 1}
        /\ \A j \in DOMAIN table : table'[j] = table[j] /\ j < Len(table) + 1
        /\ table'[Len(table) + 1] = new
    BY <1>1, <2>1, AppendRow DEF Put
  <2>3. UNCHANGED <<at, row, received>> /\ \A r \in Readers : at[r] # "mark"
    BY <1>1 DEF Put, LockInv
  <2>4. RowInv'
    BY <2>2, <2>3 DEF RowInv
  <2>5. SentInv' /\ HandedOnce'
    BY <2>2, <2>3 DEF SentInv, HandedOnce
  <2>6. InOrder'
    <3> SUFFICES ASSUME NEW i \in DOMAIN table', NEW j \in DOMAIN table',
                        i < j, table'[i].to = table'[j].to, table'[j].status = "delivered"
                 PROVE  table'[i].status = "delivered"
      BY DEF InOrder
    <3>1. j # Len(table) + 1
      BY <2>2
    <3>2. j \in DOMAIN table /\ table'[j] = table[j] /\ j < Len(table) + 1
      BY <2>2, <3>1
    <3>3. i # Len(table) + 1
      BY <3>2 DEF TypeOK
    <3>4. i \in DOMAIN table /\ table'[i] = table[i]
      BY <2>2, <3>3
    <3> QED BY <3>2, <3>4 DEF InOrder
  <2> QED BY <2>4, <2>5, <2>6
<1>2. ASSUME NEW r \in Readers,
             Get(r) \/ BeginImmediate(r) \/ Fail(r) \/ SelectNothing(r)
      PROVE  RowInv' /\ SentInv' /\ HandedOnce' /\ InOrder'
  <2>1. UNCHANGED <<table, received>>
    BY <1>2 DEF Get, BeginImmediate, Fail, SelectNothing
  <2>2. \A q \in Readers : at'[q] \in {"mark", "answer"} => at'[q] = at[q] /\ row'[q] = row[q]
    BY <1>2 DEF Get, BeginImmediate, Fail, SelectNothing, TypeOK
  <2> QED BY <1>0, <2>1, <2>2
<1>3. ASSUME NEW r \in Readers, SelectOldest(r)
      PROVE  RowInv' /\ SentInv' /\ HandedOnce' /\ InOrder'
  <2>1. UNCHANGED <<table, received>> /\ \A b \in Boxes : Queued(b)' = Queued(b)
    BY <1>3 DEF SelectOldest, Queued
  <2>2. /\ at'[r] = "mark" /\ row'[r] \in Queued(BoxOf[r])
        /\ \A j \in Queued(BoxOf[r]) : row'[r] <= j
        /\ \A q \in Readers \ {r} : at'[q] = at[q] /\ row'[q] = row[q]
    BY <1>3 DEF SelectOldest, TypeOK
  <2>3. RowInv'
    BY <2>1, <2>2, MailboxAssumption DEF RowInv
  <2>4. SentInv' /\ HandedOnce' /\ InOrder'
    BY <2>1 DEF SentInv, HandedOnce, InOrder
  <2> QED BY <2>3, <2>4
<1>4. ASSUME NEW r \in Readers, Commit(r)
      PROVE  RowInv' /\ SentInv' /\ HandedOnce' /\ InOrder'
  <2>1. /\ row[r] \in DOMAIN table /\ table[row[r]].to = BoxOf[r]
        /\ table[row[r]].status = "queued"
        /\ \A j \in Queued(BoxOf[r]) : row[r] <= j
    BY <1>4 DEF Commit, RowInv, Queued
  <2>2. /\ DOMAIN table' = DOMAIN table
        /\ \A j \in DOMAIN table :
               /\ table'[j].to = table[j].to
               /\ table'[j].status = IF j = row[r] THEN "delivered" ELSE table[j].status
    BY <1>4, <2>1, DeliverRow DEF Commit
  <2>3. /\ UNCHANGED <<row, received>> /\ at'[r] = "answer"
        /\ \A q \in Readers \ {r} : at'[q] = at[q] /\ at[q] # "mark"
    BY <1>4 DEF Commit, TypeOK, LockInv
  <2>4. row[r] \notin Range(received)
    BY <2>1 DEF SentInv, Range
  <2>5. RowInv'
    BY <2>1, <2>2, <2>3, <2>4 DEF RowInv
  <2>6. SentInv' /\ HandedOnce'
    BY <2>2, <2>3 DEF SentInv, HandedOnce
  <2>7. InOrder'
    <3> SUFFICES ASSUME NEW i \in DOMAIN table, NEW j \in DOMAIN table,
                        i < j, table[i].to = table[j].to, table'[j].status = "delivered"
                 PROVE  table'[i].status = "delivered"
      BY <2>2 DEF InOrder
    <3>1. CASE j = row[r]
      <4>1. i \notin Queued(BoxOf[r])
        BY <2>1, <3>1 DEF TypeOK
      <4>2. table[i].status # "queued"
        BY <2>1, <3>1, <4>1 DEF Queued
      <4>3. table[i] \in TableRows
        BY DEF TypeOK
      <4> QED BY <2>1, <2>2, <3>1, <4>2, <4>3 DEF TableRows, Statuses
    <3>2. CASE j # row[r]
      BY <2>2, <3>2 DEF InOrder
    <3> QED BY <3>1, <3>2
  <2> QED BY <2>5, <2>6, <2>7
<1>5. ASSUME NEW r \in Readers, Answer(r)
      PROVE  RowInv' /\ SentInv' /\ HandedOnce' /\ InOrder'
  <2>1. CASE UNCHANGED received
    <3>1. \A q \in Readers : at'[q] \in {"mark", "answer"} =>
              at'[q] = at[q] /\ row'[q] = row[q]
      BY <1>5 DEF Answer, TypeOK
    <3> QED BY <1>0, <1>5, <2>1, <3>1 DEF Answer
  <2>2. CASE received' = Append(received, row[r])
    <3>1. /\ row[r] \in Nat /\ row[r] \in DOMAIN table
          /\ table[row[r]].status = "delivered" /\ row[r] \notin Range(received)
          /\ \A q \in Readers \ {r} : at[q] = "answer" => row[q] # row[r]
      BY <1>5 DEF Answer, RowInv, TypeOK
    <3>2. /\ DOMAIN received' = DOMAIN received \union {Len(received) + 1}
          /\ \A k \in DOMAIN received : received'[k] = received[k] /\ k # Len(received) + 1
          /\ received'[Len(received) + 1] = row[r]
          /\ Range(received') = Range(received) \union {row[r]}
      BY <2>2, <3>1, SendRow
    <3>3. /\ UNCHANGED table /\ at'[r] = "idle"
          /\ \A q \in Readers \ {r} : at'[q] = at[q] /\ row'[q] = row[q]
          /\ \A b \in Boxes : Queued(b)' = Queued(b)
      BY <1>5 DEF Answer, TypeOK, Queued
    <3>4. RowInv'
      BY <3>1, <3>2, <3>3, MailboxAssumption DEF RowInv
    <3>5. SentInv'
      BY <3>1, <3>2, <3>3 DEF SentInv
    <3>6. HandedOnce'
      BY <3>1, <3>2 DEF HandedOnce, Range
    <3>7. InOrder'
      BY <3>3 DEF InOrder
    <3> QED BY <3>4, <3>5, <3>6, <3>7
  <2> QED BY <1>5, <2>1, <2>2 DEF Answer
<1>6. CASE Crash
  <2>1. UNCHANGED <<table, received>> /\ \A q \in Readers : at'[q] = "idle"
    BY <1>6 DEF Crash
  <2> QED BY <1>0, <2>1
<1>7. CASE UNCHANGED vars
  BY <1>0, <1>7 DEF vars
<1> QED BY <1>1, <1>2, <1>3, <1>4, <1>5, <1>6, <1>7 DEF Next, Step

\* The inductive invariant holds in every reachable state: TypeOK bounds the rows
\* and requests, LockInv excludes two transactions at once, RowInv carries what a
\* reader learnt inside its transaction to its answer, SentInv ties what was sent
\* to the table.
THEOREM Invariance == Spec => []IInv
<1>1. IInv /\ [Next]_vars => IInv'
  BY TypeNext, LockNext, RowNext DEF IInv
<1> QED BY <1>1, InvInit, PTL DEF Spec

\* The variables of the mailbox service keep their types (state.py, the schema of
\* mailbox_messages).
THEOREM TypeCorrect == Spec => []TypeOK
BY Invariance, PTL DEF IInv

\* No message is handed out twice, however many readers poll one mailbox at once
\* (dequeue_mailbox_message).
THEOREM HandedOnceAlways == Spec => []HandedOnce
BY Invariance, PTL DEF IInv

\* A mailbox is always emptied from its front (dequeue_mailbox_message).
THEOREM InOrderAlways == Spec => []InOrder
BY Invariance, PTL DEF IInv

-----------------------------------------------------------------------------
(* The refinement.  Put is Accept, Commit is Take and an answer that       *)
(* arrives is Receive; every other step leaves the view unchanged.         *)

View == [i \in DOMAIN table |-> [id |-> table[i].id, to |-> table[i].to]]
TakenRows == {i \in DOMAIN table : table[i].status = "delivered"}

\* A step that leaves the table and what was sent alone is a stutter.
LEMMA StutterStep ==
  ASSUME UNCHANGED <<table, received>> PROVE [Abstract!Next]_(Abstract!vars)
BY DEF Abstract!vars

\* An accepted PUT accepts a message (put_mailbox_message).
LEMMA PutStep ==
  ASSUME IInv, NEW id \in Ids, NEW b \in Boxes, Put(id, b)
  PROVE  Abstract!Accept(id, b)
<1> DEFINE new == [id |-> id, to |-> b, status |-> "queued"]
<1>1. new \in TableRows
  BY DEF TableRows, Statuses
<1>2. /\ table' \in Seq(TableRows) /\ Len(table') = Len(table) + 1
      /\ DOMAIN table' = DOMAIN table \union {Len(table) + 1}
      /\ \A j \in DOMAIN table : table'[j] = table[j] /\ j < Len(table) + 1
      /\ table'[Len(table) + 1] = new
  BY <1>1, AppendRow DEF Put, IInv
<1>3. \A i \in DOMAIN View : View[i].id # id
  BY DEF Put, View
<1>4. View' = Append(View, [id |-> id, to |-> b])
  <2> DEFINE Pairs == [id : Ids, to : Boxes]
             n == Len(table)
  <2>0. /\ n \in Nat /\ DOMAIN table = 1..n /\ DOMAIN table' = 1..(n + 1)
        /\ \A i \in 1..n : table[i] \in TableRows
        /\ \A i \in 1..(n + 1) : table'[i] \in TableRows
    BY <1>1, <1>2 DEF IInv, TypeOK
  <2> HIDE DEF n
  <2>1. View \in Seq(Pairs) /\ Len(View) = n
    <3>1. View \in [1..n -> Pairs]
      BY <2>0 DEF View, TableRows
    <3> QED BY <2>0, <3>1, FunctionIsSeq
  <2>2. View' \in Seq(Pairs) /\ Len(View') = n + 1
    <3>1. View' \in [1..(n + 1) -> Pairs]
      BY <2>0 DEF View, TableRows
    <3> HIDE DEF Pairs
    <3> QED BY <2>0, <3>1, FunctionIsSeq
  <2>3. \A i \in 1..(n + 1) : View'[i] = Append(View, [id |-> id, to |-> b])[i]
    BY <1>2, <2>0, <2>1 DEF View, n
  <2>4. Append(View, [id |-> id, to |-> b]) \in Seq(Pairs)
        /\ Len(Append(View, [id |-> id, to |-> b])) = n + 1
    BY <2>0, <2>1
  <2> QED BY <2>0, <2>2, <2>3, <2>4
<1>5. TakenRows' = TakenRows
  BY <1>2 DEF TakenRows
<1> QED BY <1>3, <1>4, <1>5 DEF Abstract!Accept, View, TakenRows, Put

\* A committed GET takes the oldest message of its mailbox (get_mailbox_message).
LEMMA CommitStep ==
  ASSUME IInv, NEW r \in Readers, Commit(r) PROVE Abstract!Next
<1>1. /\ row[r] \in DOMAIN table /\ table[row[r]].to = BoxOf[r]
      /\ table[row[r]].status = "queued"
      /\ \A j \in Queued(BoxOf[r]) : row[r] <= j
  BY DEF Commit, IInv, RowInv, Queued
<1>2. /\ DOMAIN table' = DOMAIN table
      /\ \A j \in DOMAIN table :
             /\ table'[j].id = table[j].id /\ table'[j].to = table[j].to
             /\ table'[j].status = IF j = row[r] THEN "delivered" ELSE table[j].status
  BY <1>1, DeliverRow DEF Commit, IInv
<1>3. View' = View
  BY <1>2 DEF View
<1>4. TakenRows' = TakenRows \union {row[r]}
  BY <1>1, <1>2 DEF TakenRows
<1>5. row[r] \notin TakenRows
  BY <1>1 DEF TakenRows
<1>6. ASSUME NEW j \in 1..(row[r] - 1), View[j].to = View[row[r]].to
      PROVE  j \in TakenRows
  <2>1. j \in DOMAIN table /\ ~(row[r] <= j)
    BY <1>1 DEF IInv, TypeOK
  <2>2. table[j].to = BoxOf[r] /\ table[j] \in TableRows
    BY <1>1, <1>6, <2>1 DEF View, IInv, TypeOK
  <2>3. j \notin Queued(BoxOf[r])
    BY <1>1, <2>1
  <2> QED BY <2>1, <2>2, <2>3 DEF Queued, TakenRows, TableRows, Statuses
<1>7. PICK k \in DOMAIN View : k = row[r]
  BY <1>1 DEF View
<1>8. Abstract!Take(k)
  BY <1>3, <1>4, <1>5, <1>6, <1>7 DEF Abstract!Take, View, TakenRows, Commit
<1> QED BY <1>7, <1>8 DEF Abstract!Next, View

\* An answer that arrives is received once (do_GET, the answer after the commit).
LEMMA AnswerStep ==
  ASSUME IInv, NEW r \in Readers, Answer(r) PROVE [Abstract!Next]_(Abstract!vars)
<1>1. CASE UNCHANGED received
  BY <1>1, StutterStep DEF Answer
<1>2. CASE received' = Append(received, row[r])
  <2>1. row[r] \in DOMAIN table /\ row[r] \in TakenRows /\ row[r] \notin Range(received)
    BY DEF Answer, IInv, RowInv, TakenRows
  <2>2. Abstract!Receive(row[r])
    BY <1>2, <2>1 DEF Abstract!Receive, Abstract!Range, Range, TakenRows, Answer
  <2>3. row[r] \in DOMAIN View
    BY <2>1 DEF View
  <2> QED BY <2>2, <2>3 DEF Abstract!Next, View
<1> QED BY <1>1, <1>2 DEF Answer

\* Every step of the service is a step of the mailbox, or a stutter.
LEMMA RefinementStep ==
  ASSUME IInv, [Next]_vars PROVE [Abstract!Next]_(Abstract!vars)
<1>1. ASSUME NEW id \in Ids, NEW b \in Boxes, Put(id, b)
      PROVE  [Abstract!Next]_(Abstract!vars)
  BY <1>1, PutStep DEF Abstract!Next
<1>2. ASSUME NEW r \in Readers, Step(r) PROVE [Abstract!Next]_(Abstract!vars)
  <2>1. CASE Commit(r)
    BY <2>1, CommitStep
  <2>2. CASE Answer(r)
    BY <2>2, AnswerStep
  <2>3. CASE ~Commit(r) /\ ~Answer(r)
    BY <1>2, <2>3, StutterStep
       DEF Step, Get, BeginImmediate, Fail, SelectOldest, SelectNothing
  <2> QED BY <2>1, <2>2, <2>3
<1>3. CASE Crash
  BY <1>3, StutterStep DEF Crash
<1>4. CASE UNCHANGED vars
  BY <1>4, StutterStep DEF vars
<1> QED BY <1>1, <1>2, <1>3, <1>4 DEF Next

\* The mailbox service over SQLite implements the mailbox: every behaviour, with
\* concurrent polls, failing statements, crashes and lost answers, is one the
\* abstract specification allows.
THEOREM Implementation == Spec => ImplementsMailbox
<1>1. Init => Abstract!Init
  BY DEF Init, Abstract!Init
<1>2. IInv /\ [Next]_vars => [Abstract!Next]_(Abstract!vars)
  BY RefinementStep
<1> QED BY <1>1, <1>2, Invariance, PTL DEF Spec, ImplementsMailbox, Abstract!Spec
=============================================================================
