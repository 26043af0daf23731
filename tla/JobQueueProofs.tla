--------------------------- MODULE JobQueueProofs ---------------------------
(***************************************************************************)
(* Proofs about JobQueue, for any set of tasks and entities and any number *)
(* of faults.                                                              *)
(***************************************************************************)
EXTENDS JobQueue, FiniteSetTheorems, TLAPS

\* Tasks that were never handed in have left no trace.
FreshTasks ==
  \A t \in Tasks : target[t] = NoEntity =>
    rowid[t] = 0 /\ task_copy[t] = "absent" /\ t # workTask /\ t # apiTask

\* What the API handler in progress knows about its task and about the rows
\* it read: a task still in the table has the key it had when it was read.
ApiInv ==
  /\ apiPc = "idle" => apiTask = NoTask /\ apiTodo = {}
  /\ apiPc = "clearing" => \A u \in queue : rowid[u] \in apiRows
  /\ apiPc \in {"delivered", "signalled"} =>
       apiTask \in Tasks /\ rowid[apiTask] = 0 /\ apiTask # workTask
  /\ apiPc = "delivered" => task_copy[apiTask] = "absent"
  /\ apiPc = "signalled" => task_copy[apiTask] = "not_started"
  /\ apiPc \in {"cancelRead", "cancelMarked"} =>
       /\ apiTask \in Tasks
       /\ \A u \in queue : rowid[u] \in apiRows <=> u = apiTask
  /\ apiPc = "cancelRead" /\ apiTask \in queue => apiTodo # {}
  /\ apiTodo \subseteq Issued
  /\ 0 \notin apiRows

WorkInv == workTask = NoTask <=> workPc \in {"idle", "down"}

\* Keys of waiting tasks tell them apart.
KeysDiffer == \A t, u \in queue : rowid[t] = rowid[u] => t = u

\* The row of the task in hand, unless it was deleted.
HandInv ==
  workTask # NoTask =>
    task_copy[workTask] \in
      {"absent", IF workPc = "dequeued" THEN "not_started" ELSE "started"}

IInv ==
  TypeOK /\ FreshTasks /\ ApiInv /\ WorkInv /\ KeysDiffer /\ QueuedShown /\ HandInv

\* A cancel that has marked its job leaves no delivered entity behind it.
CancelInv ==
  faults = 0 =>
    /\ apiPc = "cancelMarked" => status[target[apiTask]] # "DELIVERED"
    /\ apiPc = "clearing" =>
         \A u \in queue \ apiTodo : status[target[u]] # "DELIVERED"

\* RowAgreesWithEntity one step earlier, before the signal is written.
OutcomeInv ==
  \A t \in Issued : Sole(t) /\ t = workTask =>
    LET s == status[target[t]] IN
    /\ workPc = "done" => s \in {"FINISHED", "ABSENT", "ERROR"}
    /\ workPc = "done" /\ s = "ERROR" =>
         \/ apiPc = "clearing"
         \/ apiPc = "cancelMarked" /\ apiTask = t
         \/ task_copy[t] = "absent"
         \/ faults > 0
    /\ workPc = "failed" /\ target[t] \in Careful => s \in {"ERROR", "ABSENT"}

-----------------------------------------------------------------------------
\* Initially every variable has its type.
LEMMA TypeCorrectInit == Init => TypeOK
BY JobQueueAssumption DEF Init, TypeOK, RowStatus, EntityStatus, ApiPcs, WorkPcs

\* One step keeps the types.
LEMMA TypeStep == TypeOK /\ [Next]_vars => TypeOK'
<1> SUFFICES ASSUME TypeOK, [Next]_vars PROVE TypeOK'
  OBVIOUS
<1> USE JobQueueAssumption
    DEF TypeOK, RowStatus, EntityStatus, ApiPcs, WorkPcs, apiVars, workVars, queue,
        Issued, Fault, ApiIdle, UpdateRow, SetStatus, DeleteRows
<1>1. ASSUME NEW t \in Tasks, NEW e \in Entities, EnqueueDeliver(t, e) PROVE TypeOK'
  BY <1>1 DEF EnqueueDeliver
<1>2. ASSUME SignalEnqueued PROVE TypeOK'
  BY <1>2 DEF SignalEnqueued
<1>3. ASSUME StorageEnqueue PROVE TypeOK'
  <2>1. PICK n \in {1} \cup {rowid[u] + 1 : u \in queue} :
               rowid' = [rowid EXCEPT ![apiTask] = n]
    BY <1>3 DEF StorageEnqueue
  <2>2. n \in Nat
    BY <2>1
  <2>3. rowid' \in [Tasks -> Nat]
    BY <2>1, <2>2
  <2> QED
    BY <1>3, <2>3 DEF StorageEnqueue
<1>4. ASSUME PutFails PROVE TypeOK'
  BY <1>4 DEF PutFails
<1>5. ASSUME NEW t \in Tasks, CancelRead(t) PROVE TypeOK'
  BY <1>5 DEF CancelRead
<1>6. ASSUME CancelMark PROVE TypeOK'
  BY <1>6 DEF CancelMark
<1>7. ASSUME CancelCommit PROVE TypeOK'
  BY <1>7 DEF CancelCommit
<1>8. ASSUME ClearRead PROVE TypeOK'
  BY <1>8 DEF ClearRead
<1>9. ASSUME NEW u \in Tasks, ClearMark(u) PROVE TypeOK'
  BY <1>9 DEF ClearMark
<1>10. ASSUME ClearCommit PROVE TypeOK'
  BY <1>10 DEF ClearCommit
<1>11. ASSUME NEW e \in Entities, DeleteEntity(e) PROVE TypeOK'
  BY <1>11 DEF DeleteEntity
<1>12. ASSUME ApiCrash PROVE TypeOK'
  BY <1>12 DEF ApiCrash
<1>13. ASSUME NEW t \in Tasks, Dequeue(t) PROVE TypeOK'
  BY <1>13 DEF Dequeue
<1>14. ASSUME SignalExecuting PROVE TypeOK'
  BY <1>14 DEF SignalExecuting
<1>15. ASSUME RunStart PROVE TypeOK'
  BY <1>15 DEF RunStart
<1>16. ASSUME RunFinish PROVE TypeOK'
  BY <1>16 DEF RunFinish
<1>17. ASSUME RunRaises PROVE TypeOK'
  BY <1>17 DEF RunRaises
<1>18. ASSUME SignalComplete PROVE TypeOK'
  BY <1>18 DEF SignalComplete
<1>19. ASSUME SignalError PROVE TypeOK'
  BY <1>19 DEF SignalError
<1>20. ASSUME WorkerCrash PROVE TypeOK'
  BY <1>20 DEF WorkerCrash
<1>21. ASSUME WorkerRestart PROVE TypeOK'
  BY <1>21 DEF WorkerRestart
<1>22. CASE UNCHANGED vars
  BY <1>22 DEF vars
<1> QED
  BY <1>1, <1>2, <1>3, <1>4, <1>5, <1>6, <1>7, <1>8, <1>9, <1>10, <1>11, <1>12, <1>13, <1>14, <1>15, <1>16, <1>17, <1>18, <1>19, <1>20, <1>21, <1>22
     DEF Next, Requests, ApiStep, WorkStep, Faults

\* Every variable keeps to its type: rows and statuses only ever hold the
\* values the tables' readers know, and keys are natural numbers.
THEOREM TypeCorrect == Spec => []TypeOK
BY TypeCorrectInit, TypeStep, PTL DEF Spec


-----------------------------------------------------------------------------
\* The inductive invariant.
LEMMA Inductive == IInv /\ [Next]_vars => IInv'
<1> SUFFICES ASSUME IInv, [Next]_vars PROVE IInv'
  OBVIOUS
<1> USE JobQueueAssumption
    DEF IInv, TypeOK, FreshTasks, ApiInv, WorkInv, KeysDiffer, QueuedShown, HandInv,
        apiVars, workVars, queue, Issued, ApiIdle, UpdateRow, DeleteRows, ApiPcs, WorkPcs
<1>0. TypeOK'
  BY TypeStep DEF IInv
<1>1. ASSUME NEW t \in Tasks, NEW e \in Entities, EnqueueDeliver(t, e) PROVE IInv'
  BY <1>0, <1>1 DEF EnqueueDeliver
<1>2. ASSUME SignalEnqueued PROVE IInv'
  BY <1>0, <1>2 DEF SignalEnqueued
<1>3. ASSUME StorageEnqueue PROVE IInv'
  BY <1>0, <1>3 DEF StorageEnqueue
<1>4. ASSUME PutFails PROVE IInv'
  BY <1>0, <1>4 DEF PutFails
<1>5. ASSUME NEW t \in Tasks, CancelRead(t) PROVE IInv'
  BY <1>0, <1>5 DEF CancelRead
<1>6. ASSUME CancelMark PROVE IInv'
  BY <1>0, <1>6 DEF CancelMark
<1>7. ASSUME CancelCommit PROVE IInv'
  BY <1>0, <1>7 DEF CancelCommit
<1>8. ASSUME ClearRead PROVE IInv'
  BY <1>0, <1>8 DEF ClearRead
<1>9. ASSUME NEW u \in Tasks, ClearMark(u) PROVE IInv'
  BY <1>0, <1>9 DEF ClearMark
<1>10. ASSUME ClearCommit PROVE IInv'
  BY <1>0, <1>10 DEF ClearCommit
<1>11. ASSUME NEW e \in Entities, DeleteEntity(e) PROVE IInv'
  BY <1>0, <1>11 DEF DeleteEntity
<1>12. ASSUME ApiCrash PROVE IInv'
  BY <1>0, <1>12 DEF ApiCrash
<1>13. ASSUME NEW t \in Tasks, Dequeue(t) PROVE IInv'
  BY <1>0, <1>13 DEF Dequeue
<1>14. ASSUME SignalExecuting PROVE IInv'
  BY <1>0, <1>14 DEF SignalExecuting
<1>15. ASSUME RunStart PROVE IInv'
  BY <1>0, <1>15 DEF RunStart
<1>16. ASSUME RunFinish PROVE IInv'
  BY <1>0, <1>16 DEF RunFinish
<1>17. ASSUME RunRaises PROVE IInv'
  BY <1>0, <1>17 DEF RunRaises
<1>18. ASSUME SignalComplete PROVE IInv'
  BY <1>0, <1>18 DEF SignalComplete
<1>19. ASSUME SignalError PROVE IInv'
  BY <1>0, <1>19 DEF SignalError
<1>20. ASSUME WorkerCrash PROVE IInv'
  BY <1>0, <1>20 DEF WorkerCrash
<1>21. ASSUME WorkerRestart PROVE IInv'
  BY <1>0, <1>21 DEF WorkerRestart
<1>22. CASE UNCHANGED vars
  BY <1>0, <1>22 DEF vars
<1> QED
  BY <1>1, <1>2, <1>3, <1>4, <1>5, <1>6, <1>7, <1>8, <1>9, <1>10, <1>11, <1>12, <1>13, <1>14, <1>15, <1>16, <1>17, <1>18, <1>19, <1>20, <1>21, <1>22
     DEF Next, Requests, ApiStep, WorkStep, Faults

\* The initial state satisfies the inductive invariant.
LEMMA InitInv == Init => IInv
BY JobQueueAssumption, TypeCorrectInit
   DEF Init, IInv, FreshTasks, ApiInv, WorkInv, KeysDiffer, QueuedShown, HandInv, queue, Issued

\* The inductive invariant holds throughout.
LEMMA Invariance == Spec => []IInv
BY InitInv, Inductive, PTL DEF Spec

\* What waits in Huey's table is exactly what task_copy shows as queued.
THEOREM QueuedShownHolds == Spec => []QueuedShown
<1>1. IInv => QueuedShown
  BY DEF IInv
<1> QED
  BY <1>1, Invariance, PTL

\* When is_empty() answers yes, the worker is idle but for the two windows
\* EmptyIsIdle names.
THEOREM EmptyIsIdleHolds == Spec => []EmptyIsIdle
<1>1. IInv => EmptyIsIdle
  BY DEF IInv, TypeOK, HandInv, EmptyIsIdle, IsEmpty
<1> QED
  BY <1>1, Invariance, PTL

-----------------------------------------------------------------------------
\* No step leaves a delivered entity without a task, unless something failed.
LEMMA DeliveredStep ==
  IInv /\ CancelInv /\ DeliveredHasTask /\ [Next]_vars => (CancelInv /\ DeliveredHasTask)'
<1> SUFFICES ASSUME IInv, CancelInv, DeliveredHasTask, [Next]_vars
             PROVE  (CancelInv /\ DeliveredHasTask)'
  OBVIOUS
<1> USE JobQueueAssumption
    DEF IInv, TypeOK, FreshTasks, ApiInv, WorkInv, CancelInv, DeliveredHasTask, Pending, apiVars,
        workVars, queue, Issued, Fault, ApiIdle, SetStatus, DeleteRows, ApiPcs, WorkPcs
<1>1. ASSUME NEW t \in Tasks, NEW e \in Entities, EnqueueDeliver(t, e) PROVE (CancelInv /\ DeliveredHasTask)'
  BY <1>1 DEF EnqueueDeliver
<1>2. ASSUME SignalEnqueued PROVE (CancelInv /\ DeliveredHasTask)'
  BY <1>2 DEF SignalEnqueued
<1>3. ASSUME StorageEnqueue PROVE (CancelInv /\ DeliveredHasTask)'
  BY <1>3 DEF StorageEnqueue
<1>4. ASSUME PutFails PROVE (CancelInv /\ DeliveredHasTask)'
  BY <1>4 DEF PutFails
<1>5. ASSUME NEW t \in Tasks, CancelRead(t) PROVE (CancelInv /\ DeliveredHasTask)'
  BY <1>5 DEF CancelRead
<1>6. ASSUME CancelMark PROVE (CancelInv /\ DeliveredHasTask)'
  BY <1>6 DEF CancelMark
<1>7. ASSUME CancelCommit PROVE (CancelInv /\ DeliveredHasTask)'
  BY <1>7 DEF CancelCommit
<1>8. ASSUME ClearRead PROVE (CancelInv /\ DeliveredHasTask)'
  BY <1>8 DEF ClearRead
<1>9. ASSUME NEW u \in Tasks, ClearMark(u) PROVE (CancelInv /\ DeliveredHasTask)'
  BY <1>9 DEF ClearMark
<1>10. ASSUME ClearCommit PROVE (CancelInv /\ DeliveredHasTask)'
  BY <1>10 DEF ClearCommit
<1>11. ASSUME NEW e \in Entities, DeleteEntity(e) PROVE (CancelInv /\ DeliveredHasTask)'
  BY <1>11 DEF DeleteEntity
<1>12. ASSUME ApiCrash PROVE (CancelInv /\ DeliveredHasTask)'
  BY <1>12 DEF ApiCrash
<1>13. ASSUME NEW t \in Tasks, Dequeue(t) PROVE (CancelInv /\ DeliveredHasTask)'
  BY <1>13 DEF Dequeue
<1>14. ASSUME SignalExecuting PROVE (CancelInv /\ DeliveredHasTask)'
  BY <1>14 DEF SignalExecuting
<1>15. ASSUME RunStart PROVE (CancelInv /\ DeliveredHasTask)'
  BY <1>15 DEF RunStart
<1>16. ASSUME RunFinish PROVE (CancelInv /\ DeliveredHasTask)'
  BY <1>16 DEF RunFinish
<1>17. ASSUME RunRaises PROVE (CancelInv /\ DeliveredHasTask)'
  BY <1>17 DEF RunRaises
<1>18. ASSUME SignalComplete PROVE (CancelInv /\ DeliveredHasTask)'
  BY <1>18 DEF SignalComplete
<1>19. ASSUME SignalError PROVE (CancelInv /\ DeliveredHasTask)'
  BY <1>19 DEF SignalError
<1>20. ASSUME WorkerCrash PROVE (CancelInv /\ DeliveredHasTask)'
  BY <1>20 DEF WorkerCrash
<1>21. ASSUME WorkerRestart PROVE (CancelInv /\ DeliveredHasTask)'
  BY <1>21 DEF WorkerRestart
<1>22. CASE UNCHANGED vars
  BY <1>22 DEF vars
<1> QED
  BY <1>1, <1>2, <1>3, <1>4, <1>5, <1>6, <1>7, <1>8, <1>9, <1>10, <1>11, <1>12, <1>13, <1>14, <1>15, <1>16, <1>17, <1>18, <1>19, <1>20, <1>21, <1>22
     DEF Next, Requests, ApiStep, WorkStep, Faults

\* While nothing fails, no cancel in any order with the consumer leaves a
\* delivered entity without a task on its way.
THEOREM DeliveredHasTaskHolds == Spec => []DeliveredHasTask
<1>1. Init => CancelInv /\ DeliveredHasTask
  BY JobQueueAssumption DEF Init, CancelInv, DeliveredHasTask
<1> QED
  BY <1>1, Invariance, DeliveredStep, PTL DEF Spec

-----------------------------------------------------------------------------
\* No step of a careful job separates its row from its status.
LEMMA AgreeStep ==
  IInv /\ OutcomeInv /\ RowAgreesWithEntity /\ [Next]_vars
    => (OutcomeInv /\ RowAgreesWithEntity)'
<1> SUFFICES ASSUME IInv, OutcomeInv, RowAgreesWithEntity, [Next]_vars
             PROVE  (OutcomeInv /\ RowAgreesWithEntity)'
  OBVIOUS
<1> USE JobQueueAssumption
    DEF IInv, TypeOK, FreshTasks, ApiInv, WorkInv, HandInv, QueuedShown, OutcomeInv,
        RowAgreesWithEntity, Sole, apiVars, workVars, queue, Issued, Fault, ApiIdle,
        UpdateRow, SetStatus, DeleteRows, ApiPcs, WorkPcs
<1>1. ASSUME NEW t \in Tasks, NEW e \in Entities, EnqueueDeliver(t, e) PROVE (OutcomeInv /\ RowAgreesWithEntity)'
  BY <1>1 DEF EnqueueDeliver
<1>2. ASSUME SignalEnqueued PROVE (OutcomeInv /\ RowAgreesWithEntity)'
  BY <1>2 DEF SignalEnqueued
<1>3. ASSUME StorageEnqueue PROVE (OutcomeInv /\ RowAgreesWithEntity)'
  BY <1>3 DEF StorageEnqueue
<1>4. ASSUME PutFails PROVE (OutcomeInv /\ RowAgreesWithEntity)'
  BY <1>4 DEF PutFails
<1>5. ASSUME NEW t \in Tasks, CancelRead(t) PROVE (OutcomeInv /\ RowAgreesWithEntity)'
  BY <1>5 DEF CancelRead
<1>6. ASSUME CancelMark PROVE (OutcomeInv /\ RowAgreesWithEntity)'
  BY <1>6 DEF CancelMark
<1>7. ASSUME CancelCommit PROVE (OutcomeInv /\ RowAgreesWithEntity)'
  BY <1>7 DEF CancelCommit
<1>8. ASSUME ClearRead PROVE (OutcomeInv /\ RowAgreesWithEntity)'
  BY <1>8 DEF ClearRead
<1>9. ASSUME NEW u \in Tasks, ClearMark(u) PROVE (OutcomeInv /\ RowAgreesWithEntity)'
  BY <1>9 DEF ClearMark
<1>10. ASSUME ClearCommit PROVE (OutcomeInv /\ RowAgreesWithEntity)'
  BY <1>10 DEF ClearCommit
<1>11. ASSUME NEW e \in Entities, DeleteEntity(e) PROVE (OutcomeInv /\ RowAgreesWithEntity)'
  BY <1>11 DEF DeleteEntity
<1>12. ASSUME ApiCrash PROVE (OutcomeInv /\ RowAgreesWithEntity)'
  BY <1>12 DEF ApiCrash
<1>13. ASSUME NEW t \in Tasks, Dequeue(t) PROVE (OutcomeInv /\ RowAgreesWithEntity)'
  BY <1>13 DEF Dequeue
<1>14. ASSUME SignalExecuting PROVE (OutcomeInv /\ RowAgreesWithEntity)'
  BY <1>14 DEF SignalExecuting
<1>15. ASSUME RunStart PROVE (OutcomeInv /\ RowAgreesWithEntity)'
  BY <1>15 DEF RunStart
<1>16. ASSUME RunFinish PROVE (OutcomeInv /\ RowAgreesWithEntity)'
  BY <1>16 DEF RunFinish
<1>17. ASSUME RunRaises PROVE (OutcomeInv /\ RowAgreesWithEntity)'
  BY <1>17 DEF RunRaises
<1>18. ASSUME SignalComplete PROVE (OutcomeInv /\ RowAgreesWithEntity)'
  BY <1>18 DEF SignalComplete
<1>19. ASSUME SignalError PROVE (OutcomeInv /\ RowAgreesWithEntity)'
  BY <1>19 DEF SignalError
<1>20. ASSUME WorkerCrash PROVE (OutcomeInv /\ RowAgreesWithEntity)'
  BY <1>20 DEF WorkerCrash
<1>21. ASSUME WorkerRestart PROVE (OutcomeInv /\ RowAgreesWithEntity)'
  BY <1>21 DEF WorkerRestart
<1>22. CASE UNCHANGED vars
  BY <1>22 DEF vars
<1> QED
  BY <1>1, <1>2, <1>3, <1>4, <1>5, <1>6, <1>7, <1>8, <1>9, <1>10, <1>11, <1>12, <1>13, <1>14, <1>15, <1>16, <1>17, <1>18, <1>19, <1>20, <1>21, <1>22
     DEF Next, Requests, ApiStep, WorkStep, Faults

\* The row of an ended task and the status of its entity, in two databases
\* without a common transaction, agree, crashes included.
THEOREM RowAgreesWithEntityHolds == Spec => []RowAgreesWithEntity
<1>1. Init => OutcomeInv /\ RowAgreesWithEntity
  BY JobQueueAssumption DEF Init, OutcomeInv, RowAgreesWithEntity, Issued
<1> QED
  BY <1>1, Invariance, AgreeStep, PTL DEF Spec

-----------------------------------------------------------------------------
(* The rows a crash leaves behind *)

\* Rows that say "started" of a task that is not in the worker's hands.
Stale == {t \in Tasks : task_copy[t] = "started"} \ {workTask}

StaleInv == IsFiniteSet(Stale) /\ Cardinality(Stale) <= faults

\* There are no more such rows than before, and no fewer faults.
LEMMA StaleShrinks ==
  ASSUME TypeOK, StaleInv, Stale' \subseteq Stale, faults' = faults \/ Fault
  PROVE  StaleInv'
<1>1. faults \in Nat /\ faults' \in Nat /\ faults <= faults'
  BY JobQueueAssumption DEF TypeOK, Fault
<1>2. IsFiniteSet(Stale') /\ Cardinality(Stale') <= Cardinality(Stale)
  BY FS_Subset DEF StaleInv
<1>3. Cardinality(Stale) \in Nat /\ Cardinality(Stale') \in Nat
  BY <1>2, FS_CardinalityType DEF StaleInv
<1> QED
  BY <1>1, <1>2, <1>3 DEF StaleInv

\* A crash adds the row of the task in hand, and is one fault more.
LEMMA CrashStale ==
  ASSUME TypeOK, StaleInv, WorkerCrash
  PROVE  StaleInv'
<1>1. faults \in Nat /\ faults' = faults + 1
  BY JobQueueAssumption DEF TypeOK, WorkerCrash, Fault
<1>2. Stale' \subseteq Stale \cup {workTask}
  BY DEF WorkerCrash, Stale
<1>3. /\ IsFiniteSet(Stale \cup {workTask})
      /\ Cardinality(Stale \cup {workTask}) \in {Cardinality(Stale), Cardinality(Stale) + 1}
  BY FS_AddElement DEF StaleInv
<1>4. IsFiniteSet(Stale') /\ Cardinality(Stale') <= Cardinality(Stale \cup {workTask})
  BY <1>2, <1>3, FS_Subset
<1>5. Cardinality(Stale) \in Nat /\ Cardinality(Stale') \in Nat
  BY <1>4, FS_CardinalityType DEF StaleInv
<1> QED
  BY <1>1, <1>3, <1>4, <1>5 DEF StaleInv

\* But for a crash no step leaves a started row without its task: the signal
\* that ends a task is written before the worker lets go of it.
LEMMA StaleStep == IInv /\ StaleInv /\ [Next]_vars => StaleInv'
<1> SUFFICES ASSUME IInv, StaleInv, [Next]_vars  PROVE StaleInv'
  OBVIOUS
<1> USE DEF IInv, TypeOK, FreshTasks, ApiInv, WorkInv, HandInv, Stale, apiVars, workVars, UpdateRow
<1>1. CASE WorkerCrash
  BY <1>1, CrashStale
<1>2. CASE Requests
  <2>1. UNCHANGED <<task_copy, workTask, faults>>
    BY <1>2 DEF Requests, EnqueueDeliver, CancelRead, ClearRead, DeleteEntity
  <2> QED
    BY <2>1, StaleShrinks
<1>3. CASE ApiStep
  <2>1. UNCHANGED workTask /\ (faults' = faults \/ Fault)
    BY <1>3 DEF ApiStep, SignalEnqueued, StorageEnqueue, CancelMark, CancelCommit, ClearMark, ClearCommit
  <2>2. \A t \in Tasks : task_copy'[t] = "started" => task_copy[t] = "started"
    BY <1>3 DEF ApiStep, SignalEnqueued, StorageEnqueue, CancelMark, CancelCommit, ClearMark, ClearCommit
  <2> QED
    BY <2>1, <2>2, StaleShrinks
<1>4. CASE WorkStep
  <2>1. UNCHANGED faults
    BY <1>4 DEF WorkStep, Dequeue, SignalExecuting, RunStart, RunFinish, RunRaises, SignalComplete,
                SignalError, WorkerRestart
  <2>2. CASE \E t \in Tasks : Dequeue(t)
    <3>1. workTask = NoTask
      BY <2>2 DEF Dequeue
    <3> QED
      BY <2>1, <2>2, <3>1, StaleShrinks, JobQueueAssumption DEF Dequeue
  <2>3. CASE SignalExecuting
    BY <2>1, <2>3, StaleShrinks DEF SignalExecuting
  <2>4. CASE RunStart \/ RunFinish \/ RunRaises \/ WorkerRestart
    BY <2>1, <2>4, StaleShrinks DEF RunStart, RunFinish, RunRaises, WorkerRestart
  <2>5. CASE SignalComplete \/ SignalError
    <3>1. \A t \in Tasks : task_copy'[t] = "started" => t # workTask /\ task_copy[t] = "started"
      BY <2>5 DEF SignalComplete, SignalError
    <3> QED
      BY <2>1, <3>1, StaleShrinks
  <2> QED
    BY <1>4, <2>2, <2>3, <2>4, <2>5 DEF WorkStep
<1>5. CASE PutFails \/ ApiCrash
  BY <1>5, StaleShrinks DEF PutFails, ApiCrash
<1>6. CASE UNCHANGED vars
  BY <1>6, StaleShrinks DEF vars
<1> QED
  BY <1>1, <1>2, <1>3, <1>4, <1>5, <1>6 DEF Next, Faults

\* However many tasks there are, at most one row for each crash says "started"
\* of a task that nobody runs.
THEOREM StartedRowsLiveHolds == Spec => []StartedRowsLive
<1>1. Init => StaleInv
  <2> SUFFICES ASSUME Init  PROVE StaleInv
    OBVIOUS
  <2>1. Stale = {} /\ faults = 0
    BY DEF Init, Stale
  <2> QED
    BY <2>1, FS_EmptySet DEF StaleInv
<1>2. StaleInv => StartedRowsLive
  BY DEF StaleInv, Stale, StartedRowsLive
<1> QED
  BY <1>1, <1>2, Invariance, StaleStep, PTL DEF Spec

-----------------------------------------------------------------------------
\* The queue implements JobLifecycle: its line is the order of the keys.
Line == {p \in queue \X queue : rowid[p[1]] < rowid[p[2]]}

\* The queue starts where the abstract server starts.
LEMMA LifecycleInitial == Init => Lifecycle!LifecycleInit
<1> SUFFICES ASSUME Init PROVE Lifecycle!LifecycleInit
  OBVIOUS
<1>1. queue = {}
  BY DEF Init, queue
<1>2. \A t \in Tasks : Phase(t) = "new"
  BY JobQueueAssumption DEF Init, Phase, Submitting, queue
<1> QED
  BY <1>1, <1>2 DEF Lifecycle!LifecycleInit

\* The tasks that wait for the abstract server are those of Huey's table.
LEMMA WaitingIsQueue == IInv => Lifecycle!Waiting = queue
BY JobQueueAssumption
   DEF IInv, TypeOK, FreshTasks, ApiInv, QueuedShown, RowStatus, Phase, Submitting, Outcome, queue, Issued, Lifecycle!Waiting

\* Every step of the queue is one of the abstract server, or a stutter.
LEMMA LifecycleStep == IInv /\ [Next]_vars => [Lifecycle!LifecycleNext]_(Lifecycle!lifecycleVars)
<1> SUFFICES ASSUME IInv, [Next]_vars
             PROVE  [Lifecycle!LifecycleNext]_(Lifecycle!lifecycleVars)
  OBVIOUS
<1> DEFINE Stutter == UNCHANGED Lifecycle!lifecycleVars
<1> USE JobQueueAssumption
    DEF IInv, TypeOK, FreshTasks, ApiInv, WorkInv, KeysDiffer, QueuedShown, HandInv,
        apiVars, workVars, queue, Issued, ApiIdle, UpdateRow, DeleteRows, Phase,
        Submitting, Outcome, RowStatus, ApiPcs, WorkPcs, Lifecycle!lifecycleVars, Lifecycle!Ended
<1>1. ASSUME NEW t \in Tasks, NEW e \in Entities, EnqueueDeliver(t, e) PROVE Lifecycle!Submit(t)
  BY <1>1 DEF EnqueueDeliver, Lifecycle!Submit
<1>2. ASSUME SignalEnqueued PROVE Stutter
  BY <1>2 DEF SignalEnqueued
<1>3. ASSUME StorageEnqueue PROVE Lifecycle!LifecycleNext
  <2>1. PICK w \in Tasks : w = apiTask /\ Phase(w) = "submitting"
    BY <1>3 DEF StorageEnqueue
  <2>2. PICK n \in {1} \cup {rowid[u] + 1 : u \in queue} :
          rowid' = [rowid EXCEPT ![w] = n] /\ \A u \in queue : rowid[u] < n
    BY <1>3, <2>1 DEF StorageEnqueue
  <2>3. n \in Nat \ {0}
    BY <2>2
  <2>4. \A u \in Tasks : Phase(u)' = IF u = w THEN "waiting" ELSE Phase(u)
    BY <1>3, <2>1, <2>2, <2>3 DEF StorageEnqueue
  <2>5. Line' = Line \cup {<<u, w>> : u \in queue}
    BY <2>1, <2>2, <2>3, <1>3 DEF StorageEnqueue, Line
  <2> HIDE DEF Phase
  <2>6. Lifecycle!Join(w)
    BY <2>1, <2>4, <2>5, WaitingIsQueue DEF Lifecycle!Join, Line
  <2> QED
    BY <2>6 DEF Lifecycle!LifecycleNext
<1>4. ASSUME PutFails PROVE apiTask \in Tasks /\ Lifecycle!Abandon(apiTask)
  <2>1. apiTask \in Tasks /\ Phase(apiTask) = "submitting"
    BY <1>4 DEF PutFails
  <2>2. \A u \in Tasks : u = apiTask => Phase(u)' \in {"interrupted", "gone"}
    BY <1>4 DEF PutFails
  <2>3. \A u \in Tasks : u # apiTask => Phase(u)' = Phase(u)
    BY <1>4 DEF PutFails
  <2>4. Line' = Line
    BY <1>4 DEF PutFails, Line
  <2> HIDE DEF Phase
  <2> QED
    BY <2>1, <2>2, <2>3, <2>4 DEF Lifecycle!Abandon, Line
<1>5. ASSUME NEW t \in Tasks, CancelRead(t) PROVE Stutter
  BY <1>5 DEF CancelRead
<1>6. ASSUME CancelMark PROVE Stutter
  BY <1>6 DEF CancelMark
<1>7. ASSUME CancelCommit PROVE Lifecycle!LifecycleNext
  <2>1. apiTask \in Issued
    BY <1>7 DEF CancelCommit
  <2>2. PICK W \in SUBSET Tasks : W = {apiTask} \ {workTask}
    BY <2>1
  <2>3. \A u \in Tasks : rowid'[u] = IF u = apiTask THEN 0 ELSE rowid[u]
    BY <1>7 DEF CancelCommit
  <2>4. \A u \in Tasks : Phase(u)' = IF u \in W THEN "gone" ELSE Phase(u)
    BY <1>7, <2>1, <2>2, <2>3 DEF CancelCommit
  <2>5. \A u \in W : Phase(u) \in {"waiting"} \cup Lifecycle!Ended
    BY <1>7, <2>1, <2>2 DEF CancelCommit
  <2>6. Line' = {p \in Line : p[1] # apiTask /\ p[2] # apiTask}
    BY <2>3 DEF Line
  <2>7. Line' = {p \in Line : p[1] \notin W /\ p[2] \notin W}
    BY <2>2, <2>6 DEF Line
  <2> HIDE DEF Phase
  <2>8. Lifecycle!Withdraw(W)
    BY <2>4, <2>5, <2>7 DEF Lifecycle!Withdraw, Lifecycle!Leave, Line
  <2> QED
    BY <2>8 DEF Lifecycle!LifecycleNext
<1>8. ASSUME ClearRead PROVE Stutter
  BY <1>8 DEF ClearRead
<1>9. ASSUME NEW u \in Tasks, ClearMark(u) PROVE Stutter
  BY <1>9 DEF ClearMark
<1>10. ASSUME ClearCommit PROVE Lifecycle!LifecycleNext
  <2>1. \A u \in Tasks : rowid'[u] = 0
    BY <1>10 DEF ClearCommit
  <2>2. PICK W \in SUBSET Tasks : W = Issued \ {workTask}
    OBVIOUS
  <2>3. \A u \in Tasks : Phase(u)' = IF u \in W THEN "gone" ELSE Phase(u)
    BY <1>10, <2>1, <2>2 DEF ClearCommit
  <2>4. \A u \in W : Phase(u) \in {"waiting"} \cup Lifecycle!Ended
    BY <1>10, <2>2 DEF ClearCommit
  <2>5. Line' = {p \in Line : p[1] \notin W /\ p[2] \notin W}
    BY <2>1, <2>2 DEF Line
  <2> HIDE DEF Phase
  <2>6. Lifecycle!Withdraw(W)
    BY <2>3, <2>4, <2>5 DEF Lifecycle!Withdraw, Lifecycle!Leave, Line
  <2> QED
    BY <2>6 DEF Lifecycle!LifecycleNext
<1>11. ASSUME NEW e \in Entities, DeleteEntity(e) PROVE Stutter
  BY <1>11 DEF DeleteEntity
<1>12. ASSUME ApiCrash PROVE Stutter \/ (apiTask \in Tasks /\ Lifecycle!Abandon(apiTask))
  BY <1>12 DEF ApiCrash, Lifecycle!Abandon
<1>13. ASSUME NEW t \in Tasks, Dequeue(t) PROVE Lifecycle!Take(t)
  <2>1. \A u \in Tasks : Phase(u) # "running"
    BY <1>13 DEF Dequeue
  <2>2. Phase(t) = "waiting"
    BY <1>13 DEF Dequeue
  <2>3. \A u \in Tasks : <<u, t>> \notin Line
    BY <1>13 DEF Dequeue, Line
  <2>4. \A u \in Tasks : Phase(u)' = IF u = t THEN "running" ELSE Phase(u)
    BY <1>13 DEF Dequeue
  <2>5. Line' = {p \in Line : p[1] \notin {t} /\ p[2] \notin {t}}
    BY <1>13 DEF Dequeue, Line
  <2> HIDE DEF Phase
  <2> QED
    BY <2>1, <2>2, <2>3, <2>4, <2>5 DEF Lifecycle!Take, Lifecycle!Leave, Line
<1>14. ASSUME SignalExecuting PROVE Stutter
  BY <1>14 DEF SignalExecuting
<1>15. ASSUME RunStart PROVE Stutter
  BY <1>15 DEF RunStart
<1>16. ASSUME RunFinish PROVE Stutter
  BY <1>16 DEF RunFinish
<1>17. ASSUME RunRaises PROVE Stutter
  BY <1>17 DEF RunRaises
<1>18. ASSUME SignalComplete PROVE workTask \in Tasks /\ Lifecycle!End(workTask)
  <2>1. workTask \in Tasks /\ Phase(workTask) = "running"
    BY <1>18 DEF SignalComplete
  <2>2. \A u \in Tasks : u = workTask => Phase(u)' \in {"finished", "gone"}
    BY <1>18, <2>1 DEF SignalComplete
  <2>3. \A u \in Tasks : u # workTask => Phase(u)' = Phase(u)
    BY <1>18 DEF SignalComplete
  <2>4. Line' = Line
    BY <1>18 DEF SignalComplete, Line
  <2> HIDE DEF Phase
  <2> QED
    BY <2>1, <2>2, <2>3, <2>4 DEF Lifecycle!End, Line
<1>19. ASSUME SignalError PROVE workTask \in Tasks /\ Lifecycle!End(workTask)
  <2>1. workTask \in Tasks /\ Phase(workTask) = "running"
    BY <1>19 DEF SignalError
  <2>2. \A u \in Tasks : u = workTask => Phase(u)' \in {"error", "gone"}
    BY <1>19, <2>1 DEF SignalError
  <2>3. \A u \in Tasks : u # workTask => Phase(u)' = Phase(u)
    BY <1>19 DEF SignalError
  <2>4. Line' = Line
    BY <1>19 DEF SignalError, Line
  <2> HIDE DEF Phase
  <2> QED
    BY <2>1, <2>2, <2>3, <2>4 DEF Lifecycle!End, Line
<1>20. ASSUME WorkerCrash PROVE Stutter \/ (workTask \in Tasks /\ Lifecycle!End(workTask))
  BY <1>20 DEF WorkerCrash, Lifecycle!End
<1>21. ASSUME WorkerRestart PROVE Stutter
  BY <1>21 DEF WorkerRestart
<1>22. CASE UNCHANGED vars
  BY <1>22 DEF vars, Stutter
<1> HIDE DEF IInv, TypeOK, FreshTasks, ApiInv, WorkInv, KeysDiffer, QueuedShown, HandInv,
             queue, Issued, Phase, Lifecycle!lifecycleVars, Lifecycle!Ended, Stutter
<1>23. CASE Requests
  BY <1>1, <1>5, <1>8, <1>11, <1>23 DEF Requests, Lifecycle!LifecycleNext, Stutter
<1>24. CASE ApiStep
  BY <1>2, <1>3, <1>6, <1>7, <1>9, <1>10, <1>24 DEF ApiStep, Stutter
<1>25. CASE WorkStep
  BY <1>13, <1>14, <1>15, <1>16, <1>17, <1>18, <1>19, <1>21, <1>25
     DEF WorkStep, Lifecycle!LifecycleNext, Stutter
<1>26. CASE Faults
  BY <1>4, <1>12, <1>20, <1>26 DEF Faults, Lifecycle!LifecycleNext, Stutter
<1> QED
  BY <1>22, <1>23, <1>24, <1>25, <1>26 DEF Next, Stutter

\* The queue is a first-come-first-served server that runs each task at most
\* once and never brings back one that has left.
THEOREM ImplementsLifecycleHolds == Spec => ImplementsLifecycle
BY LifecycleInitial, LifecycleStep, Invariance, PTL
   DEF Spec, ImplementsLifecycle, Lifecycle!LifecycleSpec
-----------------------------------------------------------------------------
\* OneLine of any phases and any order.
WaitsIn(P) == {t \in Tasks : P[t] = "waiting"}

IsLine(P, A) ==
  /\ \A t, u \in Tasks : P[t] = "running" /\ P[u] = "running" => t = u
  /\ A \subseteq WaitsIn(P) \X WaitsIn(P)
  /\ \A t \in WaitsIn(P) : <<t, t>> \notin A
  /\ \A t, u \in WaitsIn(P) : t # u => <<t, u>> \in A \/ <<u, t>> \in A
  /\ \A t, u, v \in WaitsIn(P) : <<t, u>> \in A /\ <<u, v>> \in A => <<t, v>> \in A

\* A task joins at the end of the line.
LEMMA LineJoined ==
  ASSUME NEW P, NEW Q, NEW A, NEW B, NEW t \in Tasks, IsLine(P, A), P[t] = "submitting",
         \A u \in Tasks : Q[u] = IF u = t THEN "waiting" ELSE P[u],
         B = A \cup {<<u, t>> : u \in WaitsIn(P)}
  PROVE  IsLine(Q, B)
<1>1. WaitsIn(Q) = WaitsIn(P) \cup {t} /\ t \notin WaitsIn(P)
  BY DEF WaitsIn
<1>2. A \subseteq WaitsIn(P) \X WaitsIn(P)
  BY DEF IsLine
<1>3. B \subseteq WaitsIn(Q) \X WaitsIn(Q)
  BY <1>1, <1>2
<1>4. \A u, v : <<u, v>> \in B <=> <<u, v>> \in A \/ (u \in WaitsIn(P) /\ v = t)
  OBVIOUS
<1>5. \A u, v : <<u, v>> \in A => u \in WaitsIn(P) /\ v \in WaitsIn(P)
  BY <1>2
<1>6. \A u, v \in Tasks : Q[u] = "running" /\ Q[v] = "running" => u = v
  BY DEF IsLine
<1>7. \A u \in WaitsIn(P) : <<u, u>> \notin A
  BY Zenon DEF IsLine
<1>8. \A u, v \in WaitsIn(P) : u # v => <<u, v>> \in A \/ <<v, u>> \in A
  BY Zenon DEF IsLine
<1>9. \A u, v, w \in WaitsIn(P) : <<u, v>> \in A /\ <<v, w>> \in A => <<u, w>> \in A
  BY Zenon DEF IsLine
<1>10. ASSUME NEW u \in WaitsIn(Q)  PROVE <<u, u>> \notin B
  <2>1. u = t => u \notin WaitsIn(P)
    BY <1>1
  <2>2. <<u, u>> \notin A
    BY <1>5, <1>7, Zenon
  <2>3. <<u, u>> \in B <=> <<u, u>> \in A \/ (u \in WaitsIn(P) /\ u = t)
    BY <1>4, Zenon
  <2> QED
    BY <2>1, <2>2, <2>3, Zenon
<1>11. \A u, v \in WaitsIn(Q) : u # v => <<u, v>> \in B \/ <<v, u>> \in B
  BY <1>1, <1>4, <1>8
<1>12. \A u, v, w \in WaitsIn(Q) : <<u, v>> \in B /\ <<v, w>> \in B => <<u, w>> \in B
  BY <1>1, <1>4, <1>5, <1>9
<1> QED
  BY <1>3, <1>6, <1>10, <1>11, <1>12 DEF IsLine

\* Tasks leave the line and no other begins to wait; one may be taken if none is
\* in hand.
LEMMA LineLeft ==
  ASSUME NEW P, NEW Q, NEW A, NEW B, NEW S, IsLine(P, A),
         WaitsIn(Q) = WaitsIn(P) \ S, B = {p \in A : p[1] \notin S /\ p[2] \notin S},
         \A t, u \in Tasks : Q[t] = "running" /\ Q[u] = "running" => t = u
  PROVE  IsLine(Q, B)
<1>1. A \subseteq WaitsIn(P) \X WaitsIn(P)
  BY DEF IsLine
<1>2. B \subseteq WaitsIn(Q) \X WaitsIn(Q)
  BY <1>1
<1>3. \A u, v : <<u, v>> \in B <=> <<u, v>> \in A /\ u \notin S /\ v \notin S
  BY <1>1
<1> QED
  BY <1>2, <1>3 DEF IsLine

\* What the abstract server promises: one line, of which one task is taken at a
\* time.  It starts empty, a task joins at its end, and the others keep their
\* order.
LEMMA OneLineStarts == Lifecycle!LifecycleInit => Lifecycle!OneLine
BY DEF Lifecycle!LifecycleInit, Lifecycle!OneLine, Lifecycle!Waiting

LEMMA OneLineKept ==
  Lifecycle!OneLine /\ [Lifecycle!LifecycleNext]_(Lifecycle!lifecycleVars) => Lifecycle!OneLine'
<1> SUFFICES ASSUME Lifecycle!OneLine, [Lifecycle!LifecycleNext]_(Lifecycle!lifecycleVars)
             PROVE  Lifecycle!OneLine'
  OBVIOUS
<1>1. PICK P, A : P = [t \in Tasks |-> Phase(t)] /\ A = Line
  OBVIOUS
<1>2. PICK Q, B : Q = [t \in Tasks |-> Phase(t)]' /\ B = Line'
  OBVIOUS
<1>3. DOMAIN P = Tasks /\ P = [t \in Tasks |-> P[t]]
  BY <1>1
<1>4. IsLine(P, A)
  BY <1>1 DEF Lifecycle!OneLine, Lifecycle!Waiting, IsLine, WaitsIn, Line
<1>5. SUFFICES IsLine(Q, B)
  BY <1>2 DEF Lifecycle!OneLine, Lifecycle!Waiting, IsLine, WaitsIn, Line
<1>6. ASSUME NEW t \in Tasks, Lifecycle!Submit(t)  PROVE IsLine(Q, B)
  <2>1. P[t] = "new" /\ Q = [P EXCEPT ![t] = "submitting"] /\ B = A
    BY <1>1, <1>2, <1>6 DEF Lifecycle!Submit, Line
  <2> QED
    BY <1>3, <1>4, <2>1 DEF IsLine, WaitsIn
<1>7. ASSUME NEW t \in Tasks, Lifecycle!Join(t)  PROVE IsLine(Q, B)
  <2>1. P[t] = "submitting" /\ Q = [P EXCEPT ![t] = "waiting"]
    BY <1>1, <1>2, <1>7 DEF Lifecycle!Join
  <2>2. B = A \cup {<<u, t>> : u \in WaitsIn(P)}
    BY <1>1, <1>2, <1>7 DEF Lifecycle!Join, Lifecycle!Waiting, WaitsIn, Line
  <2> QED
    BY <1>3, <1>4, <2>1, <2>2, LineJoined
<1>8. ASSUME NEW t \in Tasks, Lifecycle!Abandon(t)  PROVE IsLine(Q, B)
  <2>1. PICK p \in {"interrupted", "gone"} : Q = [P EXCEPT ![t] = p]
    BY <1>1, <1>2, <1>8 DEF Lifecycle!Abandon
  <2>2. P[t] = "submitting" /\ B = A
    BY <1>1, <1>2, <1>8 DEF Lifecycle!Abandon, Line
  <2> QED
    BY <1>3, <1>4, <2>1, <2>2 DEF IsLine, WaitsIn
<1>9. ASSUME NEW t \in Tasks, Lifecycle!Take(t)  PROVE IsLine(Q, B)
  <2>1. /\ P[t] = "waiting" /\ Q = [P EXCEPT ![t] = "running"]
        /\ \A u \in Tasks : P[u] # "running"
    BY <1>1, <1>2, <1>9 DEF Lifecycle!Take
  <2>2. B = {p \in A : p[1] \notin {t} /\ p[2] \notin {t}}
    BY <1>1, <1>2, <1>9 DEF Lifecycle!Take, Lifecycle!Leave, Line
  <2>3. WaitsIn(Q) = WaitsIn(P) \ {t}
    BY <1>3, <2>1 DEF WaitsIn
  <2>4. \A u, v \in Tasks : Q[u] = "running" /\ Q[v] = "running" => u = v
    BY <1>3, <2>1
  <2> QED
    BY <1>4, <2>2, <2>3, <2>4, LineLeft, Zenon
<1>10. ASSUME NEW t \in Tasks, Lifecycle!End(t)  PROVE IsLine(Q, B)
  <2>1. PICK p \in Lifecycle!Ended : Q = [P EXCEPT ![t] = p]
    BY <1>1, <1>2, <1>10 DEF Lifecycle!End
  <2>2. P[t] = "running" /\ B = A
    BY <1>1, <1>2, <1>10 DEF Lifecycle!End, Line
  <2> QED
    BY <1>3, <1>4, <2>1, <2>2 DEF IsLine, WaitsIn, Lifecycle!Ended
<1>11. ASSUME NEW S \in SUBSET Tasks, Lifecycle!Withdraw(S)  PROVE IsLine(Q, B)
  <2>1. Q = [t \in Tasks |-> IF t \in S THEN "gone" ELSE P[t]]
    BY <1>1, <1>2, <1>11 DEF Lifecycle!Withdraw
  <2>2. B = {p \in A : p[1] \notin S /\ p[2] \notin S}
    BY <1>1, <1>2, <1>11 DEF Lifecycle!Withdraw, Lifecycle!Leave, Line
  <2>3. WaitsIn(Q) = WaitsIn(P) \ S
    BY <1>3, <2>1 DEF WaitsIn
  <2>4. \A u, v \in Tasks : Q[u] = "running" /\ Q[v] = "running" => u = v
    BY <1>3, <1>4, <2>1 DEF IsLine
  <2> QED
    BY <1>4, <2>2, <2>3, <2>4, LineLeft, Zenon
<1>12. CASE UNCHANGED Lifecycle!lifecycleVars
  <2>1. Q = P /\ B = A
    BY <1>1, <1>2, <1>12 DEF Lifecycle!lifecycleVars, Line
  <2> QED
    BY <1>4, <2>1
<1> QED
  BY <1>6, <1>7, <1>8, <1>9, <1>10, <1>11, <1>12 DEF Lifecycle!LifecycleNext

\* The queue inherits it: keys that are handed out again put nothing out of
\* order and no two tasks side by side.
THEOREM ServesOneLineHolds == Spec => []ServesOneLine
BY ImplementsLifecycleHolds, OneLineStarts, OneLineKept, PTL
   DEF ImplementsLifecycle, Lifecycle!LifecycleSpec, ServesOneLine
=============================================================================
