------------------------------ MODULE JobQueue ------------------------------
(***************************************************************************)
(* The job queue of the back end: HueyJobQueue, the enqueue and cancel     *)
(* handlers of the jobs endpoints, and the Huey consumer that runs jobs.   *)
(*                                                                         *)
(* Three stores are written by two processes.  The API process (one event  *)
(* loop; no handler modelled here awaits between its database calls, so    *)
(* at most one of them is in progress) writes all three; the consumer      *)
(* process, with one worker, writes them too:                              *)
(*   rowid          the table "task", owned by Huey: the integer primary   *)
(*                  key of each waiting task, 0 for one that is not there  *)
(*                  (a new key is the largest + 1, so keys are used again);*)
(*   task_copy      the table the user interface reads;                    *)
(*   status         the status column of the Run, Dataset, Prediction, ... *)
(*                  a job works for, in another database.                  *)
(* A task may be handed in again and again for the same entity; ids of     *)
(* tasks are UUIDs and never come back.                                    *)
(***************************************************************************)
EXTENDS Integers, FiniteSets

CONSTANTS
  Tasks,      \* the task ids that calls of enqueue_job may draw
  Entities,   \* the rows (Run, Prediction, ...) jobs work for
  Careful,    \* those whose job records every failure of its run() in status
  NoTask, NoEntity,
  MaxFaults   \* bound on crashes and failed writes

ASSUME JobQueueAssumption ==
  /\ NoTask \notin Tasks
  /\ NoEntity \notin Entities
  /\ Careful \subseteq Entities
  /\ MaxFaults \in Nat

VARIABLES
  rowid, task_copy, status,
  target,                             \* the entity of a task's job
  apiPc, apiTask, apiTodo, apiRows,   \* the API handler in progress
  workPc, workTask,                   \* the consumer's worker
  faults

apiVars  == <<apiPc, apiTask, apiTodo, apiRows>>
workVars == <<workPc, workTask>>
vars == <<rowid, task_copy, status, target, apiVars, workVars, faults>>

RowStatus    == {"absent", "not_started", "started", "finished", "error"}
EntityStatus == {"ABSENT", "NOT_STARTED", "DELIVERED", "STARTED", "FINISHED", "ERROR"}
ApiPcs  == {"idle", "delivered", "signalled", "cancelRead", "cancelMarked", "clearing"}
WorkPcs == {"down", "idle", "dequeued", "executing", "running", "done", "failed"}

Init ==
  /\ rowid = [t \in Tasks |-> 0]
  /\ task_copy = [t \in Tasks |-> "absent"]
  /\ status = [e \in Entities |-> "NOT_STARTED"]
  /\ target = [t \in Tasks |-> NoEntity]
  /\ apiPc = "idle" /\ apiTask = NoTask /\ apiTodo = {} /\ apiRows = {}
  /\ workPc = "idle" /\ workTask = NoTask
  /\ faults = 0

-----------------------------------------------------------------------------
(* Helpers *)

\* The waiting tasks.
queue == {t \in Tasks : rowid[t] # 0}

\* DELETE FROM task WHERE id IN (rows).
DeleteRows(rows) ==
  rowid' = [t \in Tasks |-> IF rowid[t] \in rows THEN 0 ELSE rowid[t]]

Issued == {t \in Tasks : target[t] # NoEntity}

\* delete_from_db holds SQLite's write lock from its first DELETE to its
\* commit, and writes the other database in between.
Locked == apiPc = "cancelMarked"

Fault == faults < MaxFaults /\ faults' = faults + 1

\* UPDATE task_copy SET status = s WHERE id = t: no row, no effect.
UpdateRow(t, s) ==
  task_copy' = [task_copy EXCEPT ![t] = IF @ = "absent" THEN "absent" ELSE s]

\* set_status_as_error and the other setters of a job: nothing is done when
\* the entity is gone.
SetStatus(e, s) ==
  status' = [status EXCEPT ![e] = IF @ = "ABSENT" THEN "ABSENT" ELSE s]

ApiIdle == apiPc' = "idle" /\ apiTask' = NoTask /\ apiTodo' = {} /\ apiRows' = {}

\* Mutant: is_empty() without its second query.
IsEmptyTableOnly == queue = {}

\* is_empty(): what GET /jobs/is-empty answers.
IsEmpty == queue = {} /\ \A t \in Tasks : task_copy[t] # "started"

-----------------------------------------------------------------------------
(* enqueue_job: mark the entity delivered, then HueyJobQueue.put, which is *)
(* Huey's enqueue: the ENQUEUED signal first, the table "task" after it.   *)

EnqueueDeliver(t, e) ==
  /\ apiPc = "idle"
  /\ target[t] = NoEntity
  /\ status[e] # "ABSENT"               \* JobError otherwise: 500, nothing done
  /\ target' = [target EXCEPT ![t] = e]
  /\ status' = [status EXCEPT ![e] = "DELIVERED"]
  /\ apiPc' = "delivered" /\ apiTask' = t
  /\ UNCHANGED <<rowid, task_copy, apiTodo, apiRows, workVars, faults>>

\* Mutant: an UPDATE where on_enqueue has its INSERT OR REPLACE.
SignalEnqueuedUpdates ==
  /\ apiPc = "delivered"
  /\ UpdateRow(apiTask, "not_started")
  /\ apiPc' = "signalled"
  /\ UNCHANGED <<rowid, status, target, apiTask, apiTodo, apiRows, workVars, faults>>

SignalEnqueued ==
  /\ apiPc = "delivered"
  /\ task_copy' = [task_copy EXCEPT ![apiTask] = "not_started"]
  /\ apiPc' = "signalled"
  /\ UNCHANGED <<rowid, status, target, apiTask, apiTodo, apiRows, workVars, faults>>

StorageEnqueue ==
  /\ apiPc = "signalled"
  /\ \E n \in {1} \cup {rowid[u] + 1 : u \in queue} :
       /\ \A u \in queue : rowid[u] < n
       /\ rowid' = [rowid EXCEPT ![apiTask] = n]
  /\ ApiIdle
  /\ UNCHANGED <<task_copy, status, target, workVars, faults>>

\* put raises: the handler answers 500 and undoes nothing.
PutFails ==
  /\ apiPc \in {"delivered", "signalled"}
  /\ Fault
  /\ ApiIdle
  /\ UNCHANGED <<rowid, task_copy, status, target, workVars>>

-----------------------------------------------------------------------------
(* cancel_job: delete_from_db reads the table outside any transaction.     *)

CancelRead(t) ==
  /\ apiPc = "idle"
  /\ t \in Issued
  /\ apiPc' = "cancelRead" /\ apiTask' = t
  /\ apiTodo' = {t} \cap queue
  /\ apiRows' = {rowid[u] : u \in {t} \cap queue}
  /\ UNCHANGED <<rowid, task_copy, status, target, workVars, faults>>

\* Mutant: the row is removed and its job is not told.
CancelMarkForgets ==
  /\ apiPc = "cancelRead"
  /\ apiTodo # {}
  /\ apiPc' = "cancelMarked" /\ apiTodo' = {}
  /\ UNCHANGED <<rowid, task_copy, status, target, apiTask, apiRows, workVars, faults>>

\* The row was found: DELETE takes the lock, then the job's entity is marked
\* (a failure to mark it is logged and ignored).
CancelMark ==
  /\ apiPc = "cancelRead"
  /\ apiTodo # {}
  /\ \/ SetStatus(target[apiTask], "ERROR") /\ UNCHANGED faults
     \/ Fault /\ UNCHANGED status
  /\ apiPc' = "cancelMarked" /\ apiTodo' = {}
  /\ UNCHANGED <<rowid, task_copy, target, apiTask, apiRows, workVars>>

\* Mutant: a soft delete, with the fifth status the table's comment lists.
CancelCommitSoft ==
  /\ apiPc \in {"cancelRead", "cancelMarked"}
  /\ apiTodo = {}
  /\ DeleteRows(apiRows)
  /\ task_copy' = [task_copy EXCEPT ![apiTask] = "deleted"]
  /\ ApiIdle
  /\ UNCHANGED <<status, target, workVars, faults>>

CancelCommit ==
  /\ apiPc \in {"cancelRead", "cancelMarked"}
  /\ apiTodo = {}
  /\ DeleteRows(apiRows)
  /\ task_copy' = [task_copy EXCEPT ![apiTask] = "absent"]
  /\ ApiIdle
  /\ UNCHANGED <<status, target, workVars, faults>>

(* cancel_all_jobs: delete_all_jobs marks the jobs before its first DELETE. *)

ClearRead ==
  /\ apiPc = "idle"
  /\ Issued # {}
  /\ apiPc' = "clearing"
  /\ apiTodo' = queue
  /\ apiRows' = {rowid[u] : u \in queue}
  /\ UNCHANGED <<rowid, task_copy, status, target, apiTask, workVars, faults>>

\* Mutant: the rows are deleted and their jobs are not told.
ClearMarkForgets(u) ==
  /\ apiPc = "clearing"
  /\ u \in apiTodo
  /\ apiTodo' = apiTodo \ {u}
  /\ UNCHANGED <<rowid, task_copy, status, target, apiPc, apiTask, apiRows, workVars, faults>>

ClearMark(u) ==
  /\ apiPc = "clearing"
  /\ u \in apiTodo
  /\ apiTodo' = apiTodo \ {u}
  /\ \/ SetStatus(target[u], "ERROR") /\ UNCHANGED faults
     \/ Fault /\ UNCHANGED status
  /\ UNCHANGED <<rowid, task_copy, target, apiPc, apiTask, apiRows, workVars>>

ClearCommit ==
  /\ apiPc = "clearing"
  /\ apiTodo = {}
  /\ DeleteRows(apiRows)
  /\ task_copy' = [t \in Tasks |-> "absent"]
  /\ ApiIdle
  /\ UNCHANGED <<status, target, workVars, faults>>

\* DELETE of the entity (a run, a prediction, ...): no handler looks at the
\* queue first.
DeleteEntity(e) ==
  /\ apiPc = "idle"
  /\ status[e] # "ABSENT"
  /\ status' = [status EXCEPT ![e] = "ABSENT"]
  /\ UNCHANGED <<rowid, task_copy, target, apiVars, workVars, faults>>

\* The API process dies: an open transaction of delete_from_db rolls back.
ApiCrash ==
  /\ apiPc # "idle"
  /\ Fault
  /\ ApiIdle
  /\ UNCHANGED <<rowid, task_copy, status, target, workVars>>

-----------------------------------------------------------------------------
(* The consumer: take the first task, EXECUTING signal, job.run(), then    *)
(* the COMPLETE or the ERROR signal.                                       *)

Dequeue(t) ==
  /\ workPc = "idle" /\ ~Locked
  /\ t \in queue
  /\ \A u \in queue : rowid[t] <= rowid[u]
  /\ rowid' = [rowid EXCEPT ![t] = 0]
  /\ workPc' = "dequeued" /\ workTask' = t
  /\ UNCHANGED <<task_copy, status, target, apiVars, faults>>

SignalExecuting ==
  /\ workPc = "dequeued" /\ ~Locked
  /\ UpdateRow(workTask, "started")
  /\ workPc' = "executing"
  /\ UNCHANGED <<rowid, status, target, apiVars, workTask, faults>>

RunStart ==
  /\ workPc = "executing"
  /\ status[target[workTask]] # "ABSENT"
  /\ status' = [status EXCEPT ![target[workTask]] = "STARTED"]
  /\ workPc' = "running"
  /\ UNCHANGED <<rowid, task_copy, target, apiVars, workTask, faults>>

RunFinish ==
  /\ workPc = "running"
  /\ status[target[workTask]] # "ABSENT"
  /\ status' = [status EXCEPT ![target[workTask]] = "FINISHED"]
  /\ workPc' = "done"
  /\ UNCHANGED <<rowid, task_copy, target, apiVars, workTask, faults>>

\* Mutant: no job records its failures.
RunRaisesUnrecorded ==
  /\ workPc \in {"executing", "running"}
  /\ workPc' = "failed"
  /\ UNCHANGED <<rowid, task_copy, status, target, apiVars, workTask, faults>>

\* run() raises, before or after it marked the entity started.  A careful job
\* marks the error first; the others leave the status as it is on some paths.
RunRaises ==
  /\ workPc \in {"executing", "running"}
  /\ \/ SetStatus(target[workTask], "ERROR")
     \/ target[workTask] \notin Careful /\ UNCHANGED status
  /\ workPc' = "failed"
  /\ UNCHANGED <<rowid, task_copy, target, apiVars, workTask, faults>>

\* Mutant: no handler for SIGNAL_COMPLETE.
SignalCompleteUnhandled ==
  /\ workPc = "done" /\ ~Locked
  /\ workPc' = "idle" /\ workTask' = NoTask
  /\ UNCHANGED <<rowid, task_copy, status, target, apiVars, faults>>

SignalComplete ==
  /\ workPc = "done" /\ ~Locked
  /\ UpdateRow(workTask, "finished")
  /\ workPc' = "idle" /\ workTask' = NoTask
  /\ UNCHANGED <<rowid, status, target, apiVars, faults>>

\* Mutant: no handler for SIGNAL_ERROR.
SignalErrorUnhandled ==
  /\ workPc = "failed" /\ ~Locked
  /\ workPc' = "idle" /\ workTask' = NoTask
  /\ UNCHANGED <<rowid, task_copy, status, target, apiVars, faults>>

\* Mutant: a task that failed is tried again.
SignalErrorRetries ==
  /\ workPc = "failed" /\ ~Locked
  /\ rowid' = [rowid EXCEPT ![workTask] = 1 + Cardinality(Tasks)]
  /\ UpdateRow(workTask, "not_started")
  /\ workPc' = "idle" /\ workTask' = NoTask
  /\ UNCHANGED <<status, target, apiVars, faults>>

SignalError ==
  /\ workPc = "failed" /\ ~Locked
  /\ UpdateRow(workTask, "error")
  /\ workPc' = "idle" /\ workTask' = NoTask
  /\ UNCHANGED <<rowid, status, target, apiVars, faults>>

\* The consumer is terminated (every shutdown of DashAI does it) or dies.
WorkerCrash ==
  /\ workPc # "down"
  /\ Fault
  /\ workPc' = "down" /\ workTask' = NoTask
  /\ UNCHANGED <<rowid, task_copy, status, target, apiVars>>

\* Mutant: it comes back only if no task was left running.
WorkerRestartClean ==
  /\ workPc = "down"
  /\ \A t \in Tasks : task_copy[t] # "started"
  /\ workPc' = "idle"
  /\ UNCHANGED <<rowid, task_copy, status, target, apiVars, workTask, faults>>

\* Nothing is repaired when it comes back.
WorkerRestart ==
  /\ workPc = "down"
  /\ workPc' = "idle"
  /\ UNCHANGED <<rowid, task_copy, status, target, apiVars, workTask, faults>>

-----------------------------------------------------------------------------
ApiStep ==
  \/ SignalEnqueued \/ StorageEnqueue
  \/ CancelMark \/ CancelCommit
  \/ \E u \in Tasks : ClearMark(u)
  \/ ClearCommit

Requests ==
  \/ \E t \in Tasks, e \in Entities : EnqueueDeliver(t, e)
  \/ \E t \in Tasks : CancelRead(t)
  \/ ClearRead
  \/ \E e \in Entities : DeleteEntity(e)

WorkStep ==
  \/ \E t \in Tasks : Dequeue(t)
  \/ SignalExecuting \/ RunStart \/ RunFinish \/ RunRaises
  \/ SignalComplete \/ SignalError
  \/ WorkerRestart

Faults == PutFails \/ ApiCrash \/ WorkerCrash

Next == Requests \/ ApiStep \/ WorkStep \/ Faults

Spec == Init /\ [][Next]_vars

\* A handler that has begun goes on, the consumer's loop keeps polling and
\* is started again with the program, and run() returns or raises.
FairSpec == Spec /\ WF_vars(ApiStep) /\ WF_vars(WorkStep)

-----------------------------------------------------------------------------
(* Properties *)

\* Every variable keeps to its type.
TypeOK ==
  /\ rowid \in [Tasks -> Nat]
  /\ task_copy \in [Tasks -> RowStatus]
  /\ status \in [Entities -> EntityStatus]
  /\ target \in [Tasks -> Entities \cup {NoEntity}]
  /\ apiPc \in ApiPcs /\ apiTask \in Tasks \cup {NoTask}
  /\ apiTodo \subseteq Tasks /\ apiRows \subseteq Nat
  /\ workPc \in WorkPcs /\ workTask \in Tasks \cup {NoTask}
  /\ faults \in 0..MaxFaults

\* What waits in Huey's table is what the user sees as queued: a waiting task
\* has its row in task_copy, still not_started, and is not also being run.
QueuedShown ==
  \A t \in queue : task_copy[t] = "not_started" /\ t # workTask

\* is_empty() is the poller's licence to stop.  When it says yes, the worker
\* has nothing in hand but a task between its removal from the table and the
\* EXECUTING signal, or one whose row was deleted under it.
EmptyIsIdle ==
  IsEmpty => \/ workTask = NoTask
             \/ workPc = "dequeued"
             \/ task_copy[workTask] = "absent"

\* A row says "started" for the task in hand and for no other, but for one
\* stale row for each crash.
StartedRowsLive ==
  Cardinality({t \in Tasks : task_copy[t] = "started"} \ {workTask}) <= faults

\* The task still has to reach RunStart.
Pending(t) ==
  \/ t \in queue
  \/ t = apiTask /\ apiPc \in {"delivered", "signalled"}
  \/ t = workTask /\ workPc \in {"dequeued", "executing"}

\* Two databases, no common transaction: while nothing has failed, an entity
\* shown as delivered has a task on its way, through every cancel.
DeliveredHasTask ==
  faults = 0 => \A e \in Careful : status[e] = "DELIVERED" =>
                  \E t \in Tasks : target[t] = e /\ Pending(t)

\* No other task was ever enqueued for the entity of t.
Sole(t) == \A u \in Issued : target[u] = target[t] => u = t

\* The row of an ended task and its entity tell the same story, even across
\* crashes; only a cancel that read the table before the task was taken can
\* turn a finished entity into an error, and it then deletes the row.
RowAgreesWithEntity ==
  \A t \in Issued : Sole(t) =>
    LET s == status[target[t]] IN
    /\ task_copy[t] = "finished" => s \in {"FINISHED", "ABSENT", "ERROR"}
    /\ task_copy[t] = "finished" /\ s = "ERROR" =>
         \/ apiPc = "clearing"
         \/ apiPc = "cancelMarked" /\ apiTask = t
         \/ faults > 0
    /\ task_copy[t] = "error" /\ target[t] \in Careful => s \in {"ERROR", "ABSENT"}

\* The queue seen as JobLifecycle sees it.
Outcome(row) ==
  IF row = "absent" THEN "gone"
  ELSE IF row \in {"finished", "error"} THEN row ELSE "interrupted"

Submitting(t) == t = apiTask /\ apiPc \in {"delivered", "signalled"}

Phase(t) ==
  CASE target[t] = NoEntity -> "new"
    [] Submitting(t)        -> "submitting"
    [] t \in queue          -> "waiting"
    [] t = workTask         -> "running"
    [] OTHER                -> Outcome(task_copy[t])

Lifecycle == INSTANCE JobLifecycle
  WITH phase <- [t \in Tasks |-> Phase(t)],
       ahead <- {p \in queue \X queue : rowid[p[1]] < rowid[p[2]]}

\* base_job_queue's "Put a job at the end of the queue" and "it extracts the
\* first job in the queue", with everything else of JobLifecycle: at most one
\* job at a time, in order of arrival, each at most once.
ImplementsLifecycle == Lifecycle!LifecycleSpec

\* Huey's keys put the waiting tasks in one line, although keys of tasks that
\* were cancelled or have run are handed out again, and one task runs at a time.
ServesOneLine == Lifecycle!OneLine

\* Clear All: "This will cancel all jobs in the queue."  What it read as
\* waiting is waiting still when it deletes it, and not being run.
ClearCancelsAll ==
  [][ClearCommit => apiRows \subseteq {rowid[u] : u \in queue}]_vars

\* While nothing fails, every task shown as queued or running gets to an end.
RowSettles ==
  \A t \in Tasks : task_copy[t] \in {"not_started", "started"} ~>
                    task_copy[t] \in {"absent", "finished", "error"} \/ faults > 0

\* While nothing fails, no entity stays delivered or started for ever.
StatusSettles ==
  \A e \in Careful : status[e] \in {"DELIVERED", "STARTED"} ~>
                      status[e] \in {"FINISHED", "ERROR", "ABSENT"} \/ faults > 0

\* Crashes of either process do not block the line.
QueueDrains == \A t \in Tasks : t \in queue ~> t \notin queue
=============================================================================
