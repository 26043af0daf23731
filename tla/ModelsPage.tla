------------------------------ MODULE ModelsPage ------------------------------
(***************************************************************************)
(* Model sessions and their runs: the page (ModelsContent and what it      *)
(* shows), the handlers of runs.py, and the jobs that train a run and that *)
(* explain its model or predict with it.                                   *)
(*                                                                         *)
(* Training takes four requests, one after the other: how many operations  *)
(* the run has, delete them, reset the run, enqueue.  Each is a flow of    *)
(* its own; nothing keeps a second click from starting another, and the    *)
(* handlers share no lock with the consumer.                               *)
(***************************************************************************)
EXTENDS Integers, Sequences, FiniteSets, SequencesExt, FiniteSetsExt

CONSTANTS
  MaxSessions,           \* bound on the keys of sessions
  MaxRuns, MaxOps,       \* bounds on the runs and operations that are ever created
  MaxTrained,            \* bound on the trainings that are ever enqueued
  MaxFlows,              \* bound on the handlers of the page that are under way
  MaxAnswers,            \* bound on the lists of runs that are under way
  MaxMishaps             \* bound on how often a request fails or the page is left

ASSUME ModelsPageAssumption ==
  /\ {MaxSessions, MaxRuns, MaxOps, MaxTrained, MaxFlows, MaxAnswers} \subseteq Nat \ {0}
  /\ MaxMishaps \in Nat

VARIABLES
  sessions,   \* the table model_session
  runs,       \* the table run; model: which training made the file, 0 for none
  op,         \* the latest operation of a run; model: what it was computed with
  modelJobs, inHand,  \* the queue, and the job in the consumer's hands
  trained,    \* how many trainings were enqueued
  listed,     \* the sessions the page lists
  selected,   \* the session it shows, 0 for none
  shown,      \* the statuses of the runs it shows
  dialog,     \* the run for which RetrainConfirmDialog is open, 0 for none
  flows,      \* the page's handlers that wait for an answer
  leaving,    \* sessions whose deletion is under way
  watched,    \* the jobs for which startJobPolling was called
  callbacks,  \* answers of getRunById on their way to the page
  forsaken,   \* runs of which the page is told nothing more: it was left while
              \* they were trained, or an answer about the training was lost
  unaware,    \* history: the page was left while a handler or a training of a
              \* run was under way, or was not told that a training started
  answers,    \* lists of runs on their way to the page
  collided,        \* history: a run was trained or deleted, or its id was handed out
              \* again, while other work on it was under way, or after a failure
  crossed,    \* history: an answer reached a page that had moved on, or what the
              \* page should show was lost on its way
  failures, mounts, births  \* counters; births: of runs and of operations

serverState == <<sessions, runs, op, trained>>
modelQueue == <<modelJobs, inHand>>
pageRuns == <<selected, shown, answers>>
watches == <<watched, callbacks, forsaken, unaware>>
pageState == <<listed, pageRuns, dialog, leaving, watches>>
history == <<collided, crossed, failures, mounts, births>>
modelsPageVars == <<serverState, modelQueue, pageState, flows, history>>

RunIds == 1..MaxRuns
RunInWork == {"delivered", "started"}
noRun == [session |-> 0, status |-> "absent", model |-> 0]
noOp == [kind |-> "none", model |-> 0]
noWork == [kind |-> "none", run |-> 0, job |-> 0, model |-> 0]

InTable(r) == runs[r] # noRun
NextRun == 1 + Max({0} \cup {r \in RunIds : InTable(r)})
StatusesOf(s) == [r \in RunIds |-> IF runs[r].session = s THEN runs[r].status ELSE "absent"]

Mishap == failures + mounts < MaxMishaps
Fail == Mishap /\ failures' = failures + 1

\* A training of r is under way somewhere between the page and the consumer;
\* any work on r is.
Training(r) ==
  \/ \E f \in flows : f.run = r
  \/ \E i \in DOMAIN modelJobs : modelJobs[i].run = r /\ modelJobs[i].kind = "train"
  \/ inHand.run = r /\ inHand.kind \in {"train", "saved"}
Engaged(r) ==
  \/ Training(r) \/ inHand.run = r
  \/ \E i \in DOMAIN modelJobs : modelJobs[i].run = r

ModelsPageInit ==
  /\ sessions = {1} /\ runs = [r \in RunIds |-> noRun] /\ op = [r \in RunIds |-> noOp]
  /\ modelJobs = <<>> /\ inHand = noWork /\ trained = 0
  /\ listed = {1} /\ selected = 0 /\ shown = [r \in RunIds |-> "absent"]
  /\ dialog = 0 /\ flows = {} /\ leaving = {}
  /\ watched = {} /\ callbacks = {} /\ answers = <<>>
  /\ forsaken = {} /\ unaware = FALSE
  /\ collided = FALSE /\ crossed = FALSE /\ failures = 0 /\ mounts = 0
  /\ births = [runs |-> 0, ops |-> 0]

-----------------------------------------------------------------------------
(* Flows: one per handler that waits for an answer                         *)

Opens(r, step) ==
  \E n \in 1..MaxFlows :
    /\ \A f \in flows : f.id # n
    /\ \A m \in 1..(n - 1) : \E f \in flows : f.id = m
    /\ flows' = flows \cup {[id |-> n, run |-> r, step |-> step, job |-> 0,
                             live |-> TRUE]}

Goes(f, step) == flows' = (flows \ {f}) \cup {[f EXCEPT !.step = step]}
Ends(f) == flows' = flows \ {f}

\* A handler blocks the event loop until it returns.
Handling == \E f \in flows : f.step \in {"resetting", "removing"}

\* The page changes the list it shows: answers that were computed before are old.
Overtaken == [i \in DOMAIN answers |-> [answers[i] EXCEPT !.late = TRUE]]
ShowsRun(r, status) ==
  /\ shown' = [shown EXCEPT ![r] = status]
  /\ answers' = Overtaken

-----------------------------------------------------------------------------
(* Sessions *)

\* Mutant: the effect has no other branch.
SelectsOnly(s) ==
  /\ selected' = s
  /\ IF s = 0
     THEN UNCHANGED <<shown, answers>>
     ELSE /\ Len(answers) < MaxAnswers
          /\ answers' = Append(Overtaken, [rows |-> StatusesOf(s), late |-> FALSE])
          /\ UNCHANGED shown

\* The effect on selectedSessionId: the runs of the last session stay on the
\* page until the answer is there.
Selects(s) ==
  /\ selected' = s
  /\ IF s = 0
     THEN shown' = [r \in RunIds |-> "absent"] /\ answers' = Overtaken
     ELSE /\ Len(answers) < MaxAnswers
          /\ answers' = Append(Overtaken, [rows |-> StatusesOf(s), late |-> FALSE])
          /\ UNCHANGED shown

SelectSession(s) ==
  /\ s \in listed \cup {0} /\ s # selected /\ dialog = 0 /\ ~Handling
  /\ Selects(s)
  /\ UNCHANGED <<serverState, modelQueue, listed, dialog, leaving, watches, flows, history>>

CreateSession ==
  LET s == 1 + Max({0} \cup sessions)
  IN /\ s <= MaxSessions /\ s \notin leaving /\ dialog = 0 /\ ~Handling
     /\ sessions' = sessions \cup {s}
     /\ listed' = listed \cup {s}
     /\ Selects(s)
     /\ UNCHANGED <<runs, op, trained, modelQueue, dialog, leaving, watches, flows, history>>

\* handleSessionDelete takes the session off the page before it asks.
DeleteSession(s) ==
  /\ s \in listed /\ dialog = 0
  /\ listed' = listed \ {s} /\ leaving' = leaving \cup {s}
  /\ IF selected = s THEN Selects(0) ELSE UNCHANGED pageRuns
  /\ UNCHANGED <<serverState, modelQueue, dialog, watches, flows, history>>

\* Explainers have no foreign key: they stay when their run goes.
WithoutRun(gone) ==
  /\ runs' = [r \in RunIds |-> IF r \in gone THEN noRun ELSE runs[r]]
  /\ op' = [r \in RunIds |-> IF r \in gone /\ op[r].kind = "prediction" THEN noOp ELSE op[r]]

SessionDeleted(s) ==
  /\ s \in leaving /\ ~Handling
  /\ leaving' = leaving \ {s}
  /\ \/ /\ sessions' = sessions \ {s}
        /\ LET gone == {r \in RunIds : runs[r].session = s}
           IN WithoutRun(gone) /\ collided' = (collided \/ \E r \in gone : Engaged(r))
        /\ UNCHANGED failures
     \/ Fail /\ UNCHANGED <<sessions, runs, op, collided>>
  /\ UNCHANGED <<trained, modelQueue, listed, pageRuns, dialog, watches, flows, crossed, mounts, births>>

-----------------------------------------------------------------------------
(* Runs: fetched, created, deleted *)

ListOfRunsArrives ==
  /\ \E i \in DOMAIN answers :
       /\ shown' = answers[i].rows
       /\ answers' = RemoveAt(answers, i)
       /\ crossed' = (crossed \/ answers[i].late)
  /\ UNCHANGED <<serverState, modelQueue, listed, selected, dialog, leaving, watches, flows,
                 collided, failures, mounts, births>>

\* A list of runs is lost, or the answer to the creation or the deletion of one:
\* the page goes on showing what it showed.
AnswerLost ==
  /\ Fail /\ crossed' = TRUE
  /\ \/ \E i \in DOMAIN answers : answers' = RemoveAt(answers, i) /\ UNCHANGED flows
     \/ \E f \in flows : f.step \in {"created", "removed"} /\ Ends(f) /\ UNCHANGED answers
  /\ UNCHANGED <<serverState, modelQueue, listed, selected, shown, dialog, leaving, watches,
                 collided, mounts, births>>

\* A new run may get the id of one that was deleted, and with it the
\* explainers that stayed.
PostRun ==
  LET r == NextRun
  IN /\ births.runs < MaxRuns /\ births' = [births EXCEPT !.runs = @ + 1]
     /\ selected \in sessions /\ dialog = 0 /\ ~Handling
     /\ runs' = [runs EXCEPT ![r] = [session |-> selected, status |-> "idle", model |-> 0]]
     /\ collided' = (collided \/ op[r] # noOp \/ Engaged(r) \/ \E w \in watched \cup callbacks : w.run = r)
     /\ Opens(r, "created")
     /\ UNCHANGED <<sessions, op, trained, modelQueue, pageState, crossed, failures, mounts>>

\* handleRunCreated appends to whatever is shown.
RunCreated(f) ==
  /\ f.step = "created" /\ Ends(f)
  /\ ShowsRun(f.run, "idle")
  /\ crossed' = (crossed \/ runs[f.run].session # selected \/ selected = 0)
  /\ UNCHANGED <<serverState, modelQueue, listed, selected, dialog, leaving, watches, collided,
                 failures, mounts, births>>

DeleteRun(r) ==
  /\ shown[r] \in {"idle", "finished", "error"} /\ dialog = 0
  /\ Opens(r, "delete")
  /\ collided' = (collided \/ Engaged(r))
  /\ UNCHANGED <<serverState, modelQueue, pageState, crossed, failures, mounts, births>>

\* delete_run: os.remove comes before the commit, and fails without a file.
RemoveBegins(f) ==
  /\ f.step = "delete" /\ ~Handling
  /\ IF ~InTable(f.run) \/ (runs[f.run].status = "finished" /\ runs[f.run].model = 0)
     THEN Ends(f) /\ UNCHANGED runs
     ELSE /\ Goes(f, "removing")
          /\ runs' = IF runs[f.run].status = "finished"
                     THEN [runs EXCEPT ![f.run].model = 0] ELSE runs
  /\ UNCHANGED <<sessions, op, trained, modelQueue, pageState, history>>

RemoveEnds(f) ==
  /\ f.step = "removing"
  /\ \/ /\ WithoutRun({f.run})
        /\ IF f.live THEN Goes(f, "removed") ELSE Ends(f)
        /\ UNCHANGED <<collided, failures, births>>
     \/ Fail /\ collided' = TRUE /\ Ends(f) /\ UNCHANGED <<runs, op>>
  /\ UNCHANGED <<sessions, trained, modelQueue, pageState, crossed, mounts, births>>

RunRemoved(f) ==
  /\ f.step = "removed" /\ Ends(f)
  /\ ShowsRun(f.run, "absent")
  /\ UNCHANGED <<serverState, modelQueue, listed, selected, dialog, leaving, watches, history>>

-----------------------------------------------------------------------------
(* Training: handleTrainRun, RetrainConfirmDialog, executeTraining         *)

Room == trained + Cardinality(flows) < MaxTrained

\* A run that has been trained is asked about first; one that failed may have
\* left metrics, and then has been trained as well.
TrainRun(r) ==
  /\ shown[r] \in {"idle", "finished", "error"} /\ dialog = 0 /\ Room
  /\ \/ shown[r] # "finished" /\ Opens(r, "reset")
     \/ shown[r] # "idle" /\ Opens(r, "count")
  /\ collided' = (collided \/ Training(r))
  /\ UNCHANGED <<serverState, modelQueue, pageState, crossed, failures, mounts, births>>

\* The dialog opens when there are operations, in place of another one that
\* is open.
OperationsCounted(f) ==
  /\ f.step = "count" /\ ~Handling
  /\ IF op[f.run] # noOp /\ InTable(f.run)
     THEN Ends(f) /\ dialog' = (IF f.live THEN f.run ELSE dialog)
     ELSE Goes(f, "reset") /\ UNCHANGED dialog
  /\ UNCHANGED <<serverState, modelQueue, listed, pageRuns, leaving, watches, history>>

\* "If check fails, proceed with training anyway": the operations stay.
CountFails(f) ==
  /\ f.step = "count" /\ Fail
  /\ collided' = TRUE
  /\ Goes(f, "reset")
  /\ UNCHANGED <<serverState, modelQueue, pageState, crossed, mounts, births>>

\* Mutant: the operations are left to the reset.
ConfirmRetrainOnly ==
  /\ dialog # 0 /\ Room
  /\ Opens(dialog, "reset")
  /\ collided' = (collided \/ Training(dialog))
  /\ UNCHANGED <<serverState, modelQueue, pageState, crossed, failures, mounts, births>>

\* The dialog stays open while the training is being started.
ConfirmRetrain ==
  /\ dialog # 0 /\ Room
  /\ Opens(dialog, "operations")
  /\ collided' = (collided \/ Training(dialog))
  /\ UNCHANGED <<serverState, modelQueue, pageState, crossed, failures, mounts, births>>

CancelRetrain ==
  /\ dialog # 0
  /\ dialog' = 0
  /\ UNCHANGED <<serverState, modelQueue, listed, pageRuns, leaving, watches, flows, history>>

DeleteOperations(f) ==
  /\ f.step = "operations" /\ ~Handling
  /\ IF InTable(f.run)
     THEN op' = [op EXCEPT ![f.run] = noOp] /\ Goes(f, "reset")
     ELSE Ends(f) /\ UNCHANGED op
  /\ UNCHANGED <<sessions, runs, trained, modelQueue, pageState, history>>

\* reset_run removes the files, then the row is committed.
ResetBegins(f) ==
  /\ f.step = "reset" /\ ~Handling
  /\ IF InTable(f.run)
     THEN runs' = [runs EXCEPT ![f.run].model = 0] /\ Goes(f, "resetting")
     ELSE Ends(f) /\ UNCHANGED runs
  /\ UNCHANGED <<sessions, op, trained, modelQueue, pageState, history>>

\* Mutant: the row keeps its status until the job is there.
ResetEndsLater(f) ==
  /\ f.step = "resetting"
  /\ Goes(f, "enqueue")
  /\ UNCHANGED <<serverState, modelQueue, pageState, history>>

\* The commit may fail when the files are gone already.
ResetEnds(f) ==
  /\ f.step = "resetting"
  /\ \/ /\ runs' = [runs EXCEPT ![f.run].status = "idle"]
        /\ Goes(f, "enqueue")
        /\ UNCHANGED <<collided, failures>>
     \/ Fail /\ collided' = TRUE /\ Ends(f) /\ UNCHANGED runs
  /\ UNCHANGED <<sessions, op, trained, modelQueue, pageState, crossed, mounts, births>>

EnqueueRun(f) ==
  /\ f.step = "enqueue" /\ ~Handling
  /\ IF InTable(f.run)
     THEN /\ trained' = trained + 1
          /\ runs' = [runs EXCEPT ![f.run].status = "delivered"]
          /\ modelJobs' = Append(modelJobs, [kind |-> "train", run |-> f.run, job |-> trained'])
          /\ flows' = (flows \ {f}) \cup
               (IF f.live THEN {[f EXCEPT !.step = "started", !.job = trained']} ELSE {})
     ELSE Ends(f) /\ UNCHANGED <<trained, runs, modelJobs>>
  /\ UNCHANGED <<sessions, op, inHand, pageState, history>>

\* put raises (JobQueue's PutFails): the row is DELIVERED, and no job is there.
EnqueueBreaks(f) ==
  /\ f.step = "enqueue" /\ InTable(f.run) /\ ~Handling /\ Fail
  /\ runs' = [runs EXCEPT ![f.run].status = "delivered"] /\ Ends(f)
  /\ forsaken' = forsaken \cup {f.run} /\ unaware' = TRUE
  /\ UNCHANGED <<sessions, op, trained, modelQueue, listed, pageRuns, dialog, leaving, watched,
                 callbacks, collided, crossed, mounts, births>>

\* The dialog is closed, also one that is open for another run.  An answer
\* about an earlier training that is still on its way is late from now on.
TrainingStarted(f) ==
  /\ f.step = "started" /\ Ends(f)
  /\ IF shown[f.run] # "absent" THEN ShowsRun(f.run, "delivered")
     ELSE answers' = Overtaken /\ UNCHANGED shown
  /\ watched' = watched \cup {[run |-> f.run, job |-> f.job]}
  /\ callbacks' = {[d EXCEPT !.late = @ \/ d.run = f.run] : d \in callbacks}
  /\ forsaken' = forsaken \ {f.run}
  /\ dialog' = 0
  /\ UNCHANGED <<serverState, modelQueue, listed, selected, leaving, unaware, history>>

\* A request is lost, or is answered with an error.
FlowFails(f) ==
  /\ f.step \in {"operations", "reset", "enqueue", "delete"} /\ Fail
  /\ Ends(f)
  /\ UNCHANGED <<serverState, modelQueue, pageState, collided, crossed, mounts, births>>

\* The job is in the queue and the answer that says so is lost: the page takes
\* the training as one that could not be started, and nobody watches it.
StartUnheard(f) ==
  /\ f.step = "started" /\ Fail /\ Ends(f)
  /\ forsaken' = forsaken \cup {f.run} /\ unaware' = TRUE
  /\ UNCHANGED <<serverState, modelQueue, listed, pageRuns, dialog, leaving, watched, callbacks,
                 collided, crossed, mounts, births>>

-----------------------------------------------------------------------------
(* The end of a job reaches the page *)

\* Mutant: the callback only notifies.
JobToldOnly(w) ==
  /\ w \in watched /\ ~Handling
  /\ inHand.job # w.job /\ \A i \in DOMAIN modelJobs : modelJobs[i].job # w.job
  /\ watched' = watched \ {w}
  /\ UNCHANGED <<serverState, modelQueue, listed, pageRuns, dialog, leaving, callbacks, forsaken,
                 unaware, flows, history>>

\* A watched job has ended (JobPoller's WatchTold): the callback asks for its
\* run.  When that request fails, it says so and leaves the run as it is shown.
JobTold(w) ==
  /\ w \in watched /\ ~Handling
  /\ inHand.job # w.job /\ \A i \in DOMAIN modelJobs : modelJobs[i].job # w.job
  /\ watched' = watched \ {w}
  /\ \/ /\ callbacks' = IF InTable(w.run)
                        THEN callbacks \cup {[run |-> w.run, job |-> w.job,
                                              status |-> runs[w.run].status, late |-> FALSE]}
                        ELSE callbacks
        /\ UNCHANGED <<forsaken, failures>>
     \/ Fail /\ forsaken' = forsaken \cup {w.run} /\ UNCHANGED callbacks
  /\ UNCHANGED <<serverState, modelQueue, listed, pageRuns, dialog, leaving, unaware, flows,
                 collided, crossed, mounts, births>>

\* Answers of two trainings of one run may arrive in either order.
RunArrives(c) ==
  /\ c \in callbacks
  /\ callbacks' = {[d EXCEPT !.late = @ \/ (d.run = c.run /\ d.job < c.job)] : d \in callbacks \ {c}}
  /\ crossed' = (crossed \/ c.late)
  /\ IF shown[c.run] # "absent" THEN ShowsRun(c.run, c.status)
     ELSE answers' = Overtaken /\ UNCHANGED shown
  /\ UNCHANGED <<serverState, modelQueue, listed, selected, dialog, leaving, watched, forsaken, unaware,
                 flows, collided, failures, mounts, births>>

\* The page is left or reloaded: requests that were sent are handled, their
\* answers and the ends of its jobs find nothing to change.
Remount ==
  /\ Mishap /\ mounts' = mounts + 1
  /\ listed' = sessions /\ selected' = 0 /\ shown' = [r \in RunIds |-> "absent"]
  /\ dialog' = 0 /\ watched' = {} /\ callbacks' = {} /\ answers' = <<>>
  /\ flows' = {[f EXCEPT !.live = FALSE] :
                 f \in {g \in flows : g.step \notin {"created", "removed", "started"}}}
  /\ forsaken' = forsaken \cup {r \in RunIds : Training(r)}
  /\ unaware' = (unaware \/ \E r \in RunIds : Training(r))
  /\ crossed' = (crossed \/ leaving # {})
  /\ UNCHANGED <<serverState, modelQueue, leaving, collided, failures, births>>

-----------------------------------------------------------------------------
(* Operations: an explanation of a run's model, a prediction with it       *)

\* The row and its job are created by two requests of one handler.
PostOp(r, kind) ==
  /\ shown[r] = "finished" /\ InTable(r) /\ op[r] = noOp /\ dialog = 0 /\ ~Handling
  /\ births.ops < MaxOps /\ births' = [births EXCEPT !.ops = @ + 1]
  /\ op' = [op EXCEPT ![r] = [kind |-> kind, model |-> 0]]
  /\ modelJobs' = Append(modelJobs, [kind |-> "operation", run |-> r, job |-> 0])
  /\ collided' = (collided \/ Engaged(r))
  /\ UNCHANGED <<sessions, runs, trained, inHand, pageState, flows, crossed, failures, mounts>>

-----------------------------------------------------------------------------
(* The consumer: ModelJob.run, PredictJob.run and ExplainerJob.run         *)

\* A training whose run is gone fails, as does an operation that is gone or
\* whose run has no model.
TakeModelJob ==
  /\ modelJobs # <<>> /\ inHand = noWork
  /\ modelJobs' = Tail(modelJobs)
  /\ LET j == Head(modelJobs)
     IN IF j.kind = "train"
        THEN IF InTable(j.run)
             THEN /\ inHand' = [kind |-> "train", run |-> j.run, job |-> j.job, model |-> 0]
                  /\ runs' = [runs EXCEPT ![j.run].status = "started"]
             ELSE UNCHANGED <<inHand, runs>>
        ELSE /\ inHand' = IF op[j.run] # noOp /\ runs[j.run].model # 0
                        THEN [kind |-> "operation", run |-> j.run, job |-> 0,
                              model |-> runs[j.run].model]
                        ELSE noWork
             /\ UNCHANGED runs
  /\ UNCHANGED <<sessions, op, trained, pageState, flows, history>>

\* model.save, and run_path is committed.
SaveModel ==
  /\ inHand.kind = "train" /\ InTable(inHand.run)
  /\ runs' = [runs EXCEPT ![inHand.run].model = inHand.job]
  /\ inHand' = [inHand EXCEPT !.kind = "saved"]
  /\ UNCHANGED <<sessions, op, trained, modelJobs, pageState, flows, history>>

TrainingEnds ==
  /\ inHand.kind \in {"train", "saved"}
  /\ LET status == IF inHand.kind = "saved" THEN "finished" ELSE "error"
     IN runs' = IF InTable(inHand.run) THEN [runs EXCEPT ![inHand.run].status = status] ELSE runs
  /\ inHand' = noWork
  /\ UNCHANGED <<sessions, op, trained, modelJobs, pageState, flows, history>>

OperationEnds ==
  /\ inHand.kind = "operation"
  /\ op' = IF op[inHand.run] # noOp THEN [op EXCEPT ![inHand.run].model = inHand.model] ELSE op
  /\ inHand' = noWork
  /\ UNCHANGED <<sessions, runs, trained, modelJobs, pageState, flows, history>>

-----------------------------------------------------------------------------
HandlerStep(f) ==
  \/ RunCreated(f) \/ RunRemoved(f) \/ TrainingStarted(f)
  \/ OperationsCounted(f) \/ DeleteOperations(f) \/ EnqueueRun(f)
  \/ ResetBegins(f) \/ ResetEnds(f) \/ RemoveBegins(f) \/ RemoveEnds(f)
ModelConsumer == TakeModelJob \/ SaveModel \/ TrainingEnds \/ OperationEnds

ModelsPageNext ==
  \/ \E s \in 0..MaxSessions : SelectSession(s) \/ DeleteSession(s) \/ SessionDeleted(s)
  \/ CreateSession \/ PostRun \/ ListOfRunsArrives \/ AnswerLost
  \/ \E r \in RunIds : DeleteRun(r) \/ TrainRun(r)
  \/ \E r \in RunIds, kind \in {"explainer", "prediction"} : PostOp(r, kind)
  \/ \E f \in flows : HandlerStep(f) \/ CountFails(f) \/ FlowFails(f)
  \/ \E f \in flows : EnqueueBreaks(f) \/ StartUnheard(f)
  \/ ConfirmRetrain \/ CancelRetrain \/ Remount
  \/ \E w \in watched : JobTold(w)
  \/ \E c \in callbacks : RunArrives(c)
  \/ ModelConsumer

ModelsPageSpec == ModelsPageInit /\ [][ModelsPageNext]_modelsPageVars

-----------------------------------------------------------------------------
\* Tables, queue and page have the shape they should have.
ModelsPageTypeOK ==
  LET statuses == {"absent", "idle", "finished", "error"} \cup RunInWork
  IN /\ sessions \cup listed \cup leaving \subseteq 1..MaxSessions
     /\ \A r \in RunIds :
          /\ runs[r].session \in 0..MaxSessions /\ runs[r].model \in 0..trained
          /\ runs[r].status \in statuses /\ op[r].model \in 0..trained
     /\ shown \in [RunIds -> statuses]
     /\ trained \in 0..MaxTrained /\ failures + mounts \in 0..MaxMishaps
     /\ selected \in listed \cup {0} /\ dialog \in 0..MaxRuns
     /\ Cardinality({f.id : f \in flows}) = Cardinality(flows)
     /\ forsaken \subseteq RunIds /\ {unaware, collided, crossed} \subseteq BOOLEAN

\* A FINISHED run has its model's file, except while the handler that resets
\* or deletes it is between the file and the commit.
FinishedHasModel ==
  ~collided => \A r \in RunIds : runs[r].status = "finished" =>
    \/ runs[r].model # 0
    \/ \E f \in flows : f.run = r /\ f.step \in {"resetting", "removing"}

\* Whatever explains a FINISHED run, or was predicted with it, was computed
\* with the model the run has now: training again takes the old operations
\* away.  (A page that shows an old status trains without asking: after a late
\* answer, and when it knows nothing of a training.)
OpsBelongToModel ==
  ~collided /\ ~crossed /\ ~unaware => \A r \in RunIds : runs[r].status = "finished" =>
    \/ op[r].model \in {0, runs[r].model}
    \/ \E f \in flows : f.run = r /\ f.step = "removing"

AtRest ==
  /\ flows = {} /\ leaving = {} /\ watched = {} /\ callbacks = {} /\ answers = <<>>
  /\ modelJobs = <<>> /\ inHand = noWork

\* At rest the page shows the selected session's runs as they are, and the
\* sessions that exist, if no answer reached it late, no request failed and it
\* was not left during a training.
ShownIsSelected ==
  AtRest /\ ~collided /\ ~crossed /\ ~unaware /\ failures = 0 =>
    /\ listed = sessions
    /\ \A r \in RunIds :
         shown[r] = IF selected # 0 /\ runs[r].session = selected THEN runs[r].status ELSE "absent"

\* A run that is shown in work is followed: something is under way that will
\* tell the page how it ended.  Spinners do stay, but only of runs that are
\* forsaken (until they are trained again or listed anew), and, in collided or
\* crossed histories, after overlapping work or an answer that was late or lost.
RunShownIsFollowed ==
  ~collided /\ ~crossed => \A r \in RunIds \ forsaken : shown[r] \in RunInWork =>
    \/ \E w \in watched \cup callbacks : w.run = r
    \/ \E f \in flows : f.run = r /\ f.step \in {"started", "removed"}
    \/ answers # <<>>
=============================================================================
