--------------------------- MODULE ModelsPageProofs ---------------------------
(***************************************************************************)
(* Proofs about ModelsPage, for any number of sessions, runs, trainings    *)
(* and handlers.  The first part: a FINISHED run has the file of its       *)
(* model.  The second: while work on a run met no other work and no answer *)
(* was late, operations belong to the model, a run that is shown in work   *)
(* is followed or forsaken, and at rest the page shows what is there.  The *)
(* third: the types, with the trainings counted before they are enqueued.  *)
(***************************************************************************)
EXTENDS ModelsPage, DataFacts, FiniteSetTheorems

Statuses == {"absent", "idle", "finished", "error"} \cup RunInWork
RunRow == [session : Nat, status : Statuses, model : Nat]
Steps == {"created", "count", "operations", "reset", "resetting", "enqueue", "started", "delete",
          "removing", "removed"}
Flow == [id : Nat, run : RunIds, step : Steps, job : Nat, live : BOOLEAN]
ModelJob == [kind : {"train", "operation"}, run : RunIds, job : Nat]

TablesTyped ==
  /\ sessions \in SUBSET (1..MaxSessions) /\ trained \in Nat
  /\ births.runs \in 0..MaxRuns /\ births = [runs |-> births.runs, ops |-> births.ops]
  /\ runs \in [RunIds -> RunRow]
  /\ \A r \in RunIds : InTable(r) => r <= births.runs

\* The jobs that train have a number; 0 stands for no model.
QueueTyped ==
  /\ modelJobs \in Seq(ModelJob)
  /\ \A i \in DOMAIN modelJobs : modelJobs[i].kind = "train" => modelJobs[i].job # 0
  /\ inHand \in [kind : {"none", "train", "saved", "operation"}, run : 0..MaxRuns, job : Nat,
                 model : Nat]
  /\ inHand.kind \in {"train", "saved"} => inHand.job # 0 /\ inHand.run \in RunIds

PageTyped ==
  /\ flows \subseteq Flow /\ dialog \in 0..MaxRuns
  /\ \A f \in flows : f.step = "resetting" => f.run <= births.runs

Typed == TablesTyped /\ QueueTyped /\ PageTyped

\* The handlers that go on to change a run, and the jobs that train it.
Active(f) ==
  f.step \in {"count", "operations", "reset", "resetting", "enqueue", "delete", "removing"}
HasJob(r) ==
  \/ \E i \in DOMAIN modelJobs : modelJobs[i].run = r /\ modelJobs[i].kind = "train"
  \/ inHand.run = r /\ inHand.kind \in {"train", "saved"}

\* A run is in one hand at a time, and the model that was saved last is there.
OneFlow == \A f, g \in flows : Active(f) /\ Active(g) /\ f.run = g.run => f = g
FlowOrJob == \A f \in flows : Active(f) => ~HasJob(f.run)
Saved == inHand.kind = "saved" /\ InTable(inHand.run) => runs[inHand.run].model # 0
Exclusive == ~collided => OneFlow /\ FlowOrJob /\ Saved

ModelsInv == Typed /\ Exclusive /\ FinishedHasModel

USE ModelsPageAssumption

-----------------------------------------------------------------------------
\* The next key of a run is at most one more than the number of runs created.
LEMMA NextRunBound ==
  ASSUME TablesTyped
  PROVE  NextRun \in 1..(births.runs + 1)
<1> DEFINE S == {0} \cup {r \in RunIds : InTable(r)}
<1>1. births.runs \in Nat /\ S \in SUBSET (0..births.runs) /\ S # {}
  BY DEF TablesTyped, RunIds
<1>2. Max(S) \in S
  <2> HIDE DEF S
  <2> QED
    BY <1>1, MaxIsMax
<1>3. NextRun = 1 + Max(S)
  BY DEF NextRun
<1>4. Max(S) \in 0..births.runs
  BY <1>1, <1>2
<1> HIDE DEF S
<1> QED
  BY <1>1, <1>3, <1>4

\* The next key of a session is a number.
LEMMA NextSessionBound ==
  ASSUME TablesTyped
  PROVE  1 + Max({0} \cup sessions) \in Nat \ {0}
<1> DEFINE S == {0} \cup sessions
<1>1. MaxSessions \in Nat /\ S \in SUBSET (0..MaxSessions) /\ S # {}
  BY DEF TablesTyped
<1> HIDE DEF S
<1>2. Max(S) \in S
  BY <1>1, MaxIsMax
<1>3. Max(S) \in 0..MaxSessions
  BY <1>1, <1>2
<1>4. 1 + Max(S) \in Nat \ {0}
  BY <1>1, <1>3
<1> QED
  BY <1>4 DEF S

\* Rows of runs are written.
LEMMA RunsWritten ==
  ASSUME TablesTyped, runs' \in [RunIds -> RunRow], \A r \in RunIds : InTable(r)' => r <= births.runs,
         UNCHANGED <<sessions, trained, births>>
  PROVE  TablesTyped'
  BY DEF TablesTyped

\* A handler's step: one flow goes on, or ends.
LEMMA FlowGoesOn ==
  ASSUME ~collided => OneFlow /\ FlowOrJob, collided => collided',
         NEW f \in flows, NEW g, g.run = f.run, Active(g) => Active(f),
         flows' \subseteq (flows \ {f}) \cup {g},
         \A r \in RunIds : HasJob(r)' => HasJob(r), PageTyped
  PROVE  ~collided' => (OneFlow /\ FlowOrJob)'
<1> SUFFICES ASSUME ~collided'  PROVE (OneFlow /\ FlowOrJob)'
  OBVIOUS
<1>1. OneFlow /\ FlowOrJob
  OBVIOUS
<1>2. \A h \in flows : h.run \in RunIds
  BY DEF PageTyped, Flow
<1>3. OneFlow'
  BY <1>1 DEF OneFlow
<1>4. FlowOrJob'
  BY <1>1, <1>2 DEF FlowOrJob
<1> QED
  BY <1>3, <1>4

\* A handler begins.
LEMMA FlowOpens ==
  ASSUME ~collided => OneFlow /\ FlowOrJob, NEW r, NEW step \in Steps, Opens(r, step),
         UNCHANGED <<modelJobs, inHand>>,
         collided => collided',
         Active([id |-> 1, run |-> r, step |-> step, job |-> 0, live |-> TRUE]) =>
           (Training(r) => collided')
  PROVE  ~collided' => (OneFlow /\ FlowOrJob)'
<1> SUFFICES ASSUME ~collided'  PROVE (OneFlow /\ FlowOrJob)'
  OBVIOUS
<1>0. PICK n \in 1..MaxFlows :
        flows' = flows \cup {[id |-> n, run |-> r, step |-> step, job |-> 0, live |-> TRUE]}
  BY DEF Opens
<1>1. PICK g : /\ flows' = flows \cup {g} /\ g.run = r /\ g.step = step
  <2> DEFINE g == [id |-> n, run |-> r, step |-> step, job |-> 0, live |-> TRUE]
  <2>1. g.run = r /\ g.step = step
    OBVIOUS
  <2> HIDE DEF g
  <2> QED
    BY <1>0, <2>1 DEF g
<1>2. Active(g) => ~Training(r)
  BY <1>1 DEF Active
<1>3. OneFlow'
  BY <1>1, <1>2 DEF OneFlow, Training
<1>4. FlowOrJob'
  BY <1>1, <1>2 DEF FlowOrJob, Training, HasJob
<1> QED
  BY <1>3, <1>4

\* The handler that opens is one of the flows.
LEMMA FlowOpensTyped ==
  ASSUME PageTyped, NEW r \in RunIds, NEW step \in Steps, Opens(r, step)
  PROVE  /\ flows' \subseteq Flow /\ flows \subseteq flows'
         /\ \A g \in flows' : g \in flows \/ g.step = step
<1>1. PICK n \in 1..MaxFlows :
        flows' = flows \cup {[id |-> n, run |-> r, step |-> step, job |-> 0, live |-> TRUE]}
  BY DEF Opens
<1> DEFINE g == [id |-> n, run |-> r, step |-> step, job |-> 0, live |-> TRUE]
<1>2. g \in Flow /\ g.step = step
  BY DEF Flow
<1> HIDE DEF g
<1>3. flows' = flows \cup {g}
  BY <1>1 DEF g
<1> QED
  BY <1>2, <1>3 DEF PageTyped

\* A flow at its next step is a flow of the same run.
LEMMA FlowGoes ==
  ASSUME PageTyped, NEW f \in flows, NEW step \in Steps
  PROVE  LET g == [f EXCEPT !.step = step]
         IN g \in Flow /\ g.run = f.run /\ g.step = step
  BY DEF PageTyped, Flow

\* The server, the queue and the handlers are as they were.
LEMMA PageOnly ==
  ASSUME ModelsInv, UNCHANGED <<runs, trained, births, modelJobs, inHand, flows, collided>>,
         sessions' \in SUBSET (1..MaxSessions), dialog' \in 0..MaxRuns
  PROVE  ModelsInv'
<1>1. Typed'
  BY DEF ModelsInv, Typed, TablesTyped, QueueTyped, PageTyped, InTable
<1>2. Exclusive'
  BY DEF ModelsInv, Exclusive, OneFlow, FlowOrJob, HasJob, Saved, InTable
<1>3. FinishedHasModel'
  BY DEF ModelsInv, FinishedHasModel
<1> QED
  BY <1>1, <1>2, <1>3 DEF ModelsInv

\* Runs go.
LEMMA RunsGo ==
  ASSUME ModelsInv, NEW gone \in SUBSET RunIds, WithoutRun(gone), collided => collided',
         sessions' \in SUBSET (1..MaxSessions), UNCHANGED <<trained, births>>
  PROVE  /\ TablesTyped'
         /\ \A r \in RunIds : runs'[r] = IF r \in gone THEN noRun ELSE runs[r]
<1>1. \A r \in RunIds : runs'[r] = IF r \in gone THEN noRun ELSE runs[r]
  BY DEF WithoutRun
<1>2. noRun \in RunRow
  BY DEF noRun, RunRow, Statuses
<1>3. runs' \in [RunIds -> RunRow]
  BY <1>2 DEF WithoutRun, ModelsInv, Typed, TablesTyped
<1>4. \A r \in RunIds : InTable(r)' => InTable(r)
  BY <1>1 DEF InTable
<1> QED
  BY <1>1, <1>3, <1>4 DEF ModelsInv, Typed, TablesTyped

-----------------------------------------------------------------------------
(* Sessions and the page's lists *)

\* The clicks on sessions change the page only.
LEMMA SessionsStep ==
  ASSUME ModelsInv, NEW s \in 0..MaxSessions,
         SelectSession(s) \/ DeleteSession(s) \/ CreateSession
  PROVE  ModelsInv'
<1>1. /\ UNCHANGED <<runs, trained, births, modelJobs, inHand, flows, collided, dialog>>
      /\ CreateSession \/ sessions' = sessions
  BY DEF SelectSession, DeleteSession, CreateSession, serverState, modelQueue, history
<1>2. sessions' \in SUBSET (1..MaxSessions)
  <2>1. CASE CreateSession
    <3> DEFINE n == 1 + Max({0} \cup sessions)
    <3>1. sessions' = sessions \cup {n} /\ n <= MaxSessions
      BY <2>1 DEF CreateSession
    <3>2. n \in Nat \ {0} /\ MaxSessions \in Nat
      BY NextSessionBound DEF ModelsInv, Typed
    <3> HIDE DEF n
    <3> QED
      BY <3>1, <3>2 DEF ModelsInv, Typed, TablesTyped
  <2> QED
    BY <1>1, <2>1 DEF ModelsInv, Typed, TablesTyped
<1> QED
  BY <1>1, <1>2, PageOnly DEF ModelsInv, Typed, PageTyped

\* A session goes with its runs.
LEMMA SessionDeletedStep ==
  ASSUME ModelsInv, NEW s \in 0..MaxSessions, SessionDeleted(s)
  PROVE  ModelsInv'
<1>1. UNCHANGED <<trained, births, modelJobs, inHand, flows, dialog>>
  <2>1. UNCHANGED births
    BY DEF SessionDeleted, Fail
  <2> QED
    BY <2>1 DEF SessionDeleted, modelQueue
<1>2. CASE UNCHANGED <<sessions, runs, collided>>
  BY <1>1, <1>2, PageOnly DEF ModelsInv, Typed, TablesTyped, PageTyped
<1>3. CASE ~UNCHANGED <<sessions, runs, collided>>
  <2> DEFINE gone == {r \in RunIds : runs[r].session = s}
  <2>1. sessions' = sessions \ {s} /\ WithoutRun(gone) /\ (collided => collided')
    BY <1>3 DEF SessionDeleted
  <2>2. /\ TablesTyped'
        /\ \A r \in RunIds : runs'[r] = IF r \in gone THEN noRun ELSE runs[r]
    <3>1. gone \in SUBSET RunIds /\ sessions' \in SUBSET (1..MaxSessions)
      BY <2>1 DEF ModelsInv, Typed, TablesTyped
    <3> HIDE DEF gone
    <3> QED
      BY <1>1, <2>1, <3>1, RunsGo
  <2>3. Typed'
    BY <1>1, <2>2 DEF ModelsInv, Typed, QueueTyped, PageTyped
  <2> HIDE DEF gone
  <2>4. Exclusive'
    BY <1>1, <2>1, <2>2 DEF ModelsInv, Typed, QueueTyped, Exclusive, OneFlow, FlowOrJob, HasJob, Saved, InTable
  <2>5. FinishedHasModel'
    BY <1>1, <2>1, <2>2 DEF ModelsInv, FinishedHasModel, noRun
  <2> QED
    BY <2>3, <2>4, <2>5 DEF ModelsInv
<1> QED
  BY <1>2, <1>3

\* Answers that arrive, and a dialog that is cancelled, change the page only.
LEMMA PageStep ==
  ASSUME ModelsInv,
         \/ ListOfRunsArrives \/ CancelRetrain
         \/ \E w \in watched : JobTold(w)
         \/ \E c \in callbacks : RunArrives(c)
  PROVE  ModelsInv'
<1>1. UNCHANGED <<sessions, runs, trained, births, modelJobs, inHand, flows, collided>>
  BY DEF ListOfRunsArrives, CancelRetrain, JobTold, RunArrives, serverState, modelQueue, history, Fail
<1>2. dialog' \in {dialog, 0}
  BY DEF ListOfRunsArrives, CancelRetrain, JobTold, RunArrives
<1>3. sessions' \in SUBSET (1..MaxSessions) /\ dialog' \in 0..MaxRuns
  BY <1>1, <1>2 DEF ModelsInv, Typed, TablesTyped, PageTyped
<1> QED
  BY <1>1, <1>3, PageOnly

-----------------------------------------------------------------------------
(* Runs are created and deleted *)

\* A new run has no handlers and no jobs, or the key has been met before.
LEMMA PostRunStep ==
  ASSUME ModelsInv, PostRun
  PROVE  ModelsInv'
<1> DEFINE r == NextRun
<1> DEFINE row == [session |-> selected, status |-> "idle", model |-> 0]
<1>1. /\ births.runs < MaxRuns /\ births' = [births EXCEPT !.runs = @ + 1]
      /\ runs' = [runs EXCEPT ![r] = row] /\ selected \in sessions
      /\ UNCHANGED <<sessions, trained, modelJobs, inHand, dialog>>
      /\ collided' = (collided \/ op[r] # noOp \/ Engaged(r) \/ \E w \in watched \cup callbacks : w.run = r)
      /\ Opens(r, "created")
  BY DEF PostRun, modelQueue, pageState
<1>2. r \in RunIds /\ r <= births.runs + 1 /\ births.runs \in Nat
  BY <1>1, NextRunBound DEF RunIds, ModelsInv, Typed, TablesTyped
<1>3. births'.runs = births.runs + 1 /\ births' = [runs |-> births.runs + 1, ops |-> births.ops]
  BY <1>1 DEF ModelsInv, Typed, TablesTyped
<1>4. row \in RunRow /\ row.model = 0 /\ row.status = "idle"
  BY <1>1 DEF RunRow, Statuses, ModelsInv, Typed, TablesTyped
<1> HIDE DEF r, row
<1>5. \A q \in RunIds : runs'[q] = IF q = r THEN row ELSE runs[q]
  BY <1>1, <1>2 DEF ModelsInv, Typed, TablesTyped
<1>6. TablesTyped'
  <2>1. runs' \in [RunIds -> RunRow]
    BY <1>1, <1>2, <1>4 DEF ModelsInv, Typed, TablesTyped
  <2>2. \A q \in RunIds : InTable(q)' => q <= births'.runs
    <3> SUFFICES ASSUME NEW q \in RunIds, InTable(q)'  PROVE q <= births.runs + 1
      BY <1>3
    <3>1. CASE q = r
      BY <3>1, <1>2
    <3>2. CASE q # r
      BY <3>2, <1>2, <1>5 DEF InTable, RunIds, ModelsInv, Typed, TablesTyped
    <3> QED
      BY <3>1, <3>2
  <2>3. births'.runs \in 0..MaxRuns
    BY <1>1, <1>2, <1>3 DEF ModelsInv, Typed, TablesTyped
  <2>5. births' = [runs |-> births'.runs, ops |-> births'.ops]
    BY <1>3
  <2>4. UNCHANGED <<sessions, trained>>
    BY <1>1
  <2> QED
    BY <2>1, <2>2, <2>3, <2>4, <2>5 DEF ModelsInv, Typed, TablesTyped
<1>11. /\ flows' \subseteq Flow /\ flows \subseteq flows'
       /\ \A g \in flows' : g \in flows \/ g.step = "created"
  <2>1. PageTyped
    BY DEF ModelsInv, Typed
  <2> QED
    BY <1>1, <1>2, <2>1, FlowOpensTyped DEF Steps
<1>7. Typed'
  <2>1. \A g \in flows' : g.step = "resetting" => g.run <= births'.runs
    BY <1>2, <1>3, <1>11 DEF ModelsInv, Typed, PageTyped, Flow, RunIds
  <2> QED
    BY <1>1, <1>6, <1>11, <2>1 DEF ModelsInv, Typed, QueueTyped, PageTyped
<1>8. ~collided' => (OneFlow /\ FlowOrJob)'
  <2>1. ~Active([id |-> 1, run |-> r, step |-> "created", job |-> 0, live |-> TRUE])
    BY DEF Active
  <2>2. collided => collided'
    BY <1>1
  <2> QED
    BY <1>1, <2>1, <2>2, FlowOpens DEF ModelsInv, Exclusive, Steps
<1>9. ~collided' => Saved'
  BY <1>1, <1>5 DEF ModelsInv, Typed, QueueTyped, Exclusive, Saved, InTable, Engaged
<1>12. collided => collided'
  BY <1>1
<1>10. FinishedHasModel'
  BY <1>12, <1>4, <1>5, <1>11 DEF FinishedHasModel, ModelsInv
<1> QED
  BY <1>7, <1>8, <1>9, <1>10 DEF ModelsInv, Exclusive

\* A handler opens on a run that has no other, or work meets work.
LEMMA OpeningStep ==
  ASSUME ModelsInv, NEW r \in RunIds, NEW step \in Steps, step # "resetting", Opens(r, step),
         UNCHANGED <<runs, trained, births, sessions, modelJobs, inHand, dialog>>,
         collided' = (collided \/ Training(r)) \/ collided' = (collided \/ Engaged(r))
  PROVE  ModelsInv'
<1>1. Training(r) => Engaged(r)
  BY DEF Engaged
<1>6. /\ flows' \subseteq Flow /\ flows \subseteq flows'
      /\ \A g \in flows' : g \in flows \/ g.step = step
  BY FlowOpensTyped DEF ModelsInv, Typed
<1>2. Typed'
  BY <1>6 DEF ModelsInv, Typed, TablesTyped, QueueTyped, PageTyped, InTable
<1>3. ~collided' => (OneFlow /\ FlowOrJob)'
  BY <1>1, FlowOpens DEF ModelsInv, Exclusive
<1>4. ~collided' => Saved'
  BY DEF ModelsInv, Exclusive, Saved, InTable
<1>5. FinishedHasModel'
  BY <1>6 DEF FinishedHasModel, ModelsInv
<1> QED
  BY <1>2, <1>3, <1>4, <1>5 DEF ModelsInv, Exclusive

\* The clicks on a run open such handlers.
LEMMA ClickStep ==
  ASSUME ModelsInv, ConfirmRetrain \/ \E r \in RunIds : DeleteRun(r) \/ TrainRun(r)
  PROVE  ModelsInv'
<1>1. CASE ConfirmRetrain
  <2>1. dialog \in RunIds
    BY <1>1 DEF ConfirmRetrain, RunIds, ModelsInv, Typed, PageTyped
  <2>2. /\ Opens(dialog, "operations") /\ collided' = (collided \/ Training(dialog))
        /\ UNCHANGED <<runs, trained, births, sessions, modelJobs, inHand, dialog>>
    BY <1>1 DEF ConfirmRetrain, serverState, modelQueue, pageState
  <2> QED
    BY <2>1, <2>2, OpeningStep DEF Steps
<1>2. ASSUME NEW r \in RunIds, DeleteRun(r)  PROVE ModelsInv'
  <2>1. /\ Opens(r, "delete") /\ collided' = (collided \/ Engaged(r))
        /\ UNCHANGED <<runs, trained, births, sessions, modelJobs, inHand, dialog>>
    BY <1>2 DEF DeleteRun, serverState, modelQueue, pageState
  <2> QED
    BY <2>1, OpeningStep DEF Steps
<1>3. ASSUME NEW r \in RunIds, TrainRun(r)  PROVE ModelsInv'
  <2>1. /\ Opens(r, "reset") \/ Opens(r, "count")
        /\ collided' = (collided \/ Training(r))
        /\ UNCHANGED <<runs, trained, births, sessions, modelJobs, inHand, dialog>>
    BY <1>3 DEF TrainRun, serverState, modelQueue, pageState
  <2> QED
    BY <2>1, OpeningStep DEF Steps
<1> QED
  BY <1>1, <1>2, <1>3

\* A handler ends that has the files of no run in its hands.
LEMMA EndingStep ==
  ASSUME ModelsInv, NEW f \in flows, f.step \notin {"resetting", "removing"}, Ends(f),
         UNCHANGED <<runs, trained, births, sessions, modelJobs, inHand, collided>>,
         dialog' \in 0..MaxRuns
  PROVE  ModelsInv'
<1>1. flows' = flows \ {f}
  BY DEF Ends
<1>2. Typed'
  BY <1>1 DEF ModelsInv, Typed, TablesTyped, QueueTyped, PageTyped, InTable
<1>3. Exclusive'
  BY <1>1 DEF ModelsInv, Exclusive, OneFlow, FlowOrJob, HasJob, Saved, InTable
<1>4. FinishedHasModel'
  BY <1>1 DEF ModelsInv, FinishedHasModel
<1> QED
  BY <1>2, <1>3, <1>4 DEF ModelsInv

\* A handler that has the files of no run in its hands goes on.
LEMMA GoingStep ==
  ASSUME ModelsInv, NEW f \in flows, f.step \in {"count", "operations"}, Goes(f, "reset"),
         UNCHANGED <<runs, trained, births, sessions, modelJobs, inHand, dialog>>,
         collided => collided'
  PROVE  ModelsInv'
<1> DEFINE g == [f EXCEPT !.step = "reset"]
<1>1. flows' = (flows \ {f}) \cup {g}
  BY DEF Goes
<1>2. g \in Flow /\ g.run = f.run /\ g.step = "reset" /\ Active(g) /\ Active(f)
  <2>1. g \in Flow /\ g.run = f.run /\ g.step = "reset"
    BY FlowGoes DEF ModelsInv, Typed, Steps
  <2> QED
    BY <2>1 DEF Active
<1> HIDE DEF g
<1>3. Typed'
  BY <1>1, <1>2 DEF ModelsInv, Typed, TablesTyped, QueueTyped, PageTyped, InTable
<1>4. ~collided' => (OneFlow /\ FlowOrJob)'
  BY <1>1, <1>2, FlowGoesOn DEF ModelsInv, Typed, Exclusive, HasJob
<1>5. ~collided' => Saved'
  BY DEF ModelsInv, Exclusive, Saved, InTable
<1>6. FinishedHasModel'
  BY <1>1 DEF ModelsInv, FinishedHasModel
<1> QED
  BY <1>3, <1>4, <1>5, <1>6 DEF ModelsInv, Exclusive

\* The handlers whose answer is the last one end.
LEMMA FlowEnds ==
  ASSUME ModelsInv, NEW f \in flows,
         RunCreated(f) \/ RunRemoved(f) \/ TrainingStarted(f) \/ FlowFails(f) \/ StartUnheard(f)
  PROVE  ModelsInv'
<1>1. /\ Ends(f) /\ f.step \notin {"resetting", "removing"} /\ dialog' \in {dialog, 0}
      /\ UNCHANGED <<runs, trained, births, sessions, modelJobs, inHand, collided>>
  BY DEF RunCreated, RunRemoved, TrainingStarted, FlowFails, StartUnheard, serverState, modelQueue, pageState,
     history, Fail
<1>2. dialog' \in 0..MaxRuns
  BY <1>1 DEF ModelsInv, Typed, PageTyped
<1> QED
  BY <1>1, <1>2, EndingStep

\* An answer is lost: a list of runs, or the last one to a handler.
LEMMA AnswerLostStep ==
  ASSUME ModelsInv, AnswerLost
  PROVE  ModelsInv'
<1>1. UNCHANGED <<runs, trained, births, sessions, modelJobs, inHand, collided, dialog>>
  BY DEF AnswerLost, serverState, modelQueue
<1>2. sessions' \in SUBSET (1..MaxSessions) /\ dialog' \in 0..MaxRuns
  BY <1>1 DEF ModelsInv, Typed, TablesTyped, PageTyped
<1>3. CASE UNCHANGED flows
  BY <1>1, <1>2, <1>3, PageOnly
<1>4. ASSUME NEW f \in flows, f.step \in {"created", "removed"}, Ends(f)  PROVE ModelsInv'
  BY <1>1, <1>2, <1>4, EndingStep
<1> QED
  BY <1>3, <1>4 DEF AnswerLost

\* Counting and deleting operations leaves the run as it is.
LEMMA CountStep ==
  ASSUME ModelsInv, NEW f \in flows, OperationsCounted(f) \/ CountFails(f) \/ DeleteOperations(f)
  PROVE  ModelsInv'
<1>1. /\ UNCHANGED <<runs, trained, births, sessions, modelJobs, inHand>>
      /\ f.step \in {"count", "operations"} /\ (collided => collided')
  BY DEF OperationsCounted, CountFails, DeleteOperations, serverState, modelQueue, pageState,
     history, Fail
<1>2. ASSUME Ends(f), collided' = collided, dialog' \in {f.run, dialog}  PROVE ModelsInv'
  <2>1. dialog' \in 0..MaxRuns
    BY <1>2 DEF ModelsInv, Typed, PageTyped, Flow, RunIds
  <2> QED
    BY <1>1, <1>2, <2>1, EndingStep
<1>3. ASSUME Goes(f, "reset"), dialog' = dialog  PROVE ModelsInv'
  BY <1>1, <1>3, GoingStep
<1>4. CASE OperationsCounted(f)
  BY <1>2, <1>3, <1>4 DEF OperationsCounted, history
<1>5. CASE CountFails(f)
  BY <1>3, <1>5 DEF CountFails, pageState
<1>6. CASE DeleteOperations(f)
  BY <1>2, <1>3, <1>6 DEF DeleteOperations, pageState, history
<1> QED
  BY <1>4, <1>5, <1>6

-----------------------------------------------------------------------------
(* The handlers that change a run *)

\* A run's row is written by a handler that has it to itself.
LEMMA RunWritten ==
  ASSUME ModelsInv, NEW r \in RunIds, NEW row \in RunRow, InTable(r) \/ r <= births.runs,
         runs' = [runs EXCEPT ![r] = row], UNCHANGED <<sessions, trained, births>>
  PROVE  TablesTyped' /\ \A q \in RunIds : runs'[q] = IF q = r THEN row ELSE runs[q]
<1>1. \A q \in RunIds : runs'[q] = IF q = r THEN row ELSE runs[q]
  BY DEF ModelsInv, Typed, TablesTyped
<1>2. runs' \in [RunIds -> RunRow]
  BY DEF ModelsInv, Typed, TablesTyped
<1>3. \A q \in RunIds : InTable(q)' => q <= births.runs
  BY <1>1 DEF InTable, ModelsInv, Typed, TablesTyped
<1> QED
  BY <1>1, <1>2, <1>3, RunsWritten DEF ModelsInv, Typed

\* One field of it is.
LEMMA StatusWritten ==
  ASSUME ModelsInv, NEW r \in RunIds, NEW status \in Statuses
  PROVE  LET row == [runs[r] EXCEPT !.status = status]
         IN row \in RunRow /\ row.status = status /\ row.model = runs[r].model
  BY DEF ModelsInv, Typed, TablesTyped, RunRow

\* Its model is.
LEMMA ModelWritten ==
  ASSUME ModelsInv, NEW r \in RunIds, NEW model \in Nat
  PROVE  LET row == [runs[r] EXCEPT !.model = model]
         IN row \in RunRow /\ row.status = runs[r].status /\ row.model = model
  BY DEF ModelsInv, Typed, TablesTyped, RunRow

\* The reset of a run takes its file, and has the run in hand until the row is written.
LEMMA ResetBeginsStep ==
  ASSUME ModelsInv, NEW f \in flows, ResetBegins(f)
  PROVE  ModelsInv'
<1>0. f.run \in RunIds /\ f.step = "reset" /\ Active(f)
  BY DEF ResetBegins, Active, ModelsInv, Typed, PageTyped, Flow
<1>1. UNCHANGED <<trained, births, sessions, modelJobs, inHand, collided, dialog>>
  BY DEF ResetBegins, modelQueue, pageState, history
<1>2. CASE ~InTable(f.run)
  BY <1>0, <1>1, <1>2, EndingStep DEF ResetBegins, ModelsInv, Typed, PageTyped
<1>3. CASE InTable(f.run)
  <2> DEFINE g == [f EXCEPT !.step = "resetting"]
  <2> DEFINE row == [runs[f.run] EXCEPT !.model = 0]
  <2>1. flows' = (flows \ {f}) \cup {g} /\ runs' = [runs EXCEPT ![f.run] = row]
    BY <1>0, <1>3 DEF ResetBegins, Goes, ModelsInv, Typed, TablesTyped
  <2>2. g \in Flow /\ g.run = f.run /\ g.step = "resetting"
    BY FlowGoes DEF ModelsInv, Typed, Steps
  <2>3. row \in RunRow /\ row.model = 0
    BY <1>0, ModelWritten
  <2> HIDE DEF g, row
  <2>4. TablesTyped' /\ \A q \in RunIds : runs'[q] = IF q = f.run THEN row ELSE runs[q]
    BY <1>0, <1>1, <1>3, <2>1, <2>3, RunWritten
  <2>5. Typed'
    BY <1>1, <1>3, <2>1, <2>2, <2>4 DEF ModelsInv, Typed, TablesTyped, QueueTyped, PageTyped
  <2>6. ~collided' => (OneFlow /\ FlowOrJob)'
    BY <1>0, <1>1, <2>1, <2>2, FlowGoesOn DEF ModelsInv, Typed, Exclusive, HasJob
  <2>7. ~collided' => Saved'
    BY <1>0, <1>1, <1>3, <2>4 DEF ModelsInv, Typed, QueueTyped, Exclusive, FlowOrJob, HasJob, Saved, InTable
  <2>8. FinishedHasModel'
    BY <1>0, <1>1, <2>1, <2>2, <2>4 DEF ModelsInv, FinishedHasModel
  <2> QED
    BY <2>5, <2>6, <2>7, <2>8 DEF ModelsInv, Exclusive
<1> QED
  BY <1>2, <1>3

\* The reset makes it a run that has not started.
LEMMA ResetEndsStep ==
  ASSUME ModelsInv, NEW f \in flows, ResetEnds(f)
  PROVE  ModelsInv'
<1> DEFINE g == [f EXCEPT !.step = "enqueue"]
<1> DEFINE row == [runs[f.run] EXCEPT !.status = "idle"]
<1>0. f.run \in RunIds /\ f.step = "resetting" /\ Active(f)
  BY DEF ResetEnds, Active, ModelsInv, Typed, PageTyped, Flow
<1>1. UNCHANGED <<trained, births, sessions, modelJobs, inHand, dialog>>
  BY DEF ResetEnds, modelQueue, pageState
<1>2. CASE runs' = [runs EXCEPT ![f.run].status = "idle"] /\ Goes(f, "enqueue") /\ UNCHANGED collided
  <2>1. flows' = (flows \ {f}) \cup {g} /\ runs' = [runs EXCEPT ![f.run] = row]
    BY <1>0, <1>2 DEF Goes, ModelsInv, Typed, TablesTyped
  <2>2. g \in Flow /\ g.run = f.run /\ g.step = "enqueue"
    BY FlowGoes DEF ModelsInv, Typed, Steps
  <2>3. row \in RunRow /\ row.status = "idle" /\ row.model = runs[f.run].model
    BY <1>0, StatusWritten DEF Statuses
  <2> HIDE DEF g, row
  <2>4. TablesTyped' /\ \A q \in RunIds : runs'[q] = IF q = f.run THEN row ELSE runs[q]
    BY <1>0, <1>1, <2>1, <2>3, RunWritten DEF ModelsInv, Typed, PageTyped
  <2>5. Typed'
    BY <1>1, <2>1, <2>2, <2>4 DEF ModelsInv, Typed, QueueTyped, PageTyped
  <2>6. ~collided' => (OneFlow /\ FlowOrJob)'
    BY <1>0, <1>1, <1>2, <2>1, <2>2, FlowGoesOn DEF ModelsInv, Typed, Exclusive, HasJob
  <2>7. ~collided' => Saved'
    BY <1>0, <1>1, <1>2, <2>4 DEF ModelsInv, Typed, QueueTyped, Exclusive, FlowOrJob, HasJob, Saved, InTable
  <2>8. FinishedHasModel'
    BY <1>0, <1>1, <1>2, <2>1, <2>3, <2>4 DEF ModelsInv, FinishedHasModel
  <2> QED
    BY <2>5, <2>6, <2>7, <2>8 DEF ModelsInv, Exclusive
<1>3. CASE collided' = TRUE /\ Ends(f) /\ UNCHANGED runs
  <2>1. Typed'
    BY <1>1, <1>3 DEF ModelsInv, Typed, TablesTyped, QueueTyped, PageTyped, InTable, Ends
  <2> QED
    BY <1>3, <2>1 DEF ModelsInv, Exclusive, FinishedHasModel
<1> QED
  BY <1>2, <1>3 DEF ResetEnds

\* The row is written, and there is no job.
LEMMA EnqueueBreaksStep ==
  ASSUME ModelsInv, NEW f \in flows, EnqueueBreaks(f)
  PROVE  ModelsInv'
<1> DEFINE row == [runs[f.run] EXCEPT !.status = "delivered"]
<1>0. f.run \in RunIds /\ f.step = "enqueue" /\ InTable(f.run)
  BY DEF EnqueueBreaks, ModelsInv, Typed, PageTyped, Flow
<1>1. UNCHANGED <<trained, births, sessions, modelJobs, inHand, dialog, collided>> /\ flows' = flows \ {f}
  BY DEF EnqueueBreaks, modelQueue, Ends
<1>2. runs' = [runs EXCEPT ![f.run] = row]
  BY <1>0 DEF EnqueueBreaks, ModelsInv, Typed, TablesTyped
<1>3. row \in RunRow /\ row.status = "delivered" /\ row.model = runs[f.run].model
  BY <1>0, StatusWritten DEF Statuses, RunInWork
<1> HIDE DEF row
<1>4. TablesTyped' /\ \A q \in RunIds : runs'[q] = IF q = f.run THEN row ELSE runs[q]
  BY <1>0, <1>1, <1>2, <1>3, RunWritten
<1>5. Typed'
  BY <1>1, <1>4 DEF ModelsInv, Typed, QueueTyped, PageTyped
<1>6. ~collided' => (OneFlow /\ FlowOrJob)'
  BY <1>1 DEF ModelsInv, Exclusive, OneFlow, FlowOrJob, HasJob
<1>7. ~collided' => Saved'
  BY <1>0, <1>1, <1>3, <1>4 DEF ModelsInv, Typed, QueueTyped, Exclusive, Saved, InTable
<1>8. FinishedHasModel'
  BY <1>0, <1>1, <1>3, <1>4 DEF ModelsInv, FinishedHasModel
<1> QED
  BY <1>5, <1>6, <1>7, <1>8 DEF ModelsInv, Exclusive

\* The deletion of a run takes its file, and then the row.
LEMMA RemoveBeginsStep ==
  ASSUME ModelsInv, NEW f \in flows, RemoveBegins(f)
  PROVE  ModelsInv'
<1>0. f.run \in RunIds /\ f.step = "delete" /\ Active(f)
  BY DEF RemoveBegins, Active, ModelsInv, Typed, PageTyped, Flow
<1>1. UNCHANGED <<trained, births, sessions, modelJobs, inHand, collided, dialog>>
  BY DEF RemoveBegins, modelQueue, pageState, history
<1>2. CASE Ends(f) /\ UNCHANGED runs
  BY <1>0, <1>1, <1>2, EndingStep DEF ModelsInv, Typed, PageTyped
<1>3. CASE Goes(f, "removing") /\ InTable(f.run) /\ runs' \in {runs, [runs EXCEPT ![f.run].model = 0]}
  <2> DEFINE g == [f EXCEPT !.step = "removing"]
  <2>1. flows' = (flows \ {f}) \cup {g}
    BY <1>3 DEF Goes
  <2>2. g \in Flow /\ g.run = f.run /\ g.step = "removing"
    BY FlowGoes DEF ModelsInv, Typed, Steps
  <2>3. /\ TablesTyped'
        /\ \A q \in RunIds : q # f.run => runs'[q] = runs[q]
        /\ InTable(f.run)' => InTable(f.run)
    <3>1. CASE runs' = runs
      BY <1>1, <3>1 DEF ModelsInv, Typed, TablesTyped, InTable
    <3>2. CASE runs' = [runs EXCEPT ![f.run].model = 0]
      <4> DEFINE row == [runs[f.run] EXCEPT !.model = 0]
      <4>1. row \in RunRow
        BY <1>0, ModelWritten
      <4>2. runs' = [runs EXCEPT ![f.run] = row]
        BY <1>0, <3>2 DEF ModelsInv, Typed, TablesTyped
      <4> HIDE DEF row
      <4>3. f.run \in RunIds /\ InTable(f.run) /\ UNCHANGED <<sessions, trained, births>>
        BY <1>0, <1>1, <1>3
      <4>4. TablesTyped' /\ \A q \in RunIds : runs'[q] = IF q = f.run THEN row ELSE runs[q]
        BY <4>1, <4>2, <4>3, RunWritten
      <4> QED
        BY <1>3, <4>4
    <3> QED
      BY <1>3, <3>1, <3>2
  <2> HIDE DEF g
  <2>4. Typed'
    BY <1>1, <2>1, <2>2, <2>3 DEF ModelsInv, Typed, QueueTyped, PageTyped
  <2>5. ~collided' => (OneFlow /\ FlowOrJob)'
    BY <1>0, <1>1, <2>1, <2>2, FlowGoesOn DEF ModelsInv, Typed, Exclusive, HasJob
  <2>6. ~collided' => Saved'
    BY <1>0, <1>1, <1>3, <2>3 DEF ModelsInv, Typed, QueueTyped, Exclusive, FlowOrJob, HasJob, Saved, InTable
  <2>7. FinishedHasModel'
    BY <1>0, <1>1, <2>1, <2>2, <2>3 DEF ModelsInv, FinishedHasModel
  <2> QED
    BY <2>4, <2>5, <2>6, <2>7 DEF ModelsInv, Exclusive
<1> QED
  BY <1>2, <1>3 DEF RemoveBegins

\* The row goes.
LEMMA RemoveEndsStep ==
  ASSUME ModelsInv, NEW f \in flows, RemoveEnds(f)
  PROVE  ModelsInv'
<1>0. f.run \in RunIds /\ f.step = "removing" /\ Active(f)
  BY DEF RemoveEnds, Active, ModelsInv, Typed, PageTyped, Flow
<1>1. UNCHANGED <<trained, births, sessions, modelJobs, inHand, dialog>>
  BY DEF RemoveEnds, modelQueue, pageState, Fail
<1>2. CASE WithoutRun({f.run}) /\ (Goes(f, "removed") \/ Ends(f)) /\ UNCHANGED collided
  <2> DEFINE g == [f EXCEPT !.step = "removed"]
  <2>1. flows \ {f} \subseteq flows' /\ flows' \subseteq (flows \ {f}) \cup {g}
    BY <1>2 DEF Goes, Ends
  <2>2. g \in Flow /\ g.run = f.run /\ g.step = "removed"
    BY FlowGoes DEF ModelsInv, Typed, Steps
  <2>3. TablesTyped' /\ \A r \in RunIds : runs'[r] = IF r = f.run THEN noRun ELSE runs[r]
    BY <1>0, <1>1, <1>2, RunsGo DEF ModelsInv, Typed, TablesTyped
  <2> HIDE DEF g
  <2>4. Typed'
    BY <1>1, <2>1, <2>2, <2>3 DEF ModelsInv, Typed, QueueTyped, PageTyped
  <2>5. ~collided' => (OneFlow /\ FlowOrJob)'
    BY <1>0, <1>1, <1>2, <2>1, <2>2, FlowGoesOn DEF ModelsInv, Typed, Exclusive, HasJob, Active
  <2>6. ~collided' => Saved'
    BY <1>1, <1>2, <2>3 DEF ModelsInv, Typed, QueueTyped, Exclusive, Saved, InTable
  <2>7. FinishedHasModel'
    BY <1>0, <1>1, <1>2, <2>1, <2>3 DEF ModelsInv, FinishedHasModel, noRun
  <2> QED
    BY <2>4, <2>5, <2>6, <2>7 DEF ModelsInv, Exclusive
<1>3. CASE collided' = TRUE /\ Ends(f) /\ UNCHANGED runs
  <2>1. Typed'
    BY <1>1, <1>3 DEF ModelsInv, Typed, TablesTyped, QueueTyped, PageTyped, InTable, Ends
  <2> QED
    BY <1>3, <2>1 DEF ModelsInv, Exclusive, FinishedHasModel
<1> QED
  BY <1>2, <1>3 DEF RemoveEnds

-----------------------------------------------------------------------------
(* The queue *)

\* Only a job that trains a run makes the run one that has a job.
LEMMA JobAppended ==
  ASSUME ModelsInv, NEW j \in ModelJob, j.kind = "train" => j.job # 0,
         modelJobs' = Append(modelJobs, j), inHand' = inHand
  PROVE  /\ QueueTyped'
         /\ \A r \in RunIds : HasJob(r)' => HasJob(r) \/ (j.kind = "train" /\ j.run = r)
<1>1. modelJobs \in Seq(ModelJob)
  BY DEF ModelsInv, Typed, QueueTyped
<1>2. /\ DOMAIN modelJobs' = 1..(Len(modelJobs) + 1) /\ Len(modelJobs) \in Nat
      /\ DOMAIN modelJobs = 1..Len(modelJobs)
      /\ \A i \in DOMAIN modelJobs' : modelJobs'[i] = j \/ (i \in DOMAIN modelJobs /\ modelJobs'[i] = modelJobs[i])
      /\ modelJobs' \in Seq(ModelJob)
  BY <1>1
<1>3. QueueTyped'
  BY <1>2 DEF ModelsInv, Typed, QueueTyped
<1> QED
  BY <1>2, <1>3 DEF HasJob

\* What the queue still holds when its first job is taken.
LEMMA JobTaken ==
  ASSUME ModelsInv, modelJobs # <<>>, modelJobs' = Tail(modelJobs)
  PROVE  /\ modelJobs' \in Seq(ModelJob) /\ Head(modelJobs) \in ModelJob
         /\ \A i \in DOMAIN modelJobs' : modelJobs'[i].kind = "train" => modelJobs'[i].job # 0
         /\ Head(modelJobs).kind = "train" =>
              Head(modelJobs).job # 0 /\ HasJob(Head(modelJobs).run)
         /\ \A r : (\E i \in DOMAIN modelJobs' : modelJobs'[i].run = r /\ modelJobs'[i].kind = "train")
              => HasJob(r)
<1>1. modelJobs \in Seq(ModelJob)
  BY DEF ModelsInv, Typed, QueueTyped
<1>2. /\ modelJobs' \in Seq(ModelJob) /\ 1 \in DOMAIN modelJobs /\ Head(modelJobs) = modelJobs[1]
      /\ \A i \in DOMAIN modelJobs' : i + 1 \in DOMAIN modelJobs /\ modelJobs'[i] = modelJobs[i + 1]
      /\ Head(modelJobs) \in ModelJob
  BY <1>1
<1>3. \A i \in DOMAIN modelJobs' : modelJobs'[i].kind = "train" => modelJobs'[i].job # 0
  BY <1>2 DEF ModelsInv, Typed, QueueTyped
<1>4. Head(modelJobs).kind = "train" => Head(modelJobs).job # 0 /\ HasJob(Head(modelJobs).run)
  BY <1>2 DEF ModelsInv, Typed, QueueTyped, HasJob
<1> QED
  BY <1>2, <1>3, <1>4 DEF HasJob

\* The handler of a run hands it on to a job.
LEMMA EnqueueStep ==
  ASSUME ModelsInv, NEW f \in flows, EnqueueRun(f)
  PROVE  ModelsInv'
<1>0. f.run \in RunIds /\ f.step = "enqueue" /\ Active(f)
  BY DEF EnqueueRun, Active, ModelsInv, Typed, PageTyped, Flow
<1>1. UNCHANGED <<births, sessions, inHand, collided, dialog>>
  BY DEF EnqueueRun, pageState, history
<1>2. CASE ~InTable(f.run)
  <2>1. Ends(f) /\ UNCHANGED <<trained, runs, modelJobs>>
    BY <1>2 DEF EnqueueRun
  <2> QED
    BY <1>0, <1>1, <2>1, EndingStep DEF ModelsInv, Typed, PageTyped
<1>3. CASE InTable(f.run)
  <2> DEFINE j == [kind |-> "train", run |-> f.run, job |-> trained']
  <2> DEFINE row == [runs[f.run] EXCEPT !.status = "delivered"]
  <2> DEFINE g == [f EXCEPT !.step = "started", !.job = trained']
  <2>1. /\ trained' = trained + 1 /\ modelJobs' = Append(modelJobs, j)
        /\ runs' = [runs EXCEPT ![f.run] = row]
        /\ flows' \subseteq (flows \ {f}) \cup {g} /\ flows \ {f} \subseteq flows'
    BY <1>0, <1>3 DEF EnqueueRun, ModelsInv, Typed, TablesTyped
  <2>2. trained' \in Nat /\ trained' # 0
    BY <2>1 DEF ModelsInv, Typed, TablesTyped
  <2>3. j \in ModelJob /\ j.kind = "train" /\ j.job # 0 /\ j.run = f.run
    BY <1>0, <2>2 DEF ModelJob
  <2>4. row \in RunRow /\ row.status = "delivered" /\ row.model = runs[f.run].model
    BY <1>0, StatusWritten DEF Statuses, RunInWork
  <2>5. g \in Flow /\ g.step = "started" /\ g.run = f.run
    <3>1. f = [id |-> f.id, run |-> f.run, step |-> f.step, job |-> f.job, live |-> f.live] /\ f \in Flow
      BY DEF ModelsInv, Typed, PageTyped, Flow
    <3> DEFINE h == [id |-> f.id, run |-> f.run, step |-> "started", job |-> f.job, live |-> f.live]
    <3>3. [f EXCEPT !.step = "started"] = h
      BY <3>1
    <3>4. [h EXCEPT !.job = trained'] =
            [id |-> f.id, run |-> f.run, step |-> "started", job |-> trained', live |-> f.live]
      OBVIOUS
    <3>2. g = [id |-> f.id, run |-> f.run, step |-> "started", job |-> trained', live |-> f.live]
      <4> HIDE DEF h
      <4> QED
        BY <3>3, <3>4
    <3> HIDE DEF g
    <3> QED
      BY <2>2, <3>1, <3>2 DEF Flow, Steps
  <2> HIDE DEF j, row, g
  <2>6. /\ QueueTyped' /\ \A r \in RunIds : HasJob(r)' => HasJob(r) \/ r = f.run
    BY <1>1, <2>1, <2>3, JobAppended
  <2>7. \A q \in RunIds : runs'[q] = IF q = f.run THEN row ELSE runs[q]
    BY <2>1 DEF ModelsInv, Typed, TablesTyped
  <2>8. TablesTyped'
    <3>1. runs' \in [RunIds -> RunRow]
      BY <2>1, <2>4 DEF ModelsInv, Typed, TablesTyped
    <3>2. \A q \in RunIds : InTable(q)' => q <= births.runs
      BY <1>3, <2>7 DEF InTable, ModelsInv, Typed, TablesTyped
    <3> QED
      BY <1>1, <2>2, <3>1, <3>2 DEF ModelsInv, Typed, TablesTyped
  <2>9. PageTyped'
    BY <1>1, <2>1, <2>5 DEF ModelsInv, Typed, PageTyped
  <2>10. ASSUME ~collided'  PROVE OneFlow' /\ FlowOrJob' /\ Saved'
    <3>1. OneFlow /\ FlowOrJob /\ Saved
      BY <1>1, <2>10 DEF ModelsInv, Exclusive
    <3>2. \A h \in flows' : Active(h) => h \in flows /\ h # f
      BY <2>1, <2>5 DEF Active
    <3>3. OneFlow'
      BY <3>1, <3>2 DEF OneFlow
    <3>4. FlowOrJob'
      <4> SUFFICES ASSUME NEW h \in flows', Active(h), HasJob(h.run)'  PROVE FALSE
        BY DEF FlowOrJob
      <4>1. h \in flows /\ h # f /\ h.run \in RunIds
        BY <3>2 DEF ModelsInv, Typed, PageTyped, Flow
      <4>2. h.run # f.run
        BY <1>0, <3>1, <4>1 DEF OneFlow
      <4> QED
        BY <2>6, <3>1, <4>1, <4>2 DEF FlowOrJob
    <3>5. Saved'
      BY <1>1, <1>3, <2>4, <2>7, <3>1 DEF Saved, InTable, ModelsInv, Typed, QueueTyped
    <3> QED
      BY <3>3, <3>4, <3>5
  <2>11. FinishedHasModel'
    BY <1>0, <1>1, <2>1, <2>4, <2>7 DEF ModelsInv, FinishedHasModel
  <2> QED
    BY <2>6, <2>8, <2>9, <2>10, <2>11 DEF ModelsInv, Typed, Exclusive
<1> QED
  BY <1>2, <1>3

\* The page is left: the handlers that were sent go on.
LEMMA RemountStep ==
  ASSUME ModelsInv, Remount
  PROVE  ModelsInv'
<1> DEFINE Left(f) == [f EXCEPT !.live = FALSE]
<1> DEFINE staying == {g \in flows : g.step \notin {"created", "removed", "started"}}
<1>1. /\ UNCHANGED <<runs, trained, births, sessions, modelJobs, inHand, collided>>
      /\ dialog' = 0 /\ flows' = {Left(f) : f \in staying}
  BY DEF Remount, serverState, modelQueue
<1>2. \A f \in flows : Left(f) \in Flow /\ Left(f).run = f.run /\ Left(f).step = f.step
  BY DEF ModelsInv, Typed, PageTyped, Flow
<1> HIDE DEF Left
<1>3. Typed'
  <2>1. TablesTyped'
    BY <1>1 DEF ModelsInv, Typed, TablesTyped, InTable
  <2>2. QueueTyped'
    BY <1>1 DEF ModelsInv, Typed, QueueTyped
  <2>3. flows' \subseteq Flow /\ dialog' \in 0..MaxRuns
    BY <1>1, <1>2 DEF ModelsInv, Typed, PageTyped
  <2>4. \A f \in flows' : f.step = "resetting" => f.run <= births'.runs
    BY <1>1, <1>2 DEF ModelsInv, Typed, PageTyped
  <2> QED
    BY <2>1, <2>2, <2>3, <2>4 DEF Typed, PageTyped
<1>4. ASSUME ~collided'  PROVE OneFlow' /\ FlowOrJob' /\ Saved'
  <2>1. OneFlow /\ FlowOrJob /\ Saved
    BY <1>1, <1>4 DEF ModelsInv, Exclusive
  <2>2. OneFlow'
    <3> SUFFICES ASSUME NEW f \in flows, NEW g \in flows, f.run = g.run, Active(f), Active(g)
                 PROVE  Left(f) = Left(g)
      BY <1>1, <1>2 DEF OneFlow, Active
    <3> QED
      BY <2>1 DEF OneFlow
  <2>3. FlowOrJob'
    BY <1>1, <1>2, <2>1 DEF FlowOrJob, HasJob, Active
  <2>4. Saved'
    BY <1>1, <2>1 DEF Saved, InTable
  <2> QED
    BY <2>2, <2>3, <2>4
<1>5. FinishedHasModel'
  BY <1>1, <1>2 DEF ModelsInv, FinishedHasModel
<1> QED
  BY <1>3, <1>4, <1>5 DEF ModelsInv, Exclusive

\* An operation trains nothing.
LEMMA PostOpStep ==
  ASSUME ModelsInv, NEW r \in RunIds, NEW kind, PostOp(r, kind)
  PROVE  ModelsInv'
<1> DEFINE j == [kind |-> "operation", run |-> r, job |-> 0]
<1>1. /\ UNCHANGED <<runs, trained, sessions, inHand, flows, dialog>>
      /\ modelJobs' = Append(modelJobs, j) /\ births' = [births EXCEPT !.ops = @ + 1]
      /\ (collided => collided')
  BY DEF PostOp, pageState
<1>2. j \in ModelJob /\ j.kind = "operation"
  BY DEF ModelJob
<1> HIDE DEF j
<1>3. QueueTyped' /\ \A q \in RunIds : HasJob(q)' => HasJob(q)
  BY <1>1, <1>2, JobAppended
<1>4. births'.runs = births.runs /\ births' = [runs |-> births'.runs, ops |-> births'.ops]
  BY <1>1 DEF ModelsInv, Typed, TablesTyped
<1>5. Typed'
  BY <1>1, <1>3, <1>4 DEF ModelsInv, Typed, TablesTyped, PageTyped, InTable
<1>6. Exclusive'
  BY <1>1, <1>3 DEF ModelsInv, Typed, PageTyped, Flow, Exclusive, OneFlow, FlowOrJob, Saved, InTable
<1>7. FinishedHasModel'
  BY <1>1 DEF ModelsInv, FinishedHasModel
<1> QED
  BY <1>5, <1>6, <1>7 DEF ModelsInv

\* A job's step leaves the handlers alone.
LEMMA ModelConsumerStep ==
  ASSUME ModelsInv, TablesTyped', QueueTyped',
         UNCHANGED <<births, flows, collided, dialog>>,
         \A r \in RunIds : HasJob(r)' => HasJob(r),
         ~collided /\ OneFlow /\ FlowOrJob /\ Saved => Saved' /\ FinishedHasModel'
  PROVE  ModelsInv'
<1>1. Typed'
  BY DEF ModelsInv, Typed, PageTyped
<1>2. Exclusive'
  BY DEF ModelsInv, Typed, PageTyped, Flow, Exclusive, OneFlow, FlowOrJob
<1>3. FinishedHasModel'
  BY DEF ModelsInv, Exclusive, FinishedHasModel
<1> QED
  BY <1>1, <1>2, <1>3 DEF ModelsInv

\* The job that is taken was the run's, or trains nothing.
LEMMA TakeJobStep ==
  ASSUME ModelsInv, TakeModelJob
  PROVE  ModelsInv'
<1> DEFINE j == Head(modelJobs)
<1>1. /\ UNCHANGED <<births, flows, collided, dialog, sessions, trained>>
      /\ modelJobs # <<>> /\ inHand = noWork /\ modelJobs' = Tail(modelJobs)
  BY DEF TakeModelJob, pageState, history
<1>2. /\ modelJobs' \in Seq(ModelJob) /\ j \in ModelJob
      /\ \A i \in DOMAIN modelJobs' : modelJobs'[i].kind = "train" => modelJobs'[i].job # 0
      /\ j.kind = "train" => j.job # 0 /\ HasJob(j.run)
      /\ \A r : (\E i \in DOMAIN modelJobs' : modelJobs'[i].run = r /\ modelJobs'[i].kind = "train")
              => HasJob(r)
  BY <1>1, JobTaken
<1>3. j.run \in RunIds /\ j.job \in Nat
  BY <1>2 DEF ModelJob
<1>4. CASE j.kind = "train" /\ InTable(j.run)
  <2> DEFINE row == [runs[j.run] EXCEPT !.status = "started"]
  <2>1. /\ inHand' = [kind |-> "train", run |-> j.run, job |-> j.job, model |-> 0]
        /\ runs' = [runs EXCEPT ![j.run] = row]
    BY <1>3, <1>4 DEF TakeModelJob, ModelsInv, Typed, TablesTyped
  <2>2. row \in RunRow /\ row.status = "started"
    BY <1>3, StatusWritten DEF Statuses, RunInWork
  <2> HIDE DEF j, row
  <2>3. TablesTyped' /\ \A q \in RunIds : runs'[q] = IF q = j.run THEN row ELSE runs[q]
    BY <1>1, <1>3, <1>4, <2>1, <2>2, RunWritten
  <2>4. QueueTyped'
    BY <1>2, <1>3, <1>4, <2>1 DEF QueueTyped, RunIds
  <2>5. \A r \in RunIds : HasJob(r)' => HasJob(r)
    <3> SUFFICES ASSUME NEW r \in RunIds, HasJob(r)'  PROVE HasJob(r)
      OBVIOUS
    <3>1. CASE r = j.run
      BY <1>2, <1>4, <3>1
    <3>2. CASE r # j.run
      <4>1. \E i \in DOMAIN modelJobs' : modelJobs'[i].run = r /\ modelJobs'[i].kind = "train"
        BY <2>1, <3>2 DEF HasJob
      <4> QED
        BY <1>2, <4>1
    <3> QED
      BY <3>1, <3>2
  <2>6. Saved'
    BY <2>1 DEF Saved
  <2>7. FinishedHasModel'
    BY <1>1, <2>2, <2>3 DEF ModelsInv, FinishedHasModel
  <2> QED
    BY <1>1, <2>3, <2>4, <2>5, <2>6, <2>7, ModelConsumerStep
<1>5. CASE ~(j.kind = "train" /\ InTable(j.run))
  <2>1. /\ runs' = runs
        /\ \/ inHand' = noWork
           \/ inHand' = [kind |-> "operation", run |-> j.run, job |-> 0, model |-> runs[j.run].model]
    BY <1>1, <1>5 DEF TakeModelJob
  <2>2. runs[j.run].model \in Nat
    BY <1>3 DEF ModelsInv, Typed, TablesTyped, RunRow
  <2> HIDE DEF j
  <2>3. inHand' \in [kind : {"none", "train", "saved", "operation"}, run : 0..MaxRuns, job : Nat,
                     model : Nat] /\ inHand'.kind \in {"none", "operation"}
    BY <1>3, <2>1, <2>2 DEF noWork, RunIds
  <2>4. TablesTyped' /\ QueueTyped'
    BY <1>1, <1>2, <2>1, <2>3 DEF ModelsInv, Typed, TablesTyped, QueueTyped, InTable
  <2>5. \A r \in RunIds : HasJob(r)' => HasJob(r)
    BY <1>2, <2>3 DEF HasJob
  <2>6. Saved' /\ FinishedHasModel'
    BY <1>1, <2>1, <2>3 DEF ModelsInv, Saved, FinishedHasModel
  <2> QED
    BY <1>1, <2>4, <2>5, <2>6, ModelConsumerStep
<1> QED
  BY <1>4, <1>5

\* The model is saved by the only job of its run.
LEMMA SaveStep ==
  ASSUME ModelsInv, SaveModel
  PROVE  ModelsInv'
<1> DEFINE row == [runs[inHand.run] EXCEPT !.model = inHand.job]
<1>1. /\ UNCHANGED <<births, flows, collided, dialog, sessions, trained, modelJobs>>
      /\ inHand.kind = "train" /\ InTable(inHand.run)
      /\ inHand' = [inHand EXCEPT !.kind = "saved"]
  BY DEF SaveModel, pageState, history
<1>2. inHand.run \in RunIds /\ inHand.job \in Nat /\ inHand.job # 0
  BY <1>1 DEF ModelsInv, Typed, QueueTyped
<1>3. row \in RunRow /\ row.model = inHand.job
  BY <1>2, ModelWritten
<1>4. runs' = [runs EXCEPT ![inHand.run] = row]
  BY <1>2 DEF SaveModel, ModelsInv, Typed, TablesTyped
<1> HIDE DEF row
<1>5. TablesTyped' /\ \A q \in RunIds : runs'[q] = IF q = inHand.run THEN row ELSE runs[q]
  BY <1>1, <1>2, <1>3, <1>4, RunWritten
<1>6. /\ inHand' \in [kind : {"none", "train", "saved", "operation"}, run : 0..MaxRuns, job : Nat,
                      model : Nat]
      /\ inHand'.kind = "saved" /\ inHand'.run = inHand.run /\ inHand'.job = inHand.job
  BY <1>1 DEF ModelsInv, Typed, QueueTyped
<1>7. QueueTyped'
  BY <1>1, <1>2, <1>6 DEF ModelsInv, Typed, QueueTyped
<1>8. \A r \in RunIds : HasJob(r)' => HasJob(r)
  BY <1>1, <1>6 DEF HasJob
<1>9. Saved' /\ FinishedHasModel'
  BY <1>1, <1>2, <1>3, <1>5, <1>6 DEF ModelsInv, Saved, FinishedHasModel
<1> QED
  BY <1>1, <1>5, <1>7, <1>8, <1>9, ModelConsumerStep

\* A training that ends FINISHED has saved its model.
LEMMA EndStep ==
  ASSUME ModelsInv, TrainingEnds \/ OperationEnds
  PROVE  ModelsInv'
<1>1. /\ UNCHANGED <<births, flows, collided, dialog, sessions, trained, modelJobs>>
      /\ inHand' = noWork
  BY DEF TrainingEnds, OperationEnds, pageState, history
<1>2. QueueTyped'
  BY <1>1 DEF ModelsInv, Typed, QueueTyped, noWork
<1>3. \A r \in RunIds : HasJob(r)' => HasJob(r)
  BY <1>1 DEF HasJob, noWork
<1>4. Saved'
  BY <1>1 DEF Saved, noWork
<1>5. CASE UNCHANGED runs
  <2>1. TablesTyped' /\ FinishedHasModel'
    BY <1>1, <1>5 DEF ModelsInv, Typed, TablesTyped, InTable, FinishedHasModel
  <2> QED
    BY <1>1, <1>2, <1>3, <1>4, <2>1, ModelConsumerStep
<1>6. CASE ~UNCHANGED runs
  <2> DEFINE status == IF inHand.kind = "saved" THEN "finished" ELSE "error"
  <2> DEFINE row == [runs[inHand.run] EXCEPT !.status = status]
  <2>1. /\ inHand.kind \in {"train", "saved"} /\ InTable(inHand.run)
        /\ runs' = [runs EXCEPT ![inHand.run].status = status]
    BY <1>6 DEF TrainingEnds, OperationEnds
  <2>2. inHand.run \in RunIds
    BY <2>1 DEF ModelsInv, Typed, QueueTyped
  <2>3. row \in RunRow /\ row.status = status /\ row.model = runs[inHand.run].model
    <3>1. status \in Statuses
      BY DEF Statuses
    <3> HIDE DEF status
    <3> QED
      BY <2>2, <3>1, StatusWritten
  <2>4. runs' = [runs EXCEPT ![inHand.run] = row]
    BY <2>1, <2>2 DEF ModelsInv, Typed, TablesTyped
  <2> HIDE DEF row
  <2>5. TablesTyped' /\ \A q \in RunIds : runs'[q] = IF q = inHand.run THEN row ELSE runs[q]
    BY <1>1, <2>1, <2>2, <2>3, <2>4, RunWritten
  <2>6. ~collided /\ Saved => FinishedHasModel'
    BY <1>1, <2>1, <2>3, <2>5 DEF ModelsInv, Saved, FinishedHasModel
  <2> QED
    BY <1>1, <1>2, <1>3, <1>4, <2>5, <2>6, ModelConsumerStep
<1> QED
  BY <1>5, <1>6

-----------------------------------------------------------------------------
\* The invariant holds in the initial state.
LEMMA ModelsInitHolds == ModelsPageInit => ModelsInv
<1> SUFFICES ASSUME ModelsPageInit  PROVE ModelsInv
  OBVIOUS
<1>1. noRun \in RunRow
  BY DEF noRun, RunRow, Statuses
<1>2. runs \in [RunIds -> RunRow] /\ \A r \in RunIds : ~InTable(r)
  BY <1>1 DEF ModelsPageInit, InTable
<1>3. TablesTyped
  <2>1. sessions \in SUBSET (1..MaxSessions) /\ trained \in Nat
    BY DEF ModelsPageInit
  <2>2. births = [runs |-> 0, ops |-> 0] /\ MaxRuns \in Nat
    BY DEF ModelsPageInit
  <2>3. births.runs \in 0..MaxRuns /\ births = [runs |-> births.runs, ops |-> births.ops]
    BY <2>2
  <2> QED
    BY <1>2, <2>1, <2>3 DEF TablesTyped
<1>4. QueueTyped
  BY DEF ModelsPageInit, QueueTyped, noWork
<1>5. PageTyped
  BY DEF ModelsPageInit, PageTyped
<1>6. Exclusive /\ FinishedHasModel
  BY DEF ModelsPageInit, Exclusive, OneFlow, FlowOrJob, Saved, FinishedHasModel, noWork, noRun
<1> QED
  BY <1>3, <1>4, <1>5, <1>6 DEF ModelsInv, Typed

\* Every step keeps it.
LEMMA ModelsStepHolds == ModelsInv /\ [ModelsPageNext]_modelsPageVars => ModelsInv'
<1> SUFFICES ASSUME ModelsInv, [ModelsPageNext]_modelsPageVars  PROVE ModelsInv'
  OBVIOUS
<1>1. ASSUME NEW f \in flows, HandlerStep(f) \/ CountFails(f) \/ FlowFails(f)  PROVE ModelsInv'
  BY <1>1, FlowEnds, CountStep, EnqueueStep, ResetBeginsStep, ResetEndsStep, RemoveBeginsStep,
     RemoveEndsStep DEF HandlerStep
<1>6. ASSUME NEW f \in flows, EnqueueBreaks(f) \/ StartUnheard(f)  PROVE ModelsInv'
  BY <1>6, FlowEnds, EnqueueBreaksStep
<1>2. ASSUME NEW s \in 0..MaxSessions, SelectSession(s) \/ DeleteSession(s) \/ SessionDeleted(s)
      PROVE  ModelsInv'
  BY <1>2, SessionsStep, SessionDeletedStep
<1>3. CASE CreateSession
  <2>1. 0 \in 0..MaxSessions
    OBVIOUS
  <2> QED
    BY <1>3, <2>1, SessionsStep
<1>4. CASE ModelConsumer
  BY <1>4, TakeJobStep, SaveStep, EndStep DEF ModelConsumer
<1>5. CASE UNCHANGED modelsPageVars
  <2>1. UNCHANGED <<runs, trained, births, modelJobs, inHand, flows, collided, sessions, dialog>>
    BY <1>5 DEF modelsPageVars, serverState, modelQueue, pageState, history
  <2> QED
    BY <2>1, PageOnly DEF ModelsInv, Typed, TablesTyped, PageTyped
<1> QED
  BY <1>1, <1>2, <1>3, <1>4, <1>5, <1>6, PageStep, AnswerLostStep, PostRunStep, ClickStep, RemountStep,
     PostOpStep DEF ModelsPageNext

\* So it holds throughout.
LEMMA ModelsInvariance == ModelsPageSpec => []ModelsInv
  BY ModelsInitHolds, ModelsStepHolds, PTL DEF ModelsPageSpec

-----------------------------------------------------------------------------
\* As long as no work on a run meets other work on it, a FINISHED run has the
\* file of its model, whatever is clicked and whichever requests are lost.
THEOREM FinishedHasModelHolds == ModelsPageSpec => []FinishedHasModel
<1>1. ModelsInv => FinishedHasModel
  BY DEF ModelsInv
<1> QED
  BY <1>1, ModelsInvariance, PTL
-----------------------------------------------------------------------------
(* What the page knows of a run.  As long as no work met other work and no *)
(* answer was late, each run has one handler, one training and one thing   *)
(* that will tell the page of it; the invariant says which, run by run.    *)
(* What the page no longer hears of is said by forsaken, run by run, and   *)
(* by unaware.                                                             *)

Clean == ~collided /\ ~crossed

FlowsOn(r) == {f \in flows : f.run = r}
At(r, steps) == \E f \in FlowsOn(r) : f.step \in steps
Trains(i, r) == modelJobs[i].kind = "train" /\ modelJobs[i].run = r
InHand(r) == inHand.run = r /\ inHand.kind \in {"train", "saved"}
JobsOn(r) ==
  {modelJobs[i].job : i \in {k \in DOMAIN modelJobs : Trains(k, r)}}
    \cup {j \in {inHand.job} : InHand(r)}
Saving(r) == inHand.run = r /\ inHand.kind = "saved"
Computing(r) == inHand.run = r /\ inHand.kind = "operation"

\* Lists that are not late, and what they say of a run.
NewLists == {answers[i].rows : i \in {k \in DOMAIN answers : ~answers[k].late}}
ToldOn(r) == {rows[r] : rows \in NewLists}
Unanswered == answers # <<>>

WatchedOn(r) == {w.job : w \in {x \in watched : x.run = r}}
CallsOn(r) == {c \in callbacks : c.run = r}
NewCallsOn(r) == {c \in CallsOn(r) : ~c.late}
HeardOn(r) == WatchedOn(r) \cup {c.job : c \in CallsOn(r)}
Later(r, j) == \E k \in HeardOn(r) : k > j

\* Each run is in one hand, and one training of it is queued or running.
Alone(r) == \A f, g \in FlowsOn(r) : f = g /\ (f.live \/ r \in forsaken)
OneJob ==
  /\ \A r \in RunIds : \A i, k \in DOMAIN modelJobs : Trains(i, r) /\ Trains(k, r) => i = k
  /\ \A r \in RunIds : InHand(r) => \A i \in DOMAIN modelJobs : ~Trains(i, r)

\* The handler, the job and the row agree on how far the training is, but for
\* a row that waits for a job that could not be put.
Lost(r) == r \in forsaken /\ ~At(r, {"started"})
Phase(r) ==
  /\ JobsOn(r) # {} => InTable(r) /\ runs[r].status \in RunInWork
  /\ InTable(r) /\ runs[r].status \in RunInWork => JobsOn(r) # {} \/ Lost(r)
  /\ InTable(r) => runs[r].session # 0 /\ runs[r].status # "absent"
  /\ \A f \in FlowsOn(r) :
       /\ JobsOn(r) # {} => f.step = "started"
       /\ f.step \in {"resetting", "enqueue", "started", "removing", "created"} => InTable(r)
       /\ f.step \in {"enqueue", "created"} => runs[r].status = "idle"
       /\ f.step = "resetting" => runs[r].model = 0
       /\ f.step = "removed" => ~InTable(r)
  /\ InTable(r) /\ runs[r].status # "finished" /\ ~Saving(r) => runs[r].model = 0

\* Nothing computed with an old model of the run is there, or will be.
Fresh(r) ==
  \/ op[r] = noOp
  \/ op[r].model = 0 /\ runs[r].model = 0 /\ ~Computing(r)
FreshBefore(r) ==
  ~unaware =>
    /\ Saving(r) => op[r].model = 0
    /\ InTable(r) /\ (At(r, {"reset", "resetting", "enqueue"})
                      \/ (runs[r].status # "finished" /\ ~Saving(r))) => Fresh(r)
Own(r) ==
  ~unaware /\ InTable(r) /\ ~At(r, {"removing"}) =>
    /\ op[r].model \in {0, runs[r].model}
    /\ Computing(r) /\ op[r] # noOp => inHand.model = runs[r].model

\* Who was told that a run has not been trained, or has failed, was told so
\* after its last training was started.
Says(r, status) ==
  shown[r] = status \/ status \in ToldOn(r) \/ \E c \in NewCallsOn(r) : c.status = status
Claims(r) ==
  ~unaware /\ InTable(r) /\ (Says(r, "idle") \/ Says(r, "error")) =>
    runs[r].status \in {"idle", "error"} \/ At(r, {"started"})

\* The jobs of a run are numbered in the order of its trainings, and the last
\* one is watched, or about to be.
Numbers(r) ==
  /\ \A j \in JobsOn(r) :
       /\ j <= trained
       /\ \A f \in FlowsOn(r) : f.step = "started" => f.job = j
       /\ \A k \in WatchedOn(r) : k <= j
       /\ \A c \in CallsOn(r) : c.job < j
  /\ \A k \in HeardOn(r) : k <= trained
  /\ \A f \in FlowsOn(r) : f.step = "started" => f.job <= trained
FollowedJob(r) ==
  r \notin forsaken => \A j \in JobsOn(r) :
    (\E f \in FlowsOn(r) : f.step = "started" /\ f.job = j) \/ j \in WatchedOn(r)

\* Who was told that a run is in work will be told how it ends.
Followed(r) == HeardOn(r) # {} \/ At(r, {"started", "removed"})
InWorkFollowed(r) ==
  r \notin forsaken =>
    /\ \A status \in ToldOn(r) : status \in RunInWork => Followed(r)
    /\ shown[r] \in RunInWork => Followed(r) \/ Unanswered
    /\ \A c \in NewCallsOn(r) : c.status \in RunInWork =>
         ~InTable(r) \/ At(r, {"started"}) \/ Later(r, c.job)

\* What the page shows, and the lists on their way to it, are the runs of the
\* selected session.
Gone(r) ==
  r \notin forsaken /\ ~InTable(r) =>
    \/ At(r, {"removed"})
    \/ /\ \A status \in ToldOn(r) : status = "absent"
       /\ shown[r] = "absent" \/ Unanswered
OfSession(r) ==
  InTable(r) =>
    /\ \A status \in ToldOn(r) : status # "absent" => runs[r].session = selected
    /\ shown[r] # "absent" => runs[r].session = selected \/ Unanswered
    /\ runs[r].session = selected /\ ~At(r, {"created"}) =>
         /\ \A status \in ToldOn(r) : status # "absent"
         /\ shown[r] # "absent" \/ Unanswered

\* They are as the table has them, or the change is on its way.
Changing(r) == At(r, {"enqueue", "started", "created"}) \/ HeardOn(r) # {}
Exact(r) ==
  failures = 0 /\ ~unaware /\ InTable(r) =>
    /\ runs[r].session = selected =>
         /\ shown[r] = runs[r].status \/ Changing(r) \/ Unanswered
         /\ \A status \in ToldOn(r) : status = runs[r].status \/ Changing(r)
    /\ \A c \in NewCallsOn(r) :
         c.status = runs[r].status \/ At(r, {"enqueue", "started"}) \/ Later(r, c.job)

\* The page never asks for a run and is told that there is none.
Real(r) == \A c \in CallsOn(r) : c.status # "absent"

Served(r) == Alone(r) /\ Phase(r) /\ FreshBefore(r) /\ Own(r)
Paged(r) ==
  /\ Claims(r) /\ Numbers(r) /\ FollowedJob(r) /\ InWorkFollowed(r)
  /\ Gone(r) /\ OfSession(r) /\ Exact(r) /\ Real(r)

Lists ==
  /\ selected \in listed \cup {0} /\ listed \cap leaving = {} /\ 0 \notin leaving
  /\ failures = 0 => listed = sessions \ leaving

Kept == OneJob /\ Lists /\ \A r \in RunIds : Served(r) /\ Paged(r)
PageInv == Clean => Kept

-----------------------------------------------------------------------------
(* The shapes of what is on the page, and what leaving it comes to *)

\* A handler that survived its page, and a run that is forsaken though no
\* request failed, show that the page was left while there was work.
Aware == ~unaware => (\A f \in flows : f.live) /\ (failures = 0 => forsaken = {})

OpRow == [kind : {"none", "explainer", "prediction"}, model : Nat]
Answer == [rows : [RunIds -> Statuses], late : BOOLEAN]
Callback == [run : RunIds, job : Nat, status : Statuses, late : BOOLEAN]
Shape ==
  /\ op \in [RunIds -> OpRow] /\ shown \in [RunIds -> Statuses]
  /\ answers \in Seq(Answer)
  /\ watched \subseteq [run : RunIds, job : Nat] /\ callbacks \subseteq Callback
  /\ listed \subseteq Nat \ {0} /\ selected \in Nat /\ failures \in Nat
  /\ inHand.kind = "operation" => inHand.run \in RunIds /\ inHand.model # 0
  /\ Aware

\* What the server lists of a session has a status for each run.
LEMMA StatusesOfShape ==
  ASSUME ModelsInv, NEW s
  PROVE  StatusesOf(s) \in [RunIds -> Statuses]
  BY DEF StatusesOf, ModelsInv, Typed, TablesTyped, RunRow, Statuses

\* The lists that were under way, as late ones.
LEMMA OvertakenLists ==
  ASSUME answers \in Seq(Answer)
  PROVE  /\ Overtaken \in Seq(Answer) /\ (Overtaken = <<>> <=> answers = <<>>)
         /\ \A i \in DOMAIN Overtaken : Overtaken[i].late = TRUE
<1> DEFINE old == Overtaken
<1>1. /\ DOMAIN old = 1..Len(answers) /\ Len(answers) \in Nat
      /\ \A i \in 1..Len(answers) : answers[i] \in Answer
      /\ old = [i \in 1..Len(answers) |-> [answers[i] EXCEPT !.late = TRUE]]
  BY DEF Overtaken
<1>2. \A i \in 1..Len(answers) : old[i] \in Answer /\ old[i].late = TRUE
  <2> TAKE i \in 1..Len(answers)
  <2>1. old[i] = [answers[i] EXCEPT !.late = TRUE] /\ answers[i] \in Answer
    BY <1>1
  <2> HIDE DEF old
  <2> QED  BY <2>1 DEF Answer
<1>3. old \in Seq(Answer) /\ Len(old) = Len(answers)
  <2>1. old = [i \in 1..Len(answers) |-> old[i]]
    BY <1>1
  <2> HIDE DEF old
  <2> QED  BY <1>1, <1>2, <2>1
<1> HIDE DEF old
<1>4. old = <<>> <=> answers = <<>>
  BY <1>1, <1>3
<1> QED
  BY <1>1, <1>2, <1>3, <1>4 DEF old

\* Lists that were under way are late, and are no fewer.
LEMMA ListsOvertaken ==
  ASSUME answers \in Seq(Answer), answers' = Overtaken
  PROVE  /\ answers' \in Seq(Answer) /\ NewLists' = {} /\ (Unanswered' <=> Unanswered)
         /\ \A r : ToldOn(r)' = {}
<1>1. /\ answers' \in Seq(Answer) /\ (answers' = <<>> <=> answers = <<>>)
      /\ \A i \in DOMAIN answers' : answers'[i].late = TRUE
  BY OvertakenLists
<1>2. NewLists' = {}
  BY <1>1 DEF NewLists
<1> QED
  BY <1>1, <1>2 DEF ToldOn, Unanswered

\* The list that is added to late ones is the only one that is not late.
LEMMA OneIsNew ==
  ASSUME NEW s \in Seq(Answer), \A i \in DOMAIN s : s[i].late = TRUE,
         NEW a \in Answer, a.late = FALSE
  PROVE  /\ Append(s, a) \in Seq(Answer) /\ Append(s, a) # <<>>
         /\ {Append(s, a)[i].rows : i \in {k \in DOMAIN Append(s, a) : ~Append(s, a)[k].late}}
              = {a.rows}
<1> DEFINE t == Append(s, a)
<1>1. /\ t \in Seq(Answer) /\ t # <<>> /\ DOMAIN t = 1..(Len(s) + 1)
      /\ DOMAIN s = 1..Len(s) /\ Len(s) \in Nat
      /\ t[Len(s) + 1] = a /\ \A i \in DOMAIN s : t[i] = s[i]
  BY AtTheEnd
<1> HIDE DEF t
<1>2. \A i \in DOMAIN t : ~t[i].late <=> i = Len(s) + 1
  <2> TAKE i \in DOMAIN t
  <2>1. CASE i = Len(s) + 1
    BY <1>1, <2>1
  <2>2. CASE i # Len(s) + 1
    <3>1. i \in DOMAIN s
      BY <1>1, <2>2
    <3> QED  BY <1>1, <2>2, <3>1
  <2> QED  BY <2>1, <2>2
<1>3. Len(s) + 1 \in DOMAIN t
  BY <1>1
<1>4. {t[i].rows : i \in {k \in DOMAIN t : ~t[k].late}} = {a.rows}
  BY <1>1, <1>2, <1>3
<1> QED
  BY <1>1, <1>4 DEF t

\* One that is asked for makes those late that are under way.
AsksFor(rows) == answers' = Append(Overtaken, [rows |-> rows, late |-> FALSE])
LEMMA ListAsked ==
  ASSUME answers \in Seq(Answer), NEW rows \in [RunIds -> Statuses], AsksFor(rows)
  PROVE  /\ answers' \in Seq(Answer) /\ NewLists' = {rows} /\ Unanswered'
         /\ \A r : ToldOn(r)' = {rows[r]}
<1> DEFINE new == [rows |-> rows, late |-> FALSE]
           list == Append(Overtaken, new)
<1>1. new \in Answer /\ new.rows = rows /\ new.late = FALSE
  BY DEF Answer
<1>2. answers' = list
  BY DEF AsksFor
<1> HIDE DEF new
<1>3. Overtaken \in Seq(Answer) /\ \A i \in DOMAIN Overtaken : Overtaken[i].late = TRUE
  BY OvertakenLists
<1>4. /\ list \in Seq(Answer) /\ list # <<>>
      /\ {list[i].rows : i \in {k \in DOMAIN list : ~list[k].late}} = {rows}
  BY <1>1, <1>3, OneIsNew
<1> HIDE DEF list
<1>5. NewLists' = {rows}
  BY <1>2, <1>4 DEF NewLists
<1> QED
  BY <1>2, <1>4, <1>5 DEF ToldOn, Unanswered

\* One that arrives was late, or was one of the lists that are not.
LEMMA ListTaken ==
  ASSUME answers \in Seq(Answer), NEW n \in DOMAIN answers, answers' = RemoveAt(answers, n)
  PROVE  /\ answers' \in Seq(Answer) /\ NewLists' \subseteq NewLists
         /\ answers[n].rows \in [RunIds -> Statuses]
         /\ answers[n].late \/ answers[n].rows \in NewLists
<1>1. /\ answers' \in Seq(Answer) /\ DOMAIN answers' = 1..(Len(answers) - 1)
      /\ DOMAIN answers = 1..Len(answers) /\ Len(answers) \in Nat
      /\ \A i \in 1..(Len(answers) - 1) : answers'[i] = IF i < n THEN answers[i] ELSE answers[i + 1]
  BY Removed
<1>5. \A i \in DOMAIN answers' : \E k \in DOMAIN answers : answers'[i] = answers[k]
  <2> TAKE i \in DOMAIN answers'
  <2>1. i \in DOMAIN answers /\ i + 1 \in DOMAIN answers
    BY <1>1
  <2> QED  BY <1>1, <2>1
<1>6. NewLists' \subseteq NewLists
  BY <1>5 DEF NewLists
<1>7. answers[n] \in Answer
  OBVIOUS
<1> QED
  BY <1>1, <1>6, <1>7 DEF NewLists, Answer

\* A list is asked for, or the page has changed since it was.
LEMMA ListsShape ==
  ASSUME ModelsInv, Shape, answers' = answers \/ answers' = Overtaken \/ answers' = <<>>
                      \/ \E s : AsksFor(StatusesOf(s))
  PROVE  answers' \in Seq(Answer)
<1>1. CASE \E s : AsksFor(StatusesOf(s))
  <2>1. PICK rows \in [RunIds -> Statuses] : AsksFor(rows)
    BY <1>1, StatusesOfShape
  <2>2. answers \in Seq(Answer)
    BY DEF Shape
  <2> QED  BY <2>1, <2>2, ListAsked
<1>2. CASE answers' = Overtaken
  <2>1. answers \in Seq(Answer)
    BY DEF Shape
  <2> QED  BY <1>2, <2>1, ListsOvertaken
<1>3. CASE answers' = answers
  BY <1>3 DEF Shape
<1>4. CASE answers' = <<>>
  BY <1>4
<1> QED  BY <1>1, <1>2, <1>3, <1>4

\* What the page shows, is told and lists.
LEMMA ShownShape ==
  ASSUME ModelsInv, Shape, [ModelsPageNext]_modelsPageVars
  PROVE  shown' \in [RunIds -> Statuses] /\ answers' \in Seq(Answer)
<1>1. CASE UNCHANGED <<shown, answers>>
  BY <1>1 DEF Shape
<1>2. CASE \E s \in 0..MaxSessions : SelectSession(s) \/ DeleteSession(s)
  <2>1. /\ shown' = shown \/ shown' = [r \in RunIds |-> "absent"]
        /\ answers' = answers \/ answers' = Overtaken \/ \E s : AsksFor(StatusesOf(s))
    BY <1>2 DEF SelectSession, DeleteSession, Selects, pageRuns, AsksFor
  <2>2. answers' \in Seq(Answer)
    BY <2>1, ListsShape
  <2> QED  BY <2>1, <2>2 DEF Shape, Statuses
<1>3. CASE CreateSession
  <2>1. /\ shown' = shown \/ shown' = [r \in RunIds |-> "absent"]
        /\ answers' = Overtaken \/ \E s : AsksFor(StatusesOf(s))
    BY <1>3 DEF CreateSession, Selects, AsksFor
  <2>2. answers' \in Seq(Answer)
    BY <2>1, ListsShape
  <2> QED  BY <2>1, <2>2 DEF Shape, Statuses
<1>4. CASE Remount
  BY <1>4 DEF Remount, Statuses
<1>5. CASE ListOfRunsArrives
  <2>1. PICK i \in DOMAIN answers : shown' = answers[i].rows /\ answers' = RemoveAt(answers, i)
    BY <1>5 DEF ListOfRunsArrives
  <2> QED  BY <2>1, ListTaken DEF Shape
<1>6. ASSUME NEW f \in flows, RunCreated(f) \/ RunRemoved(f) \/ TrainingStarted(f)
      PROVE  shown' \in [RunIds -> Statuses] /\ answers' \in Seq(Answer)
  <2>1. /\ shown' = shown \/ \E status \in Statuses : shown' = [shown EXCEPT ![f.run] = status]
        /\ answers' = Overtaken
    BY <1>6 DEF RunCreated, RunRemoved, TrainingStarted, ShowsRun, Statuses, RunInWork
  <2>2. answers' \in Seq(Answer)
    BY <2>1, ListsShape
  <2> QED  BY <2>1, <2>2 DEF Shape
<1>7. ASSUME NEW c \in callbacks, RunArrives(c)
      PROVE  shown' \in [RunIds -> Statuses] /\ answers' \in Seq(Answer)
  <2>1. /\ shown' = shown \/ shown' = [shown EXCEPT ![c.run] = c.status]
        /\ answers' = Overtaken
    BY <1>7 DEF RunArrives, ShowsRun
  <2>2. answers' \in Seq(Answer)
    BY <2>1, ListsShape
  <2> QED  BY <2>1, <2>2 DEF Shape, Callback
<1>8. ASSUME NEW w \in watched, JobTold(w)  PROVE UNCHANGED <<shown, answers>>
  BY <1>8 DEF JobTold, pageRuns
<1>13. ASSUME NEW f \in flows, EnqueueBreaks(f) \/ StartUnheard(f)  PROVE UNCHANGED <<shown, answers>>
  BY <1>13 DEF EnqueueBreaks, StartUnheard, pageRuns
<1>14. CASE AnswerLost
  <2>1. shown' = shown /\ (answers' = answers \/ \E i \in DOMAIN answers : answers' = RemoveAt(answers, i))
    BY <1>14 DEF AnswerLost
  <2> QED  BY <2>1, ListTaken DEF Shape
<1>9. ASSUME NEW s, SessionDeleted(s)  PROVE UNCHANGED <<shown, answers>>
  BY <1>9 DEF SessionDeleted, pageRuns
<1>10. ASSUME NEW f \in flows, ~(RunCreated(f) \/ RunRemoved(f) \/ TrainingStarted(f)),
              HandlerStep(f) \/ CountFails(f) \/ FlowFails(f)
       PROVE  UNCHANGED <<shown, answers>>
  BY <1>10 DEF HandlerStep, CountFails, FlowFails, OperationsCounted, DeleteOperations, EnqueueRun,
       ResetBegins, ResetEnds, RemoveBegins, RemoveEnds, pageState, pageRuns
<1>11. CASE PostRun \/ ConfirmRetrain \/ CancelRetrain \/ ModelConsumer
            \/ \E r \in RunIds : DeleteRun(r) \/ TrainRun(r) \/ \E kind : PostOp(r, kind)
  <2>1. UNCHANGED <<shown, answers>>
    BY <1>11 DEF PostRun, ConfirmRetrain, CancelRetrain, ModelConsumer, DeleteRun, TrainRun, PostOp,
         TakeModelJob, SaveModel, TrainingEnds, OperationEnds, pageState, pageRuns
  <2> QED  BY <1>1, <2>1
<1>12. CASE UNCHANGED modelsPageVars
  BY <1>1, <1>12 DEF modelsPageVars, pageState, pageRuns
<1> QED
  BY <1>1, <1>2, <1>3, <1>4, <1>5, <1>6, <1>7, <1>8, <1>9, <1>10, <1>11, <1>12, <1>13, <1>14
     DEF ModelsPageNext

\* What the page waits for.
LEMMA CallsShape ==
  ASSUME ModelsInv, Shape, [ModelsPageNext]_modelsPageVars
  PROVE  watched' \subseteq [run : RunIds, job : Nat] /\ callbacks' \subseteq Callback
<1>1. CASE UNCHANGED watches
  BY <1>1 DEF Shape, watches
<1>2. ASSUME NEW f \in flows, TrainingStarted(f)
      PROVE  watched' \subseteq [run : RunIds, job : Nat] /\ callbacks' \subseteq Callback
  <2>1. /\ watched' = watched \cup {[run |-> f.run, job |-> f.job]}
        /\ callbacks' = {[d EXCEPT !.late = @ \/ d.run = f.run] : d \in callbacks}
    BY <1>2 DEF TrainingStarted
  <2>2. f.run \in RunIds /\ f.job \in Nat
    BY DEF ModelsInv, Typed, PageTyped, Flow
  <2>3. \A d \in callbacks : [d EXCEPT !.late = @ \/ d.run = f.run] \in Callback
    BY DEF Shape, Callback
  <2> QED  BY <2>1, <2>2, <2>3 DEF Shape
<1>3. ASSUME NEW w \in watched, JobTold(w)
      PROVE  watched' \subseteq [run : RunIds, job : Nat] /\ callbacks' \subseteq Callback
  <2> DEFINE c == [run |-> w.run, job |-> w.job, status |-> runs[w.run].status, late |-> FALSE]
  <2>1. watched' = watched \ {w} /\ callbacks' \in {callbacks, callbacks \cup {c}}
    BY <1>3 DEF JobTold
  <2>2. c \in Callback
    BY DEF Shape, Callback, ModelsInv, Typed, TablesTyped, RunRow
  <2> HIDE DEF c
  <2> QED  BY <2>1, <2>2 DEF Shape
<1>4. ASSUME NEW c \in callbacks, RunArrives(c)
      PROVE  watched' \subseteq [run : RunIds, job : Nat] /\ callbacks' \subseteq Callback
  <2>1. /\ callbacks' = {[d EXCEPT !.late = @ \/ (d.run = c.run /\ d.job < c.job)] : d \in callbacks \ {c}}
        /\ watched' = watched
    BY <1>4 DEF RunArrives
  <2>2. \A d \in callbacks : [d EXCEPT !.late = @ \/ (d.run = c.run /\ d.job < c.job)] \in Callback
    BY DEF Shape, Callback
  <2> QED  BY <2>1, <2>2 DEF Shape
<1>5. CASE Remount
  BY <1>5 DEF Remount
<1>6. ASSUME NEW s, SelectSession(s) \/ DeleteSession(s) \/ SessionDeleted(s)  PROVE UNCHANGED watches
  BY <1>6 DEF SelectSession, DeleteSession, SessionDeleted
<1>7. ASSUME NEW f \in flows, ~TrainingStarted(f), HandlerStep(f) \/ CountFails(f) \/ FlowFails(f)
      PROVE  UNCHANGED watches
  BY <1>7 DEF HandlerStep, CountFails, FlowFails, OperationsCounted, DeleteOperations, EnqueueRun,
       ResetBegins, ResetEnds, RemoveBegins, RemoveEnds, RunCreated, RunRemoved, pageState
<1>10. ASSUME NEW f \in flows, EnqueueBreaks(f) \/ StartUnheard(f)  PROVE UNCHANGED <<watched, callbacks>>
  BY <1>10 DEF EnqueueBreaks, StartUnheard
<1>11. CASE UNCHANGED <<watched, callbacks>>
  BY <1>11 DEF Shape
<1>8. CASE PostRun \/ ConfirmRetrain \/ CancelRetrain \/ ModelConsumer \/ CreateSession \/ ListOfRunsArrives
            \/ AnswerLost \/ \E r \in RunIds : DeleteRun(r) \/ TrainRun(r) \/ \E kind : PostOp(r, kind)
  <2>1. UNCHANGED watches
    BY <1>8 DEF PostRun, ConfirmRetrain, CancelRetrain, ModelConsumer, DeleteRun, TrainRun, PostOp,
         AnswerLost, CreateSession, ListOfRunsArrives, TakeModelJob, SaveModel, TrainingEnds, OperationEnds, pageState
  <2> QED  BY <1>1, <2>1
<1>9. CASE UNCHANGED modelsPageVars
  BY <1>1, <1>9 DEF modelsPageVars, pageState
<1> QED
  BY <1>1, <1>2, <1>3, <1>4, <1>5, <1>6, <1>7, <1>8, <1>9, <1>10, <1>11 DEF ModelsPageNext

\* Its sessions, and how often a request failed.
LEMMA ListedShape ==
  ASSUME ModelsInv, Shape, [ModelsPageNext]_modelsPageVars
  PROVE  listed' \subseteq Nat \ {0} /\ selected' \in Nat /\ failures' \in Nat
<1>0. sessions \subseteq Nat \ {0}
  BY DEF ModelsInv, Typed, TablesTyped
<1>1. CASE UNCHANGED <<listed, selected, failures>>
  BY <1>1 DEF Shape
<1>2. ASSUME NEW s \in 0..MaxSessions, SelectSession(s) \/ DeleteSession(s) \/ SessionDeleted(s)
      PROVE  listed' \subseteq Nat \ {0} /\ selected' \in Nat /\ failures' \in Nat
  <2>1. /\ listed' \subseteq listed /\ selected' \in {selected, 0, s}
        /\ failures' \in {failures, failures + 1}
    BY <1>2 DEF SelectSession, DeleteSession, SessionDeleted, Selects, pageRuns, history, Fail
  <2> QED  BY <2>1 DEF Shape
<1>3. CASE CreateSession
  <2> DEFINE s == 1 + Max({0} \cup sessions)
  <2>1. listed' = listed \cup {s} /\ selected' = s /\ failures' = failures
    BY <1>3 DEF CreateSession, Selects, history
  <2>2. s \in Nat \ {0}
    BY NextSessionBound DEF ModelsInv, Typed
  <2> HIDE DEF s
  <2> QED  BY <2>1, <2>2 DEF Shape
<1>4. CASE Remount
  BY <1>0, <1>4 DEF Remount, Shape
<1>5. ASSUME NEW f \in flows, HandlerStep(f) \/ CountFails(f) \/ FlowFails(f)
      PROVE  UNCHANGED <<listed, selected>> /\ failures' \in {failures, failures + 1}
  BY <1>5 DEF HandlerStep, CountFails, FlowFails, OperationsCounted, DeleteOperations, EnqueueRun,
       ResetBegins, ResetEnds, RemoveBegins, RemoveEnds, RunCreated, RunRemoved, TrainingStarted,
       pageState, pageRuns, history, Fail
<1>6. CASE PostRun \/ ConfirmRetrain \/ CancelRetrain \/ ModelConsumer \/ ListOfRunsArrives
            \/ (\E r \in RunIds : DeleteRun(r) \/ TrainRun(r) \/ \E kind : PostOp(r, kind))
            \/ (\E c \in callbacks : RunArrives(c))
  <2>1. UNCHANGED <<listed, selected, failures>>
    BY <1>6 DEF PostRun, ConfirmRetrain, CancelRetrain, ModelConsumer, DeleteRun, TrainRun, PostOp,
         ListOfRunsArrives, TakeModelJob, SaveModel, TrainingEnds, OperationEnds, RunArrives,
         pageState, pageRuns, history
  <2> QED  BY <1>1, <2>1
<1>9. CASE AnswerLost \/ (\E w \in watched : JobTold(w)) \/ \E f \in flows : EnqueueBreaks(f) \/ StartUnheard(f)
  <2>1. UNCHANGED <<listed, selected>> /\ failures' \in {failures, failures + 1}
    BY <1>9 DEF AnswerLost, JobTold, EnqueueBreaks, StartUnheard, pageRuns, Fail
  <2> QED  BY <2>1 DEF Shape
<1>7. CASE UNCHANGED modelsPageVars
  BY <1>1, <1>7 DEF modelsPageVars, pageState, pageRuns, history
<1>8. ASSUME NEW f \in flows, HandlerStep(f) \/ CountFails(f) \/ FlowFails(f)
      PROVE  listed' \subseteq Nat \ {0} /\ selected' \in Nat /\ failures' \in Nat
  <2>1. UNCHANGED <<listed, selected>> /\ failures' \in {failures, failures + 1}
    BY <1>5, <1>8
  <2> QED  BY <2>1 DEF Shape
<1> QED
  BY <1>1, <1>2, <1>3, <1>4, <1>6, <1>7, <1>8, <1>9 DEF ModelsPageNext

\* The operations, and the one that is computed.
LEMMA OpsShape ==
  ASSUME ModelsInv, Shape, [ModelsPageNext]_modelsPageVars
  PROVE  /\ op' \in [RunIds -> OpRow]
         /\ inHand'.kind = "operation" => inHand'.run \in RunIds /\ inHand'.model # 0
<1>0. noOp \in OpRow
  BY DEF noOp, OpRow
<1>1. CASE UNCHANGED <<op, inHand>>
  BY <1>1 DEF Shape
<1>2. ASSUME NEW gone \in SUBSET RunIds, WithoutRun(gone)  PROVE op' \in [RunIds -> OpRow]
  BY <1>0, <1>2 DEF WithoutRun, Shape
<1>3. ASSUME NEW s, SessionDeleted(s)
      PROVE  op' \in [RunIds -> OpRow] /\ inHand' = inHand
  <2>1. inHand' = inHand /\ (op' = op \/ WithoutRun({r \in RunIds : runs[r].session = s}))
    BY <1>3 DEF SessionDeleted, modelQueue
  <2> QED  BY <1>2, <2>1 DEF Shape
<1>4. ASSUME NEW f \in flows, HandlerStep(f) \/ CountFails(f) \/ FlowFails(f)
      PROVE  op' \in [RunIds -> OpRow] /\ inHand' = inHand
  <2>1. /\ inHand' = inHand
        /\ op' = op \/ op' = [op EXCEPT ![f.run] = noOp] \/ WithoutRun({f.run})
    BY <1>4 DEF HandlerStep, CountFails, FlowFails, OperationsCounted, DeleteOperations, EnqueueRun,
       ResetBegins, ResetEnds, RemoveBegins, RemoveEnds, RunCreated, RunRemoved, TrainingStarted,
       serverState, modelQueue
  <2>2. f.run \in RunIds
    BY DEF ModelsInv, Typed, PageTyped, Flow
  <2>3. {f.run} \in SUBSET RunIds
    BY <2>2
  <2> QED  BY <1>0, <1>2, <2>1, <2>3 DEF Shape
<1>5. ASSUME NEW r \in RunIds, NEW kind \in {"explainer", "prediction"}, PostOp(r, kind)
      PROVE  op' \in [RunIds -> OpRow] /\ inHand' = inHand
  <2> DEFINE new == [kind |-> kind, model |-> 0]
  <2>1. op' = [op EXCEPT ![r] = new] /\ inHand' = inHand
    BY <1>5 DEF PostOp
  <2>2. new \in OpRow
    BY DEF OpRow
  <2> HIDE DEF new
  <2> QED  BY <2>1, <2>2 DEF Shape
<1>6. CASE TakeModelJob
  <2> DEFINE j == Head(modelJobs)
  <2>1. op' = op /\ modelJobs # <<>> /\ modelJobs' = Tail(modelJobs) /\ inHand = noWork
    BY <1>6 DEF TakeModelJob
  <2>2. j.run \in RunIds
    BY <2>1, JobTaken DEF ModelJob
  <2>3. \/ inHand' = inHand \/ inHand' = noWork \/ inHand'.kind = "train"
        \/ inHand'.run = j.run /\ inHand'.model = runs[j.run].model /\ runs[j.run].model # 0
    BY <1>6 DEF TakeModelJob
  <2>4. inHand'.kind = "operation" => inHand'.run \in RunIds /\ inHand'.model # 0
    <3> HIDE DEF j
    <3> QED  BY <2>2, <2>3 DEF noWork, Shape
  <2> QED  BY <2>1, <2>4 DEF Shape
<1>7. CASE SaveModel
  <2>1. op' = op /\ inHand' = [inHand EXCEPT !.kind = "saved"]
    BY <1>7 DEF SaveModel
  <2>2. inHand'.kind = "saved"
    BY <2>1 DEF ModelsInv, Typed, QueueTyped
  <2> QED  BY <2>1, <2>2 DEF Shape
<1>8. CASE TrainingEnds
  BY <1>8 DEF TrainingEnds, noWork, Shape
<1>9. CASE OperationEnds
  <2> DEFINE new == [op[inHand.run] EXCEPT !.model = inHand.model]
  <2>1. inHand' = noWork /\ (op' = op \/ op' = [op EXCEPT ![inHand.run].model = inHand.model])
    BY <1>9 DEF OperationEnds
  <2>2. inHand.run \in RunIds /\ inHand.model \in Nat
    BY <1>9 DEF OperationEnds, Shape, ModelsInv, Typed, QueueTyped
  <2>3. new \in OpRow
    BY <2>2 DEF Shape, OpRow
  <2>4. op' = op \/ op' = [op EXCEPT ![inHand.run] = new]
    BY <2>1, <2>2 DEF Shape
  <2> HIDE DEF new
  <2>5. op' \in [RunIds -> OpRow]
    BY <2>3, <2>4 DEF Shape
  <2> QED  BY <2>1, <2>5 DEF noWork
<1>10. CASE (\E s : SelectSession(s) \/ DeleteSession(s)) \/ CreateSession \/ PostRun \/ ListOfRunsArrives
            \/ ConfirmRetrain \/ CancelRetrain \/ Remount \/ (\E r \in RunIds : DeleteRun(r) \/ TrainRun(r))
            \/ (\E w \in watched : JobTold(w)) \/ (\E c \in callbacks : RunArrives(c))
            \/ AnswerLost \/ (\E f \in flows : EnqueueBreaks(f) \/ StartUnheard(f))
            \/ UNCHANGED modelsPageVars
  <2>1. UNCHANGED <<op, inHand>>
    BY <1>10 DEF SelectSession, DeleteSession, CreateSession, PostRun, ListOfRunsArrives, ConfirmRetrain,
         CancelRetrain, Remount, DeleteRun, TrainRun, JobTold, RunArrives, AnswerLost, EnqueueBreaks,
         StartUnheard, modelsPageVars, serverState, modelQueue
  <2> QED  BY <1>1, <2>1
<1> QED
  BY <1>1, <1>3, <1>4, <1>5, <1>6, <1>7, <1>8, <1>9, <1>10 DEF ModelsPageNext, ModelConsumer, Shape

\* A step that is no mishap has no part in it.
LEMMA AwareStays ==
  ASSUME Aware, unaware' = unaware, failures' = 0 => failures = 0,
         failures' = 0 => forsaken' \subseteq forsaken,
         (\A f \in flows : f.live) => \A f \in flows' : f.live
  PROVE  Aware'
<1>1. ASSUME ~unaware', failures' = 0  PROVE forsaken' = {}
  BY <1>1 DEF Aware
<1>2. ASSUME ~unaware'  PROVE \A f \in flows' : f.live
  BY <1>2 DEF Aware
<1> QED
  BY <1>1, <1>2 DEF Aware

\* A handler that begins is the page's, ...
LEMMA OpensLive == ASSUME NEW r, NEW step, Opens(r, step), \A f \in flows : f.live
                   PROVE  \A f \in flows' : f.live
<1>1. PICK n \in 1..MaxFlows :
        flows' = flows \cup {[id |-> n, run |-> r, step |-> step, job |-> 0, live |-> TRUE]}
  BY DEF Opens
<1> DEFINE g == [id |-> n, run |-> r, step |-> step, job |-> 0, live |-> TRUE]
<1>2. g.live
  OBVIOUS
<1> HIDE DEF g
<1>3. flows' = flows \cup {g}
  BY <1>1 DEF g
<1> QED
  BY <1>2, <1>3

\* ... and one that goes on is the page's if it was.
LEMMA GoesLive == ASSUME ModelsInv, NEW f \in flows, NEW step, Goes(f, step), \A h \in flows : h.live
                  PROVE  \A h \in flows' : h.live
<1> DEFINE g == [f EXCEPT !.step = step]
<1>1. g.live = f.live
  BY DEF ModelsInv, Typed, PageTyped, Flow
<1>2. flows' = (flows \ {f}) \cup {g}
  BY DEF Goes
<1> HIDE DEF g
<1> QED
  BY <1>1, <1>2

\* Every step keeps the page aware.
LEMMA AwareStep ==
  ASSUME ModelsInv, Shape, [ModelsPageNext]_modelsPageVars
  PROVE  Aware'
<1>0. Aware /\ failures \in Nat
  BY DEF Shape
<1>1. CASE UNCHANGED <<watches, flows, failures>>
  BY <1>0, <1>1, AwareStays DEF watches
<1>2. ASSUME UNCHANGED watches, failures' \in {failures, failures + 1},
             (\A f \in flows : f.live) => \A f \in flows' : f.live
      PROVE  Aware'
  <2>1. failures' = 0 => failures = 0
    BY <1>0, <1>2
  <2> QED  BY <1>0, <1>2, <2>1, AwareStays DEF watches
<1>3. ASSUME NEW s, SelectSession(s) \/ DeleteSession(s) \/ SessionDeleted(s)  PROVE Aware'
  <2>1. UNCHANGED <<watches, flows>> /\ failures' \in {failures, failures + 1}
    BY <1>3 DEF SelectSession, DeleteSession, SessionDeleted, history, Fail
  <2> QED  BY <1>2, <2>1
<1>4. CASE CreateSession \/ ListOfRunsArrives \/ CancelRetrain \/ ModelConsumer \/ \E r, kind : PostOp(r, kind)
  <2>1. UNCHANGED <<watches, flows, failures>>
    BY <1>4 DEF CreateSession, ListOfRunsArrives, CancelRetrain, ModelConsumer, PostOp, TakeModelJob,
         SaveModel, TrainingEnds, OperationEnds, pageState, history
  <2> QED  BY <1>1, <2>1
<1>5. CASE UNCHANGED modelsPageVars
  <2>1. UNCHANGED <<watches, flows, failures>>
    BY <1>5 DEF modelsPageVars, pageState, history
  <2> QED  BY <1>1, <2>1
<1>6. CASE PostRun \/ ConfirmRetrain \/ \E r \in RunIds : DeleteRun(r) \/ TrainRun(r)
  <2>1. UNCHANGED <<watches, failures>> /\ \E r, step : Opens(r, step)
    BY <1>6 DEF PostRun, ConfirmRetrain, DeleteRun, TrainRun, pageState
  <2> QED  BY <1>2, <2>1, OpensLive
<1>7. CASE AnswerLost
  <2>1. UNCHANGED watches /\ failures' = failures + 1 /\ flows' \subseteq flows
    BY <1>7 DEF AnswerLost, Fail, Ends
  <2> QED  BY <1>2, <2>1
<1>8. ASSUME NEW f \in flows, ~TrainingStarted(f), ~EnqueueRun(f), HandlerStep(f) \/ CountFails(f) \/ FlowFails(f)
      PROVE  Aware'
  <2>1. UNCHANGED watches /\ failures' \in {failures, failures + 1}
    BY <1>8 DEF HandlerStep, CountFails, FlowFails, OperationsCounted, DeleteOperations, ResetBegins,
       ResetEnds, RemoveBegins, RemoveEnds, RunCreated, RunRemoved, pageState, history, Fail
  <2>2. Ends(f) \/ \E step : Goes(f, step)
    BY <1>8 DEF HandlerStep, CountFails, FlowFails, OperationsCounted, DeleteOperations, ResetBegins,
       ResetEnds, RemoveBegins, RemoveEnds, RunCreated, RunRemoved
  <2> QED  BY <1>2, <2>1, <2>2, GoesLive DEF Ends
<1>9. ASSUME NEW f \in flows, EnqueueRun(f)  PROVE Aware'
  <2> DEFINE g == [f EXCEPT !.step = "started", !.job = trained']
  <2>1. UNCHANGED <<watches, failures>> /\ flows' \subseteq flows \cup {g}
    BY <1>9 DEF EnqueueRun, Ends, pageState, history
  <2>2. g.live = f.live
    BY DEF ModelsInv, Typed, PageTyped, Flow
  <2> HIDE DEF g
  <2> QED  BY <1>2, <2>1, <2>2
<1>10. ASSUME NEW f \in flows, TrainingStarted(f)  PROVE Aware'
  <2>1. unaware' = unaware /\ failures' = failures /\ forsaken' \subseteq forsaken /\ flows' \subseteq flows
    BY <1>10 DEF TrainingStarted, Ends, history
  <2> QED  BY <1>0, <2>1, AwareStays
<1>11. ASSUME NEW f \in flows, EnqueueBreaks(f) \/ StartUnheard(f)  PROVE Aware'
  <2>1. unaware'
    BY <1>11 DEF EnqueueBreaks, StartUnheard
  <2> QED  BY <2>1 DEF Aware
<1>12. ASSUME NEW w \in watched, JobTold(w)  PROVE Aware'
  <2>1. /\ unaware' = unaware /\ flows' = flows
        /\ (forsaken' = forsaken /\ failures' = failures) \/ failures' = failures + 1
    BY <1>12 DEF JobTold, Fail
  <2>2. (failures' = 0 => failures = 0) /\ (failures' = 0 => forsaken' \subseteq forsaken)
    BY <1>0, <2>1
  <2> QED  BY <1>0, <2>1, <2>2, AwareStays
<1>13. ASSUME NEW c \in callbacks, RunArrives(c)  PROVE Aware'
  <2>1. unaware' = unaware /\ flows' = flows /\ forsaken' = forsaken /\ failures' = failures
    BY <1>13 DEF RunArrives
  <2> QED  BY <1>0, <2>1, AwareStays
<1>14. CASE Remount
  <2>1. /\ unaware' <=> unaware \/ \E r \in RunIds : Training(r)
        /\ forsaken' = forsaken \cup {r \in RunIds : Training(r)} /\ failures' = failures
        /\ flows' # {} => flows # {}
    BY <1>14 DEF Remount
  <2>2. flows # {} => \E r \in RunIds : Training(r)
    BY DEF Training, ModelsInv, Typed, PageTyped, Flow
  <2> QED  BY <1>0, <2>1, <2>2 DEF Aware
<1> QED
  BY <1>3, <1>4, <1>5, <1>6, <1>7, <1>8, <1>9, <1>10, <1>11, <1>12, <1>13, <1>14 DEF ModelsPageNext, HandlerStep

\* So the shapes stay.
LEMMA ShapeStep == ModelsInv /\ Shape /\ [ModelsPageNext]_modelsPageVars => Shape'
  BY ShownShape, CallsShape, ListedShape, OpsShape, AwareStep DEF Shape

\* It is there from the start.
LEMMA ShapeInit == ModelsPageInit => Shape
<1> SUFFICES ASSUME ModelsPageInit  PROVE Shape
  OBVIOUS
<1>1. noOp \in OpRow
  BY DEF noOp, OpRow
<1>2. op \in [RunIds -> OpRow] /\ shown \in [RunIds -> Statuses]
  BY <1>1 DEF ModelsPageInit, Statuses
<1>3. answers \in Seq(Answer)
  BY DEF ModelsPageInit
<1>4. Aware
  BY DEF ModelsPageInit, Aware
<1> QED
  BY <1>2, <1>3, <1>4 DEF ModelsPageInit, Shape, noWork

-----------------------------------------------------------------------------
(* What a step leaves alone *)

\* The server's part of what is said of a run.
LEMMA ServedStays ==
  ASSUME NEW r \in RunIds, Served(r), FlowsOn(r)' = FlowsOn(r), JobsOn(r)' = JobsOn(r),
         runs'[r] = runs[r], op'[r] = op[r], Saving(r)' <=> Saving(r), Computing(r)' <=> Computing(r),
         Computing(r) => inHand'.model = inHand.model,
         r \in forsaken => r \in forsaken', unaware => unaware'
  PROVE  Served(r)'
<1>1. InTable(r)' <=> InTable(r)
  BY DEF InTable
<1>2. \A steps : At(r, steps)' <=> At(r, steps)
  BY DEF At
<1>3. Alone(r)'
  BY DEF Served, Alone
<1>4. Phase(r)'
  BY <1>1, <1>2 DEF Served, Phase, Lost
<1>5. FreshBefore(r)'
  <2>1. Fresh(r)' <=> Fresh(r)
    BY DEF Fresh
  <2> QED  BY <1>1, <1>2, <2>1 DEF Served, FreshBefore
<1>6. Own(r)'
  BY <1>1, <1>2 DEF Served, Own
<1> QED
  BY <1>3, <1>4, <1>5, <1>6 DEF Served

\* Jobs have numbers.
LEMMA JobNumbers ==
  ASSUME ModelsInv, Shape, NEW r
  PROVE  /\ JobsOn(r) \subseteq Nat /\ WatchedOn(r) \subseteq Nat /\ HeardOn(r) \subseteq Nat
         /\ trained \in Nat /\ \A f \in FlowsOn(r) : f.job \in Nat
         /\ \A c \in CallsOn(r) : c.job \in Nat
<1>1. trained \in Nat /\ \A f \in FlowsOn(r) : f.job \in Nat
  BY DEF ModelsInv, Typed, TablesTyped, PageTyped, Flow, FlowsOn
<1>2. WatchedOn(r) \subseteq Nat /\ \A c \in CallsOn(r) : c.job \in Nat
  BY DEF Shape, Callback, WatchedOn, CallsOn
<1>3. \A i \in DOMAIN modelJobs : modelJobs[i].job \in Nat
  <2>1. \A i \in DOMAIN modelJobs : modelJobs[i] \in ModelJob
    BY ElementsOfSeq DEF ModelsInv, Typed, QueueTyped
  <2> QED  BY <2>1 DEF ModelJob
<1>4. inHand.job \in Nat
  BY DEF ModelsInv, Typed, QueueTyped
<1>5. JobsOn(r) \subseteq Nat
  BY <1>3, <1>4 DEF JobsOn
<1> QED
  BY <1>1, <1>2, <1>5 DEF HeardOn

\* The page's part: handlers may go on that it does not wait for, a model may
\* be saved or removed, lists may arrive elsewhere, requests may fail.
Telling(r) == {f \in FlowsOn(r) : f.step \in {"created", "enqueue", "started", "removed"}}
LEMMA PagedStays ==
  ASSUME NEW r \in RunIds, Paged(r), Telling(r)' = Telling(r), JobsOn(r)' = JobsOn(r),
         InTable(r)' <=> InTable(r), runs'[r].status = runs[r].status,
         runs'[r].session = runs[r].session, shown'[r] = shown[r], ToldOn(r)' \subseteq ToldOn(r),
         Unanswered => Unanswered', WatchedOn(r)' = WatchedOn(r), CallsOn(r)' = CallsOn(r),
         selected' = selected, failures' = 0 => failures = 0,
         r \in forsaken => r \in forsaken', unaware => unaware',
         ModelsInv, Shape, trained' \in {trained, trained + 1}
  PROVE  Paged(r)'
<1>1. NewCallsOn(r)' = NewCallsOn(r) /\ HeardOn(r)' = HeardOn(r)
  BY DEF NewCallsOn, HeardOn
<1>2. \A steps \in SUBSET {"created", "enqueue", "started", "removed"} : At(r, steps)' <=> At(r, steps)
  BY DEF At, Telling
<1>3. /\ At(r, {"started"})' <=> At(r, {"started"})
      /\ At(r, {"removed"})' <=> At(r, {"removed"})
      /\ At(r, {"created"})' <=> At(r, {"created"})
      /\ At(r, {"started", "removed"})' <=> At(r, {"started", "removed"})
      /\ At(r, {"enqueue", "started"})' <=> At(r, {"enqueue", "started"})
      /\ At(r, {"enqueue", "started", "created"})' <=> At(r, {"enqueue", "started", "created"})
  BY <1>2
<1>4. /\ \A j : Later(r, j)' <=> Later(r, j)
      /\ (Followed(r)' <=> Followed(r)) /\ (Changing(r)' <=> Changing(r))
      /\ \A status : Says(r, status)' => Says(r, status)
  BY <1>1, <1>3 DEF Later, Followed, Changing, Says
<1>5. Claims(r)'
  BY <1>3, <1>4 DEF Paged, Claims
<1>6. \A f : f.step = "started" => (f \in FlowsOn(r)' <=> f \in FlowsOn(r))
  BY DEF Telling
<1>7. Numbers(r)' /\ FollowedJob(r)'
  <2>1. trained \in Nat /\ HeardOn(r) \subseteq Nat /\ \A f \in FlowsOn(r) : f.job \in Nat
    BY JobNumbers
  <2>2. JobsOn(r) \subseteq Nat
    BY JobNumbers
  <2>3. Numbers(r) /\ FollowedJob(r)
    BY DEF Paged
  <2>4. \A n \in Nat : n <= trained => n <= trained'
    BY <2>1
  <2>5. \A j \in JobsOn(r) : j <= trained'
    BY <2>2, <2>3, <2>4 DEF Numbers
  <2>6. \A k \in HeardOn(r) : k <= trained'
    BY <2>1, <2>3, <2>4 DEF Numbers
  <2>7. \A f \in FlowsOn(r)' : f.step = "started" => f.job <= trained'
    BY <1>6, <2>1, <2>3, <2>4 DEF Numbers
  <2> QED  BY <1>1, <1>6, <2>3, <2>5, <2>6, <2>7 DEF Numbers, FollowedJob
<1>8. InWorkFollowed(r)'
  BY <1>1, <1>3, <1>4 DEF Paged, InWorkFollowed
<1>9. Gone(r)'
  BY <1>3 DEF Paged, Gone
<1>10. OfSession(r)'
  BY <1>3 DEF Paged, OfSession
<1>11. Exact(r)'
  BY <1>1, <1>3, <1>4 DEF Paged, Exact
<1>12. Real(r)'
  BY DEF Paged, Real
<1> QED
  BY <1>5, <1>7, <1>8, <1>9, <1>10, <1>11, <1>12 DEF Paged

\* The queue stays as it is.
LEMMA QueueStays ==
  ASSUME UNCHANGED modelQueue
  PROVE  /\ \A r : JobsOn(r)' = JobsOn(r) /\ (Saving(r)' <=> Saving(r)) /\ (Computing(r)' <=> Computing(r))
         /\ inHand' = inHand /\ (OneJob => OneJob')
<1>1. modelJobs' = modelJobs /\ inHand' = inHand
  BY DEF modelQueue
<1>2. \A i, r : (Trains(i, r)' <=> Trains(i, r)) /\ (InHand(r)' <=> InHand(r))
  BY <1>1 DEF Trains, InHand
<1>3. \A r : JobsOn(r)' = JobsOn(r) /\ (Saving(r)' <=> Saving(r)) /\ (Computing(r)' <=> Computing(r))
  BY <1>1, <1>2 DEF JobsOn, Saving, Computing
<1>4. OneJob => OneJob'
  BY <1>1, <1>2 DEF OneJob
<1> QED
  BY <1>1, <1>3, <1>4

\* So do the handlers.
LEMMA FlowsStay == UNCHANGED flows => \A r : FlowsOn(r)' = FlowsOn(r)
  BY DEF FlowsOn

\* The lists that are under way.
LEMMA ListsStay == UNCHANGED answers => (\A r : ToldOn(r)' = ToldOn(r)) /\ (Unanswered' <=> Unanswered)
  BY DEF ToldOn, NewLists, Unanswered

\* The jobs that are watched, and the answers to what they told.
LEMMA CallsStay ==
  UNCHANGED watches =>
    /\ \A r : WatchedOn(r)' = WatchedOn(r) /\ CallsOn(r)' = CallsOn(r)
    /\ forsaken' = forsaken /\ unaware' = unaware
  BY DEF watches, WatchedOn, CallsOn

\* No training of a run, and no work on it, is under way.
LEMMA NoTraining ==
  ASSUME NEW r
  PROVE  ~Training(r) <=> FlowsOn(r) = {} /\ JobsOn(r) = {}
<1>1. FlowsOn(r) = {} <=> ~\E f \in flows : f.run = r
  BY DEF FlowsOn
<1>2. JobsOn(r) = {} <=> ~InHand(r) /\ ~\E i \in DOMAIN modelJobs : Trains(i, r)
  BY DEF JobsOn
<1> QED
  BY <1>1, <1>2 DEF Training, Trains, InHand

\* A run that is not engaged is not in the consumer's hands either.
LEMMA NotEngaged ==
  ASSUME NEW r, ~Engaged(r)
  PROVE  FlowsOn(r) = {} /\ JobsOn(r) = {} /\ inHand.run # r
  BY NoTraining DEF Engaged

\* The only handler of a run ends, ...
LEMMA HandlerEnds ==
  ASSUME ModelsInv, Kept, NEW f \in flows, Ends(f)
  PROVE  /\ f.run \in RunIds /\ FlowsOn(f.run) = {f} /\ (f.live \/ f.run \in forsaken) /\ FlowsOn(f.run)' = {}
         /\ \A r \in RunIds : r # f.run => FlowsOn(r)' = FlowsOn(r)
<1>1. f.run \in RunIds
  BY DEF ModelsInv, Typed, PageTyped, Flow
<1>2. Alone(f.run)
  BY <1>1 DEF Kept, Served
<1>3. FlowsOn(f.run) = {f} /\ (f.live \/ f.run \in forsaken)
  BY <1>2 DEF Alone, FlowsOn
<1>4. FlowsOn(f.run)' = {}
  BY <1>3 DEF FlowsOn, Ends
<1>5. \A r \in RunIds : r # f.run => FlowsOn(r)' = FlowsOn(r)
  BY DEF FlowsOn, Ends
<1> QED
  BY <1>1, <1>3, <1>4, <1>5

\* ... goes on, ...
LEMMA HandlerIsReplaced ==
  ASSUME ModelsInv, Kept, NEW f \in flows, NEW g, g.run = f.run, flows' = (flows \ {f}) \cup {g}
  PROVE  /\ f.run \in RunIds /\ FlowsOn(f.run) = {f} /\ (f.live \/ f.run \in forsaken) /\ FlowsOn(f.run)' = {g}
         /\ \A r \in RunIds : r # f.run => FlowsOn(r)' = FlowsOn(r)
<1>1. f.run \in RunIds
  BY DEF ModelsInv, Typed, PageTyped, Flow
<1>2. Alone(f.run)
  BY <1>1 DEF Kept, Served
<1>3. FlowsOn(f.run) = {f} /\ (f.live \/ f.run \in forsaken)
  BY <1>2 DEF Alone, FlowsOn
<1>4. FlowsOn(f.run)' = {g}
  BY <1>3 DEF FlowsOn
<1>5. \A r \in RunIds : r # f.run => FlowsOn(r)' = FlowsOn(r)
  BY DEF FlowsOn
<1> QED
  BY <1>1, <1>3, <1>4, <1>5

\* ... to its next step, ...
LEMMA HandlerGoes ==
  ASSUME ModelsInv, Kept, NEW f \in flows, NEW step \in Steps, Goes(f, step)
  PROVE  /\ f.run \in RunIds /\ FlowsOn(f.run) = {f} /\ (f.live \/ f.run \in forsaken)
         /\ \E g : FlowsOn(f.run)' = {g} /\ g.step = step /\ g.live = f.live /\ g.job = f.job
         /\ \A r \in RunIds : r # f.run => FlowsOn(r)' = FlowsOn(r)
<1> DEFINE g == [f EXCEPT !.step = step]
<1>1. g.run = f.run /\ g.step = step /\ g.live = f.live /\ g.job = f.job
  BY DEF ModelsInv, Typed, PageTyped, Flow
<1>2. flows' = (flows \ {f}) \cup {g}
  BY DEF Goes
<1> HIDE DEF g
<1>3. /\ f.run \in RunIds /\ FlowsOn(f.run) = {f} /\ FlowsOn(f.run)' = {g}
      /\ (f.live \/ f.run \in forsaken)
      /\ \A r \in RunIds : r # f.run => FlowsOn(r)' = FlowsOn(r)
  BY <1>1, <1>2, HandlerIsReplaced
<1> QED
  BY <1>1, <1>3

\* ... or opens on a run that has none.
LEMMA HandlerOpens ==
  ASSUME NEW r \in RunIds, NEW step, Opens(r, step), FlowsOn(r) = {}
  PROVE  /\ \E g : FlowsOn(r)' = {g} /\ g.step = step /\ g.live
         /\ \A q \in RunIds : q # r => FlowsOn(q)' = FlowsOn(q)
<1>1. PICK n \in 1..MaxFlows :
        flows' = flows \cup {[id |-> n, run |-> r, step |-> step, job |-> 0, live |-> TRUE]}
  BY DEF Opens
<1> DEFINE g == [id |-> n, run |-> r, step |-> step, job |-> 0, live |-> TRUE]
<1>2. g.run = r /\ g.step = step /\ g.live
  OBVIOUS
<1> HIDE DEF g
<1>3. flows' = flows \cup {g}
  BY <1>1 DEF g
<1>4. FlowsOn(r)' = {g} /\ \A q \in RunIds : q # r => FlowsOn(q)' = FlowsOn(q)
  BY <1>2, <1>3 DEF FlowsOn
<1> QED
  BY <1>2, <1>4

\* A run that a step leaves alone stays as it was for the server ...
LEMMA OthersServed ==
  ASSUME Kept, NEW r \in RunIds, FlowsOn(r)' = FlowsOn(r), UNCHANGED modelQueue,
         runs'[r] = runs[r], op'[r] = op[r], r \in forsaken => r \in forsaken', unaware => unaware'
  PROVE  Served(r)'
<1>1. /\ JobsOn(r)' = JobsOn(r) /\ (Saving(r)' <=> Saving(r)) /\ (Computing(r)' <=> Computing(r))
      /\ inHand' = inHand
  BY QueueStays
<1>2. Served(r)
  BY DEF Kept
<1> QED
  BY <1>1, <1>2, ServedStays

\* What the page has of lists, runs and watches.
pageView == <<listed, pageRuns, leaving, watches>>

\* ... and for the page.
LEMMA OthersPaged ==
  ASSUME ModelsInv, Shape, Kept, NEW r \in RunIds, Telling(r)' = Telling(r), JobsOn(r)' = JobsOn(r),
         InTable(r)' <=> InTable(r), runs'[r].status = runs[r].status,
         runs'[r].session = runs[r].session, UNCHANGED pageView,
         failures' = 0 => failures = 0, trained' \in {trained, trained + 1}
  PROVE  Paged(r)'
<1>1. UNCHANGED <<selected, shown, answers, watches>>
  BY DEF pageView, pageRuns
<1>2. /\ ToldOn(r)' = ToldOn(r) /\ (Unanswered' <=> Unanswered)
      /\ WatchedOn(r)' = WatchedOn(r) /\ CallsOn(r)' = CallsOn(r)
      /\ (r \in forsaken => r \in forsaken') /\ (unaware => unaware')
  BY <1>1, ListsStay, CallsStay
<1>3. Paged(r)
  BY DEF Kept
<1> QED
  BY <1>1, <1>2, <1>3, PagedStays

\* What the page lists, when neither it nor the sessions change.
LEMMA ListsKept ==
  ASSUME Kept, UNCHANGED <<listed, selected, leaving, sessions>>, failures' = 0 => failures = 0
  PROVE  Lists'
  BY DEF Kept, Lists

-----------------------------------------------------------------------------
(* Handlers that the page does not wait for *)

\* One run is touched, and neither the page nor the queue.
LEMMA RunKept ==
  ASSUME ModelsInv, Shape, Kept, NEW q \in RunIds, UNCHANGED <<modelQueue, pageView, sessions, trained>>,
         \A r \in RunIds : r # q => FlowsOn(r)' = FlowsOn(r) /\ runs'[r] = runs[r] /\ op'[r] = op[r],
         failures' = 0 => failures = 0,
         Served(q)', Paged(q)'
  PROVE  Kept'
<1>1. OneJob' /\ \A r : JobsOn(r)' = JobsOn(r)
  BY QueueStays DEF Kept
<1>2. Lists' /\ forsaken' = forsaken /\ unaware' = unaware
  BY ListsKept DEF pageView, pageRuns, watches
<1>3. ASSUME NEW r \in RunIds, r # q  PROVE Served(r)' /\ Paged(r)'
  <2>1. FlowsOn(r)' = FlowsOn(r) /\ runs'[r] = runs[r] /\ op'[r] = op[r]
    BY <1>3
  <2>2. Telling(r)' = Telling(r) /\ (InTable(r)' <=> InTable(r))
    BY <2>1 DEF Telling, InTable
  <2>3. Served(r)'
    BY <1>2, <2>1, OthersServed
  <2>4. Paged(r)'
    BY <1>1, <2>1, <2>2, OthersPaged
  <2> QED  BY <2>3, <2>4
<1> QED
  BY <1>1, <1>2, <1>3 DEF Kept

\* A handler opens.
LEMMA OpensKept ==
  ASSUME ModelsInv, Shape, Kept, NEW q \in RunIds, NEW step \in {"delete", "count", "operations", "reset"},
         Opens(q, step), ~Training(q), UNCHANGED <<serverState, modelQueue, pageState, failures>>,
         step = "reset" /\ InTable(q) /\ ~unaware => Fresh(q)
  PROVE  Kept'
<1>1. FlowsOn(q) = {} /\ JobsOn(q) = {}
  BY NoTraining
<1>2. /\ \E g : FlowsOn(q)' = {g} /\ g.step = step /\ g.live
      /\ \A r \in RunIds : r # q => FlowsOn(r)' = FlowsOn(r)
  BY <1>1, HandlerOpens
<1>3. UNCHANGED <<sessions, runs, op, trained, pageView, forsaken, unaware>>
  BY DEF serverState, pageState, pageView, watches
<1>4. /\ JobsOn(q)' = JobsOn(q) /\ (Saving(q)' <=> Saving(q)) /\ (Computing(q)' <=> Computing(q))
      /\ inHand' = inHand
  BY QueueStays
<1>5. Served(q) /\ (InTable(q)' <=> InTable(q))
  BY <1>3 DEF Kept, InTable
<1>6. PICK g : FlowsOn(q)' = {g} /\ g.step = step /\ g.live
  BY <1>2
<1>7. Served(q)'
  <2>1. Alone(q)'
    BY <1>6 DEF Alone
  <2>2. Phase(q)'
    <3>1. ~At(q, {"started"})'
      BY <1>6 DEF At
    <3> QED  BY <1>1, <1>3, <1>4, <1>5, <1>6, <3>1 DEF Served, Phase, Lost
  <2>3. FreshBefore(q)'
    <3>1. Fresh(q)' <=> Fresh(q)
      BY <1>3, <1>4 DEF Fresh
    <3>2. At(q, {"reset", "resetting", "enqueue"})' => step = "reset"
      BY <1>6 DEF At
    <3> QED  BY <1>3, <1>4, <1>5, <3>1, <3>2 DEF Served, FreshBefore
  <2>4. Own(q)'
    <3>1. ~At(q, {"removing"})
      BY <1>1 DEF At
    <3> QED  BY <1>3, <1>4, <1>5, <3>1 DEF Served, Own
  <2> QED  BY <2>1, <2>2, <2>3, <2>4 DEF Served
<1>8. Paged(q)'
  <2>1. Telling(q)' = Telling(q)
    BY <1>1, <1>6 DEF Telling
  <2> QED  BY <1>3, <1>4, <1>5, <2>1, OthersPaged
<1> QED
  BY <1>2, <1>3, <1>7, <1>8, RunKept

\* A click on a run: one that was told to be idle or failed, and has no
\* training, has no operations of an old model.
LEMMA ClickKept ==
  ASSUME ModelsInv, Shape, Kept, ~collided',
         ConfirmRetrain \/ \E r \in RunIds : DeleteRun(r) \/ TrainRun(r)
  PROVE  Kept'
<1>1. CASE ConfirmRetrain
  <2>1. /\ Opens(dialog, "operations") /\ ~Training(dialog) /\ dialog # 0
        /\ UNCHANGED <<serverState, modelQueue, pageState, failures>>
    BY <1>1 DEF ConfirmRetrain
  <2>2. dialog \in RunIds
    BY <2>1 DEF RunIds, ModelsInv, Typed, PageTyped
  <2> QED  BY <2>1, <2>2, OpensKept
<1>2. ASSUME NEW r \in RunIds, DeleteRun(r)  PROVE Kept'
  <2>1. Opens(r, "delete") /\ ~Training(r) /\ UNCHANGED <<serverState, modelQueue, pageState, failures>>
    BY <1>2 DEF DeleteRun, Engaged
  <2> QED  BY <2>1, OpensKept
<1>3. ASSUME NEW r \in RunIds, TrainRun(r)  PROVE Kept'
  <2>1. /\ Opens(r, "count") \/ (Opens(r, "reset") /\ shown[r] \in {"idle", "error"})
        /\ ~Training(r) /\ UNCHANGED <<serverState, modelQueue, pageState, failures>>
    BY <1>3 DEF TrainRun
  <2>2. ASSUME shown[r] \in {"idle", "error"}, InTable(r), ~unaware  PROVE Fresh(r)
    <3>1. FlowsOn(r) = {} /\ JobsOn(r) = {}
      BY <2>1, NoTraining
    <3>2. ~Saving(r)
      BY <3>1 DEF Saving, JobsOn, InHand
    <3>3. runs[r].status \in {"idle", "error"}
      BY <2>2, <3>1 DEF Kept, Paged, Claims, Says, At
    <3> QED  BY <2>2, <3>2, <3>3 DEF Kept, Served, FreshBefore
  <2>3. CASE Opens(r, "count")
    BY <2>1, <2>3, OpensKept
  <2>4. CASE Opens(r, "reset") /\ shown[r] \in {"idle", "error"}
    BY <2>1, <2>2, <2>4, OpensKept
  <2> QED  BY <2>1, <2>3, <2>4
<1> QED
  BY <1>1, <1>2, <1>3

\* A handler ends before it has done anything.
LEMMA EndsKept ==
  ASSUME ModelsInv, Shape, Kept, NEW f \in flows, Ends(f),
         f.step \in {"count", "operations", "reset", "delete", "enqueue"},
         UNCHANGED <<serverState, modelQueue, pageView>>, failures' = 0 => failures = 0,
         f.step = "enqueue" => failures' # 0
  PROVE  Kept'
<1> DEFINE q == f.run
<1>1. /\ q \in RunIds /\ FlowsOn(q) = {f} /\ FlowsOn(q)' = {}
      /\ \A r \in RunIds : r # q => FlowsOn(r)' = FlowsOn(r)
  BY HandlerEnds
<1> HIDE DEF q
<1>2. UNCHANGED <<sessions, runs, op, trained, selected, shown, answers, watches, forsaken, unaware>>
  BY DEF serverState, pageView, pageRuns, watches
<1>3. /\ JobsOn(q)' = JobsOn(q) /\ (Saving(q)' <=> Saving(q)) /\ (Computing(q)' <=> Computing(q))
      /\ inHand' = inHand
  BY QueueStays
<1>4. Served(q) /\ Paged(q) /\ (InTable(q)' <=> InTable(q))
  BY <1>1, <1>2 DEF Kept, InTable
<1>5. JobsOn(q) = {}
  BY <1>1, <1>4 DEF Served, Phase
<1>6. Served(q)'
  <2>1. Alone(q)'
    BY <1>1 DEF Alone
  <2>2. Phase(q)'
    <3>1. ~At(q, {"started"})'
      BY <1>1 DEF At
    <3> QED  BY <1>1, <1>2, <1>3, <1>4, <3>1 DEF Served, Phase, Lost
  <2>3. FreshBefore(q)'
    <3>1. Fresh(q)' <=> Fresh(q)
      BY <1>2, <1>3 DEF Fresh
    <3>2. ~At(q, {"reset", "resetting", "enqueue"})'
      BY <1>1 DEF At
    <3> QED  BY <1>2, <1>3, <1>4, <3>1, <3>2 DEF Served, FreshBefore
  <2>4. Own(q)'
    <3>1. ~At(q, {"removing"})
      BY <1>1 DEF At
    <3> QED  BY <1>2, <1>3, <1>4, <3>1 DEF Served, Own
  <2> QED  BY <2>1, <2>2, <2>3, <2>4 DEF Served
<1>7. Paged(q)'
  <2>1. CASE f.step # "enqueue"
    <3>1. Telling(q)' = Telling(q)
      BY <1>1, <2>1 DEF Telling
    <3> QED  BY <1>1, <1>2, <1>3, <1>4, <3>1, OthersPaged
  <2>2. CASE f.step = "enqueue"
    <3>1. /\ ToldOn(q)' = ToldOn(q) /\ (Unanswered' <=> Unanswered)
          /\ WatchedOn(q)' = WatchedOn(q) /\ CallsOn(q)' = CallsOn(q)
      BY <1>2, ListsStay, CallsStay
    <3>2. NewCallsOn(q)' = NewCallsOn(q) /\ HeardOn(q)' = HeardOn(q) /\ \A j : Later(q, j)' <=> Later(q, j)
      BY <3>1 DEF NewCallsOn, HeardOn, Later
    <3>3. \A steps : At(q, steps) <=> f.step \in steps
      BY <1>1 DEF At
    <3>4. \A steps : ~At(q, steps)'
      BY <1>1 DEF At
    <3>5. ~At(q, {"started"}) /\ ~At(q, {"removed"}) /\ ~At(q, {"created"}) /\ ~At(q, {"started", "removed"})
      BY <2>2, <3>3
    <3>6. Claims(q)'
      BY <1>2, <1>4, <3>1, <3>2, <3>5 DEF Paged, Claims, Says
    <3>7. Numbers(q)' /\ FollowedJob(q)'
      BY <1>1, <1>2, <1>3, <1>4, <1>5, <3>1, <3>2 DEF Paged, Numbers, FollowedJob
    <3>8. InWorkFollowed(q)'
      <4>1. Followed(q)' <=> Followed(q)
        BY <3>2, <3>4, <3>5 DEF Followed
      <4> QED  BY <1>2, <1>4, <3>1, <3>2, <3>5, <4>1 DEF Paged, InWorkFollowed
    <3>9. Gone(q)' /\ OfSession(q)'
      BY <1>2, <1>4, <3>1, <3>5 DEF Paged, Gone, OfSession
    <3>10. Exact(q)'
      BY <2>2 DEF Exact
    <3>11. Real(q)'
      BY <1>4, <3>1 DEF Paged, Real
    <3> QED  BY <3>6, <3>7, <3>8, <3>9, <3>10, <3>11 DEF Paged
  <2> QED  BY <2>1, <2>2
<1> QED
  BY <1>1, <1>2, <1>6, <1>7, RunKept

\* The page sees nothing of what a handler does before the row is written.
QuietSteps == {"count", "operations", "reset", "resetting", "delete", "removing"}
LEMMA GoesOnUnseen ==
  ASSUME ModelsInv, Shape, Kept, NEW f \in flows, f.step \in QuietSteps, NEW step \in QuietSteps, Goes(f, step),
         UNCHANGED <<modelQueue, pageView, sessions, trained, failures>>,
         InTable(f.run)' <=> InTable(f.run), runs'[f.run].status = runs[f.run].status,
         runs'[f.run].session = runs[f.run].session,
         \A r \in RunIds : r # f.run => runs'[r] = runs[r] /\ op'[r] = op[r],
         Phase(f.run)', FreshBefore(f.run)', Own(f.run)'
  PROVE  Kept'
<1>1. /\ f.run \in RunIds /\ FlowsOn(f.run) = {f} /\ (f.live \/ f.run \in forsaken)
      /\ \E g : FlowsOn(f.run)' = {g} /\ g.step = step /\ g.live = f.live /\ g.job = f.job
      /\ \A r \in RunIds : r # f.run => FlowsOn(r)' = FlowsOn(r)
  <2>1. step \in Steps
    BY DEF QuietSteps, Steps
  <2> QED  BY <2>1, HandlerGoes
<1>2. Alone(f.run)'
  <2>1. forsaken' = forsaken
    BY DEF pageView, watches
  <2>2. PICK g : FlowsOn(f.run)' = {g} /\ g.live = f.live
    BY <1>1
  <2> QED  BY <1>1, <2>1, <2>2 DEF Alone
<1>3. Telling(f.run)' = Telling(f.run)
  BY <1>1 DEF Telling, QuietSteps
<1>4. JobsOn(f.run)' = JobsOn(f.run)
  BY QueueStays
<1>5. Paged(f.run)'
  BY <1>1, <1>3, <1>4, OthersPaged
<1> QED
  BY <1>1, <1>2, <1>5, RunKept DEF Served

\* What is known of a run that such a handler has.
LEMMA InHandOf ==
  ASSUME ModelsInv, Shape, Kept, NEW f \in flows, f.step # "started"
  PROVE  /\ f.run \in RunIds /\ FlowsOn(f.run) = {f} /\ Served(f.run) /\ Paged(f.run)
         /\ JobsOn(f.run) = {} /\ ~Saving(f.run)
         /\ \A steps : At(f.run, steps) <=> f.step \in steps
<1>1. f.run \in RunIds
  BY DEF ModelsInv, Typed, PageTyped, Flow
<1>2. Served(f.run) /\ Paged(f.run)
  BY <1>1 DEF Kept
<1>3. FlowsOn(f.run) = {f}
  BY <1>2 DEF Served, Alone, FlowsOn
<1>4. JobsOn(f.run) = {}
  BY <1>2, <1>3 DEF Served, Phase
<1>5. ~Saving(f.run)
  BY <1>4 DEF Saving, JobsOn, InHand
<1> QED
  BY <1>1, <1>2, <1>3, <1>4, <1>5 DEF At

\* The queue and the page see the same of it.
LEMMA SeenOfRun ==
  ASSUME ModelsInv, Shape, Kept, NEW f \in flows, NEW step \in QuietSteps, Goes(f, step), UNCHANGED modelQueue,
         f.step # "started"
  PROVE  /\ JobsOn(f.run)' = {} /\ ~Saving(f.run)' /\ (Computing(f.run)' <=> Computing(f.run))
         /\ inHand' = inHand /\ \A steps : At(f.run, steps)' <=> step \in steps
<1>1. \E g : FlowsOn(f.run)' = {g} /\ g.step = step
  <2>1. step \in Steps
    BY DEF QuietSteps, Steps
  <2> QED  BY <2>1, HandlerGoes
<1> QED
  BY <1>1, QueueStays, InHandOf DEF At

\* What the page knows of a run is the same.
LEMMA SeenOfPage ==
  ASSUME NEW r, UNCHANGED pageView
  PROVE  /\ shown' = shown /\ selected' = selected
         /\ ToldOn(r)' = ToldOn(r) /\ (Unanswered' <=> Unanswered)
         /\ WatchedOn(r)' = WatchedOn(r) /\ CallsOn(r)' = CallsOn(r) /\ NewCallsOn(r)' = NewCallsOn(r)
         /\ HeardOn(r)' = HeardOn(r) /\ (\A j : Later(r, j)' <=> Later(r, j))
         /\ forsaken' = forsaken /\ unaware' = unaware
<1>1. UNCHANGED <<selected, shown, answers, watches>>
  BY DEF pageView, pageRuns
<1>2. /\ ToldOn(r)' = ToldOn(r) /\ (Unanswered' <=> Unanswered)
      /\ WatchedOn(r)' = WatchedOn(r) /\ CallsOn(r)' = CallsOn(r)
      /\ forsaken' = forsaken /\ unaware' = unaware
  BY <1>1, ListsStay, CallsStay
<1>3. NewCallsOn(r)' = NewCallsOn(r) /\ HeardOn(r)' = HeardOn(r)
  BY <1>2 DEF NewCallsOn, HeardOn
<1> QED
  BY <1>1, <1>2, <1>3 DEF Later

\* Before the training is reset, the operations have gone.
LEMMA CountedKept ==
  ASSUME ModelsInv, Shape, Kept, ~collided', NEW f \in flows,
         OperationsCounted(f) \/ CountFails(f) \/ DeleteOperations(f)
  PROVE  Kept'
<1> DEFINE q == f.run
<1>1. /\ f.step \in {"count", "operations"} /\ ~CountFails(f)
      /\ UNCHANGED <<sessions, runs, trained, modelQueue, pageView, failures>>
  BY DEF OperationsCounted, CountFails, DeleteOperations, serverState, pageState, pageView, history
<1>2. \/ Ends(f) /\ UNCHANGED op
      \/ Goes(f, "reset") /\ op' = op /\ (op[q] = noOp \/ ~InTable(q))
      \/ Goes(f, "reset") /\ op' = [op EXCEPT ![q] = noOp] /\ InTable(q)
  BY <1>1 DEF OperationsCounted, DeleteOperations, serverState
<1>3. /\ q \in RunIds /\ FlowsOn(q) = {f} /\ Served(q) /\ JobsOn(q) = {} /\ ~Saving(q)
      /\ \A steps : At(q, steps) <=> f.step \in steps
  BY <1>1, InHandOf
<1>4. CASE Ends(f) /\ UNCHANGED op
  <2>1. UNCHANGED serverState /\ UNCHANGED pageView /\ UNCHANGED modelQueue
    BY <1>1, <1>4 DEF serverState
  <2> QED  BY <1>1, <1>4, <2>1, EndsKept
<1>5. CASE Goes(f, "reset") /\ (op'[q] = noOp \/ (~InTable(q) /\ op' = op))
           /\ \A r \in RunIds : r # q => op'[r] = op[r]
  <2>1. /\ JobsOn(q)' = {} /\ ~Saving(q)' /\ (Computing(q)' <=> Computing(q)) /\ inHand' = inHand
        /\ \A steps : At(q, steps)' <=> "reset" \in steps
    BY <1>1, <1>5, SeenOfRun DEF QuietSteps
  <2>2. Phase(q)' /\ (InTable(q)' <=> InTable(q))
    <3>1. InTable(q)' <=> InTable(q)
      BY <1>1 DEF InTable
    <3>2. \E g : FlowsOn(q)' = {g} /\ g.step = "reset"
      BY <1>5, HandlerGoes DEF Steps
    <3>3. ~At(q, {"started"})' /\ forsaken' = forsaken
      BY <1>1, <2>1, SeenOfPage
    <3> QED  BY <1>1, <1>3, <2>1, <3>1, <3>2, <3>3 DEF Served, Phase, Lost
  <2>3. FreshBefore(q)'
    BY <1>5, <2>1, <2>2 DEF FreshBefore, Fresh
  <2>4. Own(q)'
    BY <1>5, <2>2 DEF Own, noOp
  <2> QED  BY <1>1, <1>3, <1>5, <2>2, <2>3, <2>4, GoesOnUnseen DEF QuietSteps
<1>6. CASE Goes(f, "reset") /\ op' = [op EXCEPT ![q] = noOp] /\ InTable(q)
  <2>1. op'[q] = noOp /\ \A r \in RunIds : r # q => op'[r] = op[r]
    BY <1>3, <1>6 DEF Shape
  <2> QED  BY <1>5, <1>6, <2>1
<1> QED
  BY <1>2, <1>4, <1>5, <1>6

\* The reset takes the model; nothing is left that was computed with it.
LEMMA ResetBeginsKept ==
  ASSUME ModelsInv, Shape, Kept, NEW f \in flows, ResetBegins(f)
  PROVE  Kept'
<1> DEFINE q == f.run
<1>1. /\ f.step = "reset"
      /\ UNCHANGED <<sessions, op, trained, modelQueue, pageView, failures>>
  BY DEF ResetBegins, pageState, pageView, history
<1>2. /\ q \in RunIds /\ Served(q) /\ JobsOn(q) = {} /\ ~Saving(q)
      /\ \A steps : At(q, steps) <=> f.step \in steps
  BY <1>1, InHandOf
<1>3. CASE ~InTable(q)
  <2>1. Ends(f) /\ UNCHANGED serverState
    BY <1>1, <1>3 DEF ResetBegins, serverState
  <2>2. UNCHANGED pageView /\ UNCHANGED modelQueue
    BY <1>1
  <2> QED  BY <1>1, <2>1, <2>2, EndsKept
<1>4. CASE InTable(q)
  <2>1. Goes(f, "resetting") /\ runs' = [runs EXCEPT ![q].model = 0]
    BY <1>4 DEF ResetBegins
  <2>2. /\ \A r \in RunIds : r # q => runs'[r] = runs[r]
        /\ runs'[q].status = runs[q].status /\ runs'[q].session = runs[q].session /\ runs'[q].model = 0
    BY <1>2, <2>1 DEF ModelsInv, Typed, TablesTyped, RunRow
  <2>3. InTable(q)'
    BY <1>2, <1>4, <2>2 DEF InTable, noRun, Served, Phase
  <2>4. /\ JobsOn(q)' = {} /\ ~Saving(q)' /\ (Computing(q)' <=> Computing(q)) /\ inHand' = inHand
        /\ \A steps : At(q, steps)' <=> "resetting" \in steps
    BY <1>1, <2>1, SeenOfRun DEF QuietSteps
  <2>5. ~unaware => Fresh(q)
    BY <1>1, <1>2, <1>4 DEF Served, FreshBefore
  <2>6. (~unaware => Fresh(q)') /\ unaware' = unaware /\ forsaken' = forsaken
    BY <1>1, <2>2, <2>4, <2>5, SeenOfPage DEF Fresh
  <2>7. FreshBefore(q)' /\ Own(q)'
    BY <1>1, <2>2, <2>4, <2>6 DEF FreshBefore, Own, Fresh, noOp
  <2>8. Phase(q)'
    <3>1. PICK g : FlowsOn(q)' = {g} /\ g.step = "resetting"
      BY <2>1, HandlerGoes DEF Steps
    <3>2. ~At(q, {"started"})'
      BY <2>4
    <3> QED  BY <1>2, <1>4, <2>2, <2>3, <2>4, <2>6, <3>1, <3>2 DEF Served, Phase, Lost
  <2> QED  BY <1>1, <1>4, <2>1, <2>2, <2>3, <2>7, <2>8, GoesOnUnseen DEF QuietSteps
<1> QED
  BY <1>3, <1>4

\* A run that is deleted loses its model first.
LEMMA RemoveBeginsKept ==
  ASSUME ModelsInv, Shape, Kept, NEW f \in flows, RemoveBegins(f)
  PROVE  Kept'
<1> DEFINE q == f.run
<1>1. /\ f.step = "delete"
      /\ UNCHANGED <<sessions, op, trained, modelQueue, pageView, failures>>
  BY DEF RemoveBegins, pageState, pageView, history
<1>2. /\ q \in RunIds /\ Served(q) /\ JobsOn(q) = {} /\ ~Saving(q)
      /\ \A steps : At(q, steps) <=> f.step \in steps
  BY <1>1, InHandOf
<1>3. CASE Ends(f) /\ UNCHANGED runs
  <2>1. UNCHANGED serverState /\ UNCHANGED pageView /\ UNCHANGED modelQueue
    BY <1>1, <1>3 DEF serverState
  <2> QED  BY <1>1, <1>3, <2>1, EndsKept
<1>4. CASE Goes(f, "removing") /\ InTable(q)
           /\ runs' = IF runs[q].status = "finished" THEN [runs EXCEPT ![q].model = 0] ELSE runs
  <2>2. /\ \A r \in RunIds : r # q => runs'[r] = runs[r]
        /\ runs'[q].status = runs[q].status /\ runs'[q].session = runs[q].session
        /\ runs'[q].model = runs[q].model \/ (runs'[q].model = 0 /\ runs[q].status = "finished")
    BY <1>2, <1>4 DEF ModelsInv, Typed, TablesTyped, RunRow
  <2>3. InTable(q)'
    BY <1>2, <1>4, <2>2 DEF InTable, noRun, Served, Phase
  <2>4. /\ JobsOn(q)' = {} /\ ~Saving(q)' /\ (Computing(q)' <=> Computing(q)) /\ inHand' = inHand
        /\ \A steps : At(q, steps)' <=> "removing" \in steps
    BY <1>1, <1>4, SeenOfRun DEF QuietSteps
  <2>7. forsaken' = forsaken /\ unaware' = unaware
    BY <1>1, SeenOfPage
  <2>5. FreshBefore(q)' /\ Own(q)'
    <3>1. ~At(q, {"reset", "resetting", "enqueue"})' /\ At(q, {"removing"})'
      BY <2>4
    <3> QED  BY <1>1, <1>2, <1>4, <2>2, <2>4, <2>7, <3>1 DEF FreshBefore, Own, Fresh, Served
  <2>6. Phase(q)'
    <3>1. PICK g : FlowsOn(q)' = {g} /\ g.step = "removing"
      BY <1>4, HandlerGoes DEF Steps
    <3>2. ~At(q, {"started"})'
      BY <2>4
    <3> QED  BY <1>2, <1>4, <2>2, <2>3, <2>4, <2>7, <3>1, <3>2 DEF Served, Phase, Lost
  <2> QED  BY <1>1, <1>4, <2>2, <2>3, <2>5, <2>6, GoesOnUnseen DEF QuietSteps
<1> QED
  BY <1>3, <1>4 DEF RemoveBegins

\* The page is not done with a run whose row the server has written.
LEMMA ResetEndsKept ==
  ASSUME ModelsInv, Shape, Kept, ~collided', NEW f \in flows, ResetEnds(f)
  PROVE  Kept'
<1> DEFINE q == f.run
<1>1. /\ f.step = "resetting" /\ Goes(f, "enqueue") /\ runs' = [runs EXCEPT ![q].status = "idle"]
      /\ UNCHANGED <<sessions, op, trained, modelQueue, pageView, failures>>
  BY DEF ResetEnds, pageState, pageView
<1>2. /\ q \in RunIds /\ Served(q) /\ Paged(q) /\ JobsOn(q) = {} /\ ~Saving(q) /\ FlowsOn(q) = {f}
      /\ \A steps : At(q, steps) <=> f.step \in steps
  BY <1>1, InHandOf
<1>3. /\ \A r \in RunIds : r # q => FlowsOn(r)' = FlowsOn(r)
      /\ \E g : FlowsOn(q)' = {g} /\ g.step = "enqueue" /\ g.live = f.live
      /\ f.live \/ q \in forsaken
  BY <1>1, HandlerGoes DEF Steps
<1>12. forsaken' = forsaken /\ unaware' = unaware
  BY <1>1, SeenOfPage
<1>4. PICK g : FlowsOn(q)' = {g} /\ g.step = "enqueue" /\ (g.live \/ q \in forsaken)
  BY <1>3
<1>5. /\ JobsOn(q)' = {} /\ ~Saving(q)' /\ (Computing(q)' <=> Computing(q)) /\ inHand' = inHand
  BY <1>1, <1>2, QueueStays
<1>6. InTable(q) /\ runs[q].model = 0
  BY <1>1, <1>2 DEF Served, Phase
<1>7. /\ \A r \in RunIds : r # q => runs'[r] = runs[r]
      /\ runs'[q].status = "idle" /\ runs'[q].session = runs[q].session /\ runs'[q].model = 0
  BY <1>1, <1>2, <1>6 DEF ModelsInv, Typed, TablesTyped, RunRow
<1>8. InTable(q)'
  BY <1>7 DEF InTable, noRun
<1>9. Served(q)'
  <2>1. Alone(q)' /\ Phase(q)'
    <3>1. runs'[q].session # 0
      BY <1>2, <1>6, <1>7 DEF Served, Phase
    <3> QED  BY <1>4, <1>5, <1>7, <1>8, <1>12, <3>1 DEF Alone, Phase, RunInWork
  <2>2. ~unaware => Fresh(q)
    BY <1>1, <1>2, <1>6 DEF Served, FreshBefore
  <2>3. ~unaware => Fresh(q)'
    BY <1>1, <1>5, <1>7, <2>2 DEF Fresh
  <2>4. FreshBefore(q)' /\ Own(q)'
    BY <1>5, <1>7, <1>12, <2>3 DEF FreshBefore, Own, Fresh, noOp
  <2> QED  BY <2>1, <2>4 DEF Served
<1>10. Paged(q)'
  <2>1. /\ shown' = shown /\ selected' = selected
        /\ ToldOn(q)' = ToldOn(q) /\ (Unanswered' <=> Unanswered)
        /\ WatchedOn(q)' = WatchedOn(q) /\ CallsOn(q)' = CallsOn(q) /\ NewCallsOn(q)' = NewCallsOn(q)
        /\ HeardOn(q)' = HeardOn(q) /\ (\A j : Later(q, j)' <=> Later(q, j))
        /\ forsaken' = forsaken /\ unaware' = unaware
    BY <1>1, SeenOfPage
  <2>2. /\ ~At(q, {"started"}) /\ ~At(q, {"removed"}) /\ ~At(q, {"created"}) /\ ~At(q, {"started", "removed"})
        /\ At(q, {"enqueue", "started"})' /\ At(q, {"enqueue", "started", "created"})'
    BY <1>1, <1>2, <1>4 DEF At
  <2>3. Claims(q)' /\ Gone(q)' /\ Real(q)'
    BY <1>2, <1>7, <1>8, <2>1 DEF Claims, Gone, Paged, Real
  <2>4. Numbers(q)' /\ FollowedJob(q)'
    BY <1>1, <1>2, <1>4, <1>5, <2>1 DEF Paged, Numbers, FollowedJob
  <2>5. InWorkFollowed(q)'
    <3>1. Followed(q) => Followed(q)'
      BY <2>1, <2>2 DEF Followed
    <3> QED  BY <1>2, <1>6, <2>1, <2>2, <3>1 DEF Paged, InWorkFollowed
  <2>6. OfSession(q)'
    BY <1>2, <1>6, <1>7, <2>1, <2>2 DEF Paged, OfSession
  <2>7. Exact(q)'
    BY <2>2 DEF Exact, Changing
  <2> QED  BY <2>3, <2>4, <2>5, <2>6, <2>7 DEF Paged
<1>11. \A r \in RunIds : r # q => FlowsOn(r)' = FlowsOn(r) /\ runs'[r] = runs[r] /\ op'[r] = op[r]
  BY <1>1, <1>3, <1>7
<1> QED
  BY <1>1, <1>2, <1>9, <1>10, <1>11, RunKept

\* The row goes, and the page will be told.
LEMMA RemoveEndsKept ==
  ASSUME ModelsInv, Shape, Kept, ~collided', NEW f \in flows, RemoveEnds(f)
  PROVE  Kept'
<1> DEFINE q == f.run
<1>1. /\ f.step = "removing" /\ WithoutRun({q}) /\ (IF f.live THEN Goes(f, "removed") ELSE Ends(f))
      /\ UNCHANGED <<sessions, trained, modelQueue, pageView, failures>>
  BY DEF RemoveEnds, pageState, pageView, Fail
<1>2. /\ q \in RunIds /\ Served(q) /\ Paged(q) /\ JobsOn(q) = {} /\ ~Saving(q) /\ FlowsOn(q) = {f}
      /\ \A steps : At(q, steps) <=> f.step \in steps
  BY <1>1, InHandOf
<1>3. f.live \/ q \in forsaken
  BY <1>2 DEF Served, Alone
<1>12. forsaken' = forsaken /\ unaware' = unaware
  BY <1>1, SeenOfPage
<1>4. /\ \A r \in RunIds : r # q => FlowsOn(r)' = FlowsOn(r)
      /\ \A g \in FlowsOn(q)' : g.step = "removed"
      /\ Alone(q)' /\ (At(q, {"removed"})' \/ q \in forsaken')
  <2>1. CASE f.live
    <3>1. /\ \A r \in RunIds : r # q => FlowsOn(r)' = FlowsOn(r)
          /\ \E g : FlowsOn(q)' = {g} /\ g.step = "removed" /\ g.live = f.live
      BY <1>1, <2>1, HandlerGoes DEF Steps
    <3>2. PICK g : FlowsOn(q)' = {g} /\ g.step = "removed" /\ g.live = f.live
      BY <3>1
    <3> QED  BY <2>1, <3>1, <3>2 DEF Alone, At
  <2>2. CASE ~f.live
    <3>1. FlowsOn(q)' = {} /\ \A r \in RunIds : r # q => FlowsOn(r)' = FlowsOn(r)
      BY <1>1, <2>2, HandlerEnds
    <3> QED  BY <1>3, <1>12, <2>2, <3>1 DEF Alone
  <2> QED  BY <2>1, <2>2
<1>5. \A g \in FlowsOn(q)' : g.step = "removed"
  BY <1>4
<1>6. JobsOn(q)' = {} /\ ~Saving(q)'
  BY <1>1, <1>2, QueueStays
<1>7. /\ \A r \in RunIds : r # q => runs'[r] = runs[r] /\ op'[r] = op[r]
      /\ runs'[q] = noRun
  BY <1>1, <1>2 DEF WithoutRun
<1>8. ~InTable(q)'
  BY <1>7 DEF InTable
<1>9. Served(q)'
  BY <1>4, <1>6, <1>8 DEF Served, Phase, FreshBefore, Own
<1>10. Paged(q)'
  <2>1. CallsOn(q)' = CallsOn(q) /\ HeardOn(q)' = HeardOn(q)
    BY <1>1, SeenOfPage
  <2>2. (At(q, {"removed"})' /\ At(q, {"started", "removed"})') \/ q \in forsaken'
    BY <1>4 DEF At
  <2>3. Claims(q)' /\ OfSession(q)' /\ Exact(q)' /\ Gone(q)'
    BY <1>8, <2>2 DEF Claims, OfSession, Exact, Gone
  <2>4. Numbers(q)' /\ FollowedJob(q)' /\ Real(q)'
    BY <1>1, <1>2, <1>5, <1>6, <2>1 DEF Paged, Numbers, FollowedJob, Real
  <2>5. InWorkFollowed(q)'
    BY <1>8, <2>2 DEF InWorkFollowed, Followed
  <2> QED  BY <2>3, <2>4, <2>5 DEF Paged
<1>11. \A r \in RunIds : r # q => FlowsOn(r)' = FlowsOn(r) /\ runs'[r] = runs[r] /\ op'[r] = op[r]
  BY <1>4, <1>7
<1> QED
  BY <1>1, <1>2, <1>9, <1>10, <1>11, RunKept

-----------------------------------------------------------------------------
(* What the page hears *)

\* A step touches one run, and may make lists late.
LEMMA OneRunKept ==
  ASSUME ModelsInv, Shape, Kept, NEW q \in RunIds, OneJob', Lists', Served(q)', Paged(q)',
         \A r \in RunIds : r # q =>
           /\ FlowsOn(r)' = FlowsOn(r) /\ JobsOn(r)' = JobsOn(r) /\ runs'[r] = runs[r] /\ op'[r] = op[r]
           /\ (Saving(r)' <=> Saving(r)) /\ (Computing(r)' <=> Computing(r))
           /\ Computing(r) => inHand'.model = inHand.model
           /\ shown'[r] = shown[r] /\ ToldOn(r)' \subseteq ToldOn(r)
           /\ WatchedOn(r)' = WatchedOn(r) /\ CallsOn(r)' = CallsOn(r),
         Unanswered => Unanswered', selected' = selected, failures' = 0 => failures = 0,
         trained' \in {trained, trained + 1}, forsaken \ {q} \subseteq forsaken', unaware => unaware'
  PROVE  Kept'
<1>1. ASSUME NEW r \in RunIds, r # q  PROVE Served(r)' /\ Paged(r)'
  <2>1. Served(r) /\ Paged(r)
    BY DEF Kept
  <2>2. /\ FlowsOn(r)' = FlowsOn(r) /\ JobsOn(r)' = JobsOn(r) /\ runs'[r] = runs[r] /\ op'[r] = op[r]
        /\ (Saving(r)' <=> Saving(r)) /\ (Computing(r)' <=> Computing(r))
        /\ Computing(r) => inHand'.model = inHand.model
        /\ shown'[r] = shown[r] /\ ToldOn(r)' \subseteq ToldOn(r)
        /\ WatchedOn(r)' = WatchedOn(r) /\ CallsOn(r)' = CallsOn(r)
        /\ (r \in forsaken => r \in forsaken')
    BY <1>1
  <2>3. Telling(r)' = Telling(r) /\ (InTable(r)' <=> InTable(r))
    BY <2>2 DEF Telling, InTable
  <2>4. Served(r)'
    BY <2>1, <2>2, ServedStays
  <2>5. Paged(r)'
    BY <2>1, <2>2, <2>3, PagedStays
  <2> QED  BY <2>4, <2>5
<1> QED
  BY <1>1 DEF Kept

\* The server and the queue are as they were, and lists are late.
LEMMA PageChanges ==
  ASSUME ModelsInv, Shape, Kept, NEW q \in RunIds, Served(q)', Paged(q)',
         UNCHANGED <<serverState, modelQueue, listed, selected, leaving>>, failures' = 0 => failures = 0,
         forsaken \ {q} \subseteq forsaken', unaware => unaware',
         answers' = Overtaken \/ answers' = answers,
         \A r \in RunIds : r # q =>
           /\ FlowsOn(r)' = FlowsOn(r) /\ shown'[r] = shown[r]
           /\ WatchedOn(r)' = WatchedOn(r) /\ CallsOn(r)' = CallsOn(r)
  PROVE  Kept'
<1>1. \A r : ToldOn(r)' \subseteq ToldOn(r)
  <2>1. CASE answers' = Overtaken
    <3>1. answers \in Seq(Answer)
      BY DEF Shape
    <3> QED  BY <2>1, <3>1, ListsOvertaken
  <2>2. CASE answers' = answers
    BY <2>2, ListsStay
  <2> QED  BY <2>1, <2>2
<1>2. Unanswered => Unanswered'
  <2>1. CASE answers' = Overtaken
    <3>1. answers \in Seq(Answer)
      BY DEF Shape
    <3> QED  BY <2>1, <3>1, ListsOvertaken
  <2>2. CASE answers' = answers
    BY <2>2, ListsStay
  <2> QED  BY <2>1, <2>2
<1>3. UNCHANGED <<sessions, runs, op, trained>>
  BY DEF serverState
<1>4. /\ OneJob' /\ inHand' = inHand
      /\ \A r : JobsOn(r)' = JobsOn(r) /\ (Saving(r)' <=> Saving(r)) /\ (Computing(r)' <=> Computing(r))
  BY QueueStays DEF Kept
<1>5. Lists'
  BY <1>3, ListsKept
<1>6. \A r \in RunIds : r # q =>
        /\ FlowsOn(r)' = FlowsOn(r) /\ JobsOn(r)' = JobsOn(r) /\ runs'[r] = runs[r] /\ op'[r] = op[r]
        /\ (Saving(r)' <=> Saving(r)) /\ (Computing(r)' <=> Computing(r))
        /\ Computing(r) => inHand'.model = inHand.model
        /\ shown'[r] = shown[r] /\ ToldOn(r)' \subseteq ToldOn(r)
        /\ WatchedOn(r)' = WatchedOn(r) /\ CallsOn(r)' = CallsOn(r)
  BY <1>1, <1>3, <1>4
<1>7. trained' \in {trained, trained + 1}
  BY <1>3
<1> QED
  BY <1>2, <1>4, <1>5, <1>6, <1>7, OneRunKept

\* A handler is done.
LEMMA DoneServed ==
  ASSUME ModelsInv, Shape, Kept, NEW f \in flows, f.step # "removing", Ends(f),
         UNCHANGED <<serverState, modelQueue>>, unaware => unaware',
         f.step # "started" /\ f.run \in forsaken => f.run \in forsaken'
  PROVE  Served(f.run)'
<1> DEFINE q == f.run
<1>1. /\ q \in RunIds /\ FlowsOn(q) = {f} /\ FlowsOn(q)' = {}
  BY HandlerEnds
<1>5. ~At(q, {"started"})' /\ (Lost(q) => q \in forsaken')
  BY <1>1 DEF At, Lost
<1> HIDE DEF q
<1>2. UNCHANGED <<sessions, runs, op, trained>>
  BY DEF serverState
<1>3. /\ JobsOn(q)' = JobsOn(q) /\ (Saving(q)' <=> Saving(q)) /\ (Computing(q)' <=> Computing(q))
      /\ inHand' = inHand
  BY QueueStays
<1>4. Served(q) /\ (InTable(q)' <=> InTable(q))
  BY <1>1, <1>2 DEF Kept, InTable
<1>6. Alone(q)'
  BY <1>1 DEF Alone
<1>7. Phase(q)'
  BY <1>1, <1>2, <1>3, <1>4, <1>5 DEF Served, Phase, Lost
<1>8. FreshBefore(q)'
  <2>1. Fresh(q)' <=> Fresh(q)
    BY <1>2, <1>3 DEF Fresh
  <2>2. ~At(q, {"reset", "resetting", "enqueue"})'
    BY <1>1 DEF At
  <2> QED  BY <1>2, <1>3, <1>4, <2>1, <2>2 DEF Served, FreshBefore
<1>9. Own(q)'
  <2>1. ~At(q, {"removing"})
    BY <1>1 DEF At
  <2> QED  BY <1>2, <1>3, <1>4, <2>1 DEF Served, Own
<1> QED
  BY <1>6, <1>7, <1>8, <1>9 DEF Served, q

\* The page adds a run to those of the session that it belongs to.
LEMMA RunCreatedKept ==
  ASSUME ModelsInv, Shape, Kept, ~crossed', NEW f \in flows, RunCreated(f)
  PROVE  Kept'
<1> DEFINE q == f.run
<1>1. /\ f.step = "created" /\ Ends(f) /\ shown' = [shown EXCEPT ![q] = "idle"] /\ answers' = Overtaken
      /\ runs[q].session = selected /\ selected # 0
      /\ UNCHANGED <<serverState, modelQueue, listed, selected, leaving, watches, failures>>
      /\ forsaken' = forsaken /\ unaware' = unaware
  BY DEF RunCreated, ShowsRun, watches
<1>2. /\ q \in RunIds /\ Served(q) /\ Paged(q) /\ JobsOn(q) = {} /\ FlowsOn(q) = {f}
      /\ \A steps : At(q, steps) <=> f.step \in steps
  BY <1>1, InHandOf
<1>3. FlowsOn(q)' = {} /\ \A r \in RunIds : r # q => FlowsOn(r)' = FlowsOn(r)
  BY <1>1, HandlerEnds
<1>4. Served(q)'
  BY <1>1, DoneServed
<1>5. UNCHANGED <<sessions, runs, op, trained>> /\ (InTable(q)' <=> InTable(q))
  BY <1>1 DEF serverState, InTable
<1>6. InTable(q) /\ runs[q].status = "idle"
  BY <1>1, <1>2 DEF Served, Phase
<1>7. ToldOn(q)' = {}
  <2>1. answers \in Seq(Answer)
    BY DEF Shape
  <2> QED  BY <1>1, <2>1, ListsOvertaken
<1>8. \A r : WatchedOn(r)' = WatchedOn(r) /\ CallsOn(r)' = CallsOn(r)
  BY <1>1, CallsStay
<1>9. NewCallsOn(q)' = NewCallsOn(q) /\ HeardOn(q)' = HeardOn(q) /\ \A j : Later(q, j)' <=> Later(q, j)
  BY <1>8 DEF NewCallsOn, HeardOn, Later
<1>10. shown'[q] = "idle" /\ \A r \in RunIds : r # q => shown'[r] = shown[r]
  BY <1>1, <1>2 DEF Shape
<1>11. Paged(q)'
  <2>1. Claims(q)' /\ Gone(q)' /\ Real(q)'
    BY <1>2, <1>5, <1>6, <1>8 DEF Claims, Gone, Real, Paged
  <2>2. Numbers(q)' /\ FollowedJob(q)'
    <3>1. JobsOn(q)' = {}
      BY <1>1, <1>2, QueueStays
    <3> QED  BY <1>2, <1>3, <1>5, <1>8, <1>9, <3>1 DEF Paged, Numbers, FollowedJob
  <2>3. InWorkFollowed(q)'
    <3>1. ~At(q, {"started"})
      BY <1>1, <1>2
    <3> QED  BY <1>1, <1>2, <1>5, <1>6, <1>7, <1>9, <1>10, <3>1 DEF Paged, InWorkFollowed, RunInWork
  <2>4. OfSession(q)'
    BY <1>1, <1>5, <1>7, <1>10 DEF OfSession
  <2>5. Exact(q)'
    <3>1. ~At(q, {"enqueue", "started"})
      BY <1>1, <1>2
    <3> QED  BY <1>1, <1>2, <1>5, <1>6, <1>7, <1>9, <1>10, <3>1 DEF Paged, Exact
  <2> QED  BY <2>1, <2>2, <2>3, <2>4, <2>5 DEF Paged
<1>12. \A r \in RunIds : r # q =>
         /\ FlowsOn(r)' = FlowsOn(r) /\ shown'[r] = shown[r]
         /\ WatchedOn(r)' = WatchedOn(r) /\ CallsOn(r)' = CallsOn(r)
  BY <1>3, <1>8, <1>10
<1>13. answers' = Overtaken /\ UNCHANGED <<serverState, modelQueue, listed, selected, leaving>>
  BY <1>1
<1>14. (failures' = 0 => failures = 0) /\ forsaken \ {q} \subseteq forsaken' /\ (unaware => unaware')
  BY <1>1
<1> HIDE DEF q
<1> QED
  BY <1>2, <1>4, <1>11, <1>12, <1>13, <1>14, PageChanges

\* A run that has gone leaves the page.
LEMMA RunRemovedKept ==
  ASSUME ModelsInv, Shape, Kept, NEW f \in flows, RunRemoved(f)
  PROVE  Kept'
<1> DEFINE q == f.run
<1>1. /\ f.step = "removed" /\ Ends(f) /\ shown' = [shown EXCEPT ![q] = "absent"] /\ answers' = Overtaken
      /\ UNCHANGED <<serverState, modelQueue, listed, selected, leaving, watches, failures>>
      /\ forsaken' = forsaken /\ unaware' = unaware
  BY DEF RunRemoved, ShowsRun, history, watches
<1>2. /\ q \in RunIds /\ Served(q) /\ Paged(q) /\ JobsOn(q) = {} /\ FlowsOn(q) = {f}
  BY <1>1, InHandOf
<1>3. FlowsOn(q)' = {} /\ \A r \in RunIds : r # q => FlowsOn(r)' = FlowsOn(r)
  BY <1>1, HandlerEnds
<1>4. Served(q)'
  BY <1>1, DoneServed
<1>5. UNCHANGED <<sessions, runs, op, trained>> /\ (InTable(q)' <=> InTable(q))
  BY <1>1 DEF serverState, InTable
<1>6. ~InTable(q)
  BY <1>1, <1>2 DEF Served, Phase
<1>7. ToldOn(q)' = {}
  <2>1. answers \in Seq(Answer)
    BY DEF Shape
  <2> QED  BY <1>1, <2>1, ListsOvertaken
<1>8. \A r : WatchedOn(r)' = WatchedOn(r) /\ CallsOn(r)' = CallsOn(r)
  BY <1>1, CallsStay
<1>9. shown'[q] = "absent" /\ \A r \in RunIds : r # q => shown'[r] = shown[r]
  BY <1>1, <1>2 DEF Shape
<1>10. Paged(q)'
  <2>1. Claims(q)' /\ Gone(q)' /\ Real(q)' /\ OfSession(q)' /\ Exact(q)'
    BY <1>2, <1>5, <1>6, <1>7, <1>8, <1>9 DEF Claims, Gone, Real, Paged, OfSession, Exact
  <2>2. Numbers(q)' /\ FollowedJob(q)'
    <3>1. JobsOn(q)' = {} /\ HeardOn(q)' = HeardOn(q)
      BY <1>1, <1>2, <1>8, QueueStays DEF HeardOn
    <3> QED  BY <1>2, <1>3, <1>5, <3>1 DEF Paged, Numbers, FollowedJob
  <2>3. InWorkFollowed(q)'
    BY <1>5, <1>6, <1>7, <1>9 DEF InWorkFollowed, RunInWork
  <2> QED  BY <2>1, <2>2, <2>3 DEF Paged
<1>11. \A r \in RunIds : r # q =>
         /\ FlowsOn(r)' = FlowsOn(r) /\ shown'[r] = shown[r]
         /\ WatchedOn(r)' = WatchedOn(r) /\ CallsOn(r)' = CallsOn(r)
  BY <1>3, <1>8, <1>9
<1>12. answers' = Overtaken /\ UNCHANGED <<serverState, modelQueue, listed, selected, leaving>>
  BY <1>1
<1>13. (failures' = 0 => failures = 0) /\ forsaken \ {q} \subseteq forsaken' /\ (unaware => unaware')
  BY <1>1
<1> HIDE DEF q
<1> QED
  BY <1>2, <1>4, <1>10, <1>11, <1>12, <1>13, PageChanges

\* What will be told of a run whose training is queued or running.
LEMMA JobIsFollowed ==
  ASSUME NEW r \in RunIds \ forsaken, Paged(r), NEW j \in JobsOn(r)
  PROVE  At(r, {"started"}) \/ j \in HeardOn(r)
  BY DEF Paged, FollowedJob, At, HeardOn

\* The page starts to watch the training that it has enqueued.
LEMMA TrainingStartedKept ==
  ASSUME ModelsInv, Shape, Kept, NEW f \in flows, TrainingStarted(f)
  PROVE  Kept'
<1> DEFINE q == f.run
           Marked(d) == [d EXCEPT !.late = @ \/ d.run = q]
<1>1. /\ f.step = "started" /\ Ends(f) /\ answers' = Overtaken
      /\ shown' = shown \/ (shown[q] # "absent" /\ shown' = [shown EXCEPT ![q] = "delivered"])
      /\ shown[q] = "absent" \/ shown' = [shown EXCEPT ![q] = "delivered"]
      /\ watched' = watched \cup {[run |-> q, job |-> f.job]}
      /\ callbacks' = {Marked(d) : d \in callbacks}
      /\ UNCHANGED <<serverState, modelQueue, listed, selected, leaving, failures>>
      /\ forsaken' = forsaken \ {q} /\ unaware' = unaware
  BY DEF TrainingStarted, ShowsRun, history
<1>2. /\ q \in RunIds /\ FlowsOn(q) = {f} /\ FlowsOn(q)' = {}
      /\ \A r \in RunIds : r # q => FlowsOn(r)' = FlowsOn(r)
  BY <1>1, HandlerEnds
<1>3. Served(q)' /\ Served(q) /\ Paged(q)
  BY <1>1, <1>2, DoneServed DEF Kept
<1>4. UNCHANGED <<sessions, runs, op, trained>> /\ (InTable(q)' <=> InTable(q))
  BY <1>1 DEF serverState, InTable
<1>5. InTable(q)
  BY <1>1, <1>2, <1>3 DEF Served, Phase
<1>6. ToldOn(q)' = {} /\ (Unanswered' <=> Unanswered)
  <2>1. answers \in Seq(Answer)
    BY DEF Shape
  <2> QED  BY <1>1, <2>1, ListsOvertaken
<1>7. /\ WatchedOn(q)' = WatchedOn(q) \cup {f.job}
      /\ \A r \in RunIds : r # q => WatchedOn(r)' = WatchedOn(r)
  <2> DEFINE w == [run |-> q, job |-> f.job]
  <2>1. w.run = q /\ w.job = f.job
    OBVIOUS
  <2> HIDE DEF w, q
  <2>2. watched' = watched \cup {w}
    BY <1>1 DEF w
  <2> QED  BY <2>1, <2>2 DEF WatchedOn
<1>8. \A d \in callbacks :
        /\ Marked(d).run = d.run /\ Marked(d).job = d.job /\ Marked(d).status = d.status
        /\ d.run = q => Marked(d).late = TRUE
        /\ d.run # q => Marked(d) = d
  <2> TAKE d \in callbacks
  <2>1. d \in Callback
    BY DEF Shape
  <2> QED  BY <2>1 DEF Callback
<1> HIDE DEF Marked
<1>16. CallsOn(q)' = {Marked(d) : d \in CallsOn(q)}
  BY <1>1, <1>8 DEF CallsOn
<1>17. \A d \in CallsOn(q) : d \in callbacks /\ d.run = q
  BY DEF CallsOn
<1>9. NewCallsOn(q)' = {} /\ {c.job : c \in CallsOn(q)}' = {c.job : c \in CallsOn(q)} /\ Real(q)'
  <2>1. NewCallsOn(q)' = {}
    BY <1>8, <1>16, <1>17 DEF NewCallsOn
  <2>2. {c.job : c \in CallsOn(q)}' = {c.job : c \in CallsOn(q)}
    BY <1>8, <1>16, <1>17
  <2>3. Real(q)'
    BY <1>3, <1>8, <1>16, <1>17 DEF Paged, Real
  <2> QED  BY <2>1, <2>2, <2>3
<1>10. \A r \in RunIds : r # q => CallsOn(r)' = CallsOn(r)
  BY <1>1, <1>8 DEF CallsOn
<1>11. HeardOn(q)' = HeardOn(q) \cup {f.job}
  BY <1>7, <1>9 DEF HeardOn
<1>12. /\ \A r \in RunIds : r # q => shown'[r] = shown[r]
       /\ (shown[q] = "absent" /\ shown'[q] = "absent") \/ (shown[q] # "absent" /\ shown'[q] = "delivered")
  BY <1>1, <1>2 DEF Shape
<1>13. Paged(q)'
  <2>1. Claims(q)' /\ Gone(q)'
    BY <1>4, <1>5, <1>6, <1>9, <1>12 DEF Claims, Says, Gone
  <2>2. Numbers(q)' /\ FollowedJob(q)'
    <3>1. JobsOn(q)' = JobsOn(q)
      BY <1>1, QueueStays
    <3>2. /\ JobsOn(q) \subseteq Nat /\ WatchedOn(q) \subseteq Nat /\ HeardOn(q) \subseteq Nat
          /\ trained \in Nat /\ f.job \in Nat /\ \A c \in CallsOn(q) : c.job \in Nat
      BY <1>2, JobNumbers
    <3>3. /\ \A j \in JobsOn(q) : f.job = j /\ j <= trained
          /\ f.job <= trained /\ \A k \in HeardOn(q) : k <= trained
          /\ \A j \in JobsOn(q) : \A k \in WatchedOn(q) : k <= j
          /\ \A j \in JobsOn(q) : \A c \in CallsOn(q) : c.job < j
      BY <1>1, <1>2, <1>3 DEF Paged, Numbers
    <3>4. \A j \in JobsOn(q) : \A k \in WatchedOn(q)' : k <= j
      BY <1>7, <3>2, <3>3
    <3>5. \A j \in JobsOn(q) : \A c \in CallsOn(q)' : c.job < j
      BY <1>9, <3>3
    <3>6. \A k \in HeardOn(q)' : k <= trained
      BY <1>11, <3>3
    <3>7. Numbers(q)'
      BY <1>2, <1>4, <3>1, <3>3, <3>4, <3>5, <3>6 DEF Numbers
    <3>8. FollowedJob(q)'
      BY <1>7, <3>1, <3>3 DEF FollowedJob
    <3> QED  BY <3>7, <3>8
  <2>3. InWorkFollowed(q)'
    BY <1>6, <1>9, <1>11 DEF InWorkFollowed, Followed
  <2>4. OfSession(q)'
    <3>1. ~At(q, {"created"})
      BY <1>1, <1>2 DEF At
    <3> QED  BY <1>1, <1>3, <1>4, <1>5, <1>6, <1>12, <3>1 DEF Paged, OfSession
  <2>5. Exact(q)'
    BY <1>6, <1>9, <1>11 DEF Exact, Changing
  <2> QED  BY <1>9, <2>1, <2>2, <2>3, <2>4, <2>5 DEF Paged
<1>14. \A r \in RunIds : r # q =>
         /\ FlowsOn(r)' = FlowsOn(r) /\ shown'[r] = shown[r]
         /\ WatchedOn(r)' = WatchedOn(r) /\ CallsOn(r)' = CallsOn(r)
  BY <1>2, <1>7, <1>10, <1>12
<1>15. answers' = Overtaken /\ UNCHANGED <<serverState, modelQueue, listed, selected, leaving>>
  BY <1>1
<1>18. (failures' = 0 => failures = 0) /\ forsaken \ {q} \subseteq forsaken' /\ (unaware => unaware')
  BY <1>1
<1> HIDE DEF q
<1> QED
  BY <1>2, <1>3, <1>13, <1>14, <1>15, <1>18, PageChanges

\* The server's part of a step of the page.
LEMMA PageOnlyServed ==
  ASSUME Kept, UNCHANGED <<serverState, modelQueue, flows>>, forsaken \subseteq forsaken', unaware => unaware'
  PROVE  \A r \in RunIds : Served(r)' /\ FlowsOn(r)' = FlowsOn(r) /\ JobsOn(r)' = JobsOn(r)
                           /\ (InTable(r)' <=> InTable(r))
<1>1. UNCHANGED <<runs, op>>
  BY DEF serverState
<1>2. \A r \in RunIds : FlowsOn(r)' = FlowsOn(r)
  BY FlowsStay
<1>3. \A r \in RunIds : Served(r)'
  BY <1>1, <1>2, OthersServed
<1> QED
  BY <1>1, <1>2, <1>3, QueueStays DEF InTable

\* A job that has ended is not one of those that the queue still has.
LEMMA TicketDone ==
  ASSUME ModelsInv, NEW n, inHand.job # n, \A i \in DOMAIN modelJobs : modelJobs[i].job # n, NEW r
  PROVE  n \notin JobsOn(r)
  BY DEF JobsOn

\* The end of a job that is watched makes the page ask for its run.
LEMMA JobToldKept ==
  ASSUME ModelsInv, Shape, Kept, NEW w \in watched, JobTold(w)
  PROVE  Kept'
<1> DEFINE q == w.run
           c == [run |-> q, job |-> w.job, status |-> runs[q].status, late |-> FALSE]
<1>1. /\ watched' = watched \ {w}
      /\ \/ callbacks' = (IF InTable(q) THEN callbacks \cup {c} ELSE callbacks) /\ UNCHANGED <<forsaken, failures>>
         \/ callbacks' = callbacks /\ forsaken' = forsaken \cup {q} /\ failures' = failures + 1
      /\ inHand.job # w.job /\ \A i \in DOMAIN modelJobs : modelJobs[i].job # w.job
      /\ UNCHANGED <<serverState, modelQueue, listed, selected, leaving, shown, answers, flows, unaware>>
  BY DEF JobTold, pageRuns, Fail
<1>16. failures \in Nat /\ forsaken \subseteq forsaken' /\ (failures' = 0 => failures = 0)
  BY <1>1 DEF Shape
<1>2. q \in RunIds /\ w.job \in Nat /\ w = [run |-> q, job |-> w.job]
  BY DEF Shape
<1>3. c.run = q /\ c.job = w.job /\ c.status = runs[q].status /\ c.late = FALSE
  OBVIOUS
<1> HIDE DEF c
<1>4. /\ \A r \in RunIds : Served(r)' /\ FlowsOn(r)' = FlowsOn(r) /\ JobsOn(r)' = JobsOn(r)
                           /\ (InTable(r)' <=> InTable(r))
      /\ Served(q) /\ Paged(q) /\ trained' = trained /\ runs' = runs
  BY <1>1, <1>2, <1>16, PageOnlyServed DEF Kept, serverState
<1>5. /\ \A r : ToldOn(r)' = ToldOn(r)
      /\ Unanswered' <=> Unanswered
  BY <1>1, ListsStay
<1>6. /\ WatchedOn(q)' = WatchedOn(q) \ {w.job} /\ w.job \in WatchedOn(q)
      /\ \A r \in RunIds : r # q => WatchedOn(r)' = WatchedOn(r)
  <2>1. \A x \in watched : x.run = q /\ x.job = w.job => x = w
    BY <1>2 DEF Shape
  <2> QED  BY <1>1, <2>1 DEF WatchedOn
<1>7. /\ callbacks' = callbacks \cup {c} => CallsOn(q)' = CallsOn(q) \cup {c}
      /\ callbacks' = callbacks => CallsOn(q)' = CallsOn(q)
      /\ \A r \in RunIds : r # q => CallsOn(r)' = CallsOn(r)
  BY <1>1, <1>3 DEF CallsOn
<1>8. \A steps : At(q, steps)' <=> At(q, steps)
  BY <1>2, <1>4 DEF At
<1>9. w.job \notin JobsOn(q)
  BY <1>1, TicketDone
<1>10. /\ JobsOn(q) \subseteq Nat /\ WatchedOn(q) \subseteq Nat /\ HeardOn(q) \subseteq Nat
       /\ \A d \in CallsOn(q) : d.job \in Nat
  BY JobNumbers
<1>11. /\ \A j \in JobsOn(q) :
            /\ j <= trained
            /\ \A f \in FlowsOn(q) : f.step = "started" => f.job = j
            /\ \A k \in WatchedOn(q) : k <= j
            /\ \A d \in CallsOn(q) : d.job < j
       /\ \A k \in HeardOn(q) : k <= trained
       /\ \A f \in FlowsOn(q) : f.step = "started" => f.job <= trained
       /\ FollowedJob(q)
  BY <1>4 DEF Paged, Numbers
<1>12. ASSUME InTable(q), callbacks' = callbacks \cup {c}, UNCHANGED <<forsaken, failures>>  PROVE Paged(q)'
  <2>1. CallsOn(q)' = CallsOn(q) \cup {c} /\ NewCallsOn(q)' = NewCallsOn(q) \cup {c}
    BY <1>3, <1>7, <1>12 DEF NewCallsOn
  <2>2. HeardOn(q)' = HeardOn(q)
    BY <1>3, <1>6, <2>1 DEF HeardOn
  <2>3. \A j : Later(q, j)' <=> Later(q, j)
    BY <2>2 DEF Later
  <2>4. \A j \in JobsOn(q) : w.job < j
    BY <1>2, <1>6, <1>9, <1>10, <1>11
  <2>5. Claims(q)'
    <3>1. \A status : Says(q, status)' => Says(q, status) \/ c.status = status
      BY <1>1, <1>5, <2>1 DEF Says
    <3>2. Claims(q)
      BY <1>4 DEF Paged
    <3> QED  BY <1>1, <1>2, <1>3, <1>4, <1>8, <3>1, <3>2 DEF Claims
  <2>6. Numbers(q)'
    <3>1. \A j \in JobsOn(q) : \A d \in CallsOn(q)' : d.job < j
      BY <1>3, <1>11, <2>1, <2>4
    <3>2. \A j \in JobsOn(q) : \A k \in WatchedOn(q)' : k <= j
      BY <1>6, <1>11
    <3> QED  BY <1>2, <1>4, <1>11, <2>2, <3>1, <3>2 DEF Numbers
  <2>7. FollowedJob(q)'
    BY <1>2, <1>4, <1>6, <1>9, <1>11, <1>12 DEF FollowedJob
  <2>8. q \notin forsaken /\ c.status \in RunInWork => At(q, {"started"}) \/ Later(q, w.job)
    <3> SUFFICES ASSUME q \notin forsaken, c.status \in RunInWork  PROVE At(q, {"started"}) \/ Later(q, w.job)
      OBVIOUS
    <3>1. PICK j \in JobsOn(q) : TRUE
      BY <1>3, <1>4, <1>12 DEF Served, Phase, Lost
    <3>2. At(q, {"started"}) \/ j \in HeardOn(q)
      BY <1>2, <1>4, JobIsFollowed
    <3> QED  BY <1>2, <1>10, <2>4, <3>2 DEF Later
  <2>9. InWorkFollowed(q)'
    <3>1. Followed(q)' <=> Followed(q)
      BY <1>8, <2>2 DEF Followed
    <3>2. InWorkFollowed(q)
      BY <1>4 DEF Paged
    <3>3. q \notin forsaken =>
            (\A d \in NewCallsOn(q) : d.status \in RunInWork =>
               ~InTable(q) \/ At(q, {"started"}) \/ Later(q, d.job))'
      BY <1>2, <1>3, <1>4, <1>8, <2>1, <2>3, <2>8, <3>2 DEF InWorkFollowed
    <3> QED  BY <1>1, <1>5, <1>12, <3>1, <3>2, <3>3 DEF InWorkFollowed
  <2>10. Gone(q)' /\ OfSession(q)'
    BY <1>1, <1>2, <1>4, <1>5, <1>8 DEF Paged, Gone, OfSession
  <2>11. Exact(q)'
    <3>1. Changing(q)' <=> Changing(q)
      BY <1>8, <2>2 DEF Changing
    <3> QED  BY <1>1, <1>2, <1>3, <1>4, <1>5, <1>8, <1>12, <2>1, <2>3, <3>1 DEF Paged, Exact
  <2>12. Real(q)'
    <3>1. c.status # "absent"
      BY <1>3, <1>4, <1>12 DEF Served, Phase
    <3> QED  BY <1>4, <2>1, <3>1 DEF Paged, Real
  <2> QED  BY <2>5, <2>6, <2>7, <2>9, <2>10, <2>11, <2>12 DEF Paged
<1>13. ASSUME ~InTable(q), callbacks' = callbacks  PROVE Paged(q)'
  <2>1. CallsOn(q)' = CallsOn(q)
    BY <1>7, <1>13
  <2>2. HeardOn(q)' \subseteq HeardOn(q)
    BY <1>6, <2>1 DEF HeardOn
  <2>3. JobsOn(q) = {}
    BY <1>4, <1>13 DEF Served, Phase
  <2>4. Claims(q)' /\ OfSession(q)' /\ Exact(q)'
    BY <1>2, <1>4, <1>13 DEF Claims, OfSession, Exact
  <2>5. Numbers(q)' /\ FollowedJob(q)'
    BY <1>2, <1>4, <1>11, <2>2, <2>3 DEF Numbers, FollowedJob
  <2>6. Gone(q)' /\ Real(q)'
    BY <1>1, <1>2, <1>4, <1>5, <1>8, <1>16, <2>1 DEF Paged, Gone, Real
  <2>7. InWorkFollowed(q)'
    <3>1. At(q, {"removed"}) => Followed(q)'
      BY <1>8 DEF Followed, At
    <3>2. \/ q \in forsaken'
          \/ At(q, {"removed"})
          \/ (\A status \in ToldOn(q) : status = "absent") /\ (shown[q] = "absent" \/ Unanswered)
      BY <1>4, <1>13, <1>16 DEF Paged, Gone
    <3> QED  BY <1>1, <1>2, <1>4, <1>5, <1>13, <3>1, <3>2 DEF InWorkFollowed, RunInWork
  <2> QED  BY <2>4, <2>5, <2>6, <2>7 DEF Paged
<1>17. ASSUME InTable(q), callbacks' = callbacks, forsaken' = forsaken \cup {q}, failures' = failures + 1
       PROVE  Paged(q)'
  <2>1. CallsOn(q)' = CallsOn(q) /\ NewCallsOn(q)' = NewCallsOn(q)
    BY <1>7, <1>17 DEF NewCallsOn
  <2>2. HeardOn(q)' \subseteq HeardOn(q)
    BY <1>6, <2>1 DEF HeardOn
  <2>3. Claims(q)'
    <3>1. \A status : Says(q, status)' => Says(q, status)
      BY <1>1, <1>5, <2>1 DEF Says
    <3>2. Claims(q)
      BY <1>4 DEF Paged
    <3> QED  BY <1>1, <1>2, <1>4, <1>8, <3>1, <3>2 DEF Claims
  <2>4. Numbers(q)'
    <3>1. \A j \in JobsOn(q) : \A k \in WatchedOn(q)' : k <= j
      BY <1>6, <1>11
    <3> QED  BY <1>2, <1>4, <1>11, <2>1, <2>2, <3>1 DEF Numbers
  <2>5. FollowedJob(q)' /\ InWorkFollowed(q)' /\ Gone(q)'
    BY <1>17 DEF FollowedJob, InWorkFollowed, Gone
  <2>6. OfSession(q)'
    BY <1>1, <1>2, <1>4, <1>5, <1>8 DEF Paged, OfSession
  <2>7. Exact(q)' /\ Real(q)'
    BY <1>4, <1>16, <1>17, <2>1 DEF Paged, Exact, Real
  <2> QED  BY <2>3, <2>4, <2>5, <2>6, <2>7 DEF Paged
<1>14. Paged(q)' /\ Served(q)'
  BY <1>1, <1>2, <1>4, <1>12, <1>13, <1>17
<1>15. \A r \in RunIds : r # q =>
         /\ FlowsOn(r)' = FlowsOn(r) /\ shown'[r] = shown[r]
         /\ WatchedOn(r)' = WatchedOn(r) /\ CallsOn(r)' = CallsOn(r)
  BY <1>1, <1>4, <1>6, <1>7
<1> QED
  BY <1>1, <1>2, <1>14, <1>15, <1>16, PageChanges

\* An answer that is not late is the run as it is, or a later one is to come.
LEMMA RunArrivesKept ==
  ASSUME ModelsInv, Shape, Kept, ~crossed', NEW c \in callbacks, RunArrives(c)
  PROVE  Kept'
<1> DEFINE q == c.run
           Marked(d) == [d EXCEPT !.late = @ \/ (d.run = q /\ d.job < c.job)]
<1>1. /\ callbacks' = {Marked(d) : d \in callbacks \ {c}} /\ watched' = watched /\ answers' = Overtaken
      /\ shown' = shown \/ (shown[q] # "absent" /\ shown' = [shown EXCEPT ![q] = c.status])
      /\ shown[q] = "absent" \/ shown' = [shown EXCEPT ![q] = c.status]
      /\ ~c.late
      /\ UNCHANGED <<serverState, modelQueue, listed, selected, leaving, failures, flows, forsaken, unaware>>
  BY DEF RunArrives, ShowsRun
<1>2. q \in RunIds /\ c.job \in Nat /\ c \in CallsOn(q) /\ c \in NewCallsOn(q)
  BY <1>1 DEF Shape, Callback, CallsOn, NewCallsOn
<1>3. /\ \A r \in RunIds : Served(r)' /\ FlowsOn(r)' = FlowsOn(r) /\ JobsOn(r)' = JobsOn(r)
                           /\ (InTable(r)' <=> InTable(r))
      /\ Served(q) /\ Paged(q) /\ trained' = trained /\ runs' = runs
  BY <1>1, <1>2, PageOnlyServed DEF Kept, serverState
<1>4. ToldOn(q)' = {} /\ (Unanswered' <=> Unanswered)
  <2>1. answers \in Seq(Answer)
    BY DEF Shape
  <2> QED  BY <1>1, <2>1, ListsOvertaken
<1>5. \A d \in callbacks :
        /\ Marked(d).run = d.run /\ Marked(d).job = d.job /\ Marked(d).status = d.status
        /\ ~Marked(d).late => ~d.late /\ ~(d.run = q /\ d.job < c.job)
        /\ d.run # q => Marked(d) = d
  <2> TAKE d \in callbacks
  <2>1. d \in Callback
    BY DEF Shape
  <2> QED  BY <2>1 DEF Callback
<1>6. /\ shown'[q] = (IF shown[q] = "absent" THEN "absent" ELSE c.status)
      /\ \A r \in RunIds : r # q => shown'[r] = shown[r]
  BY <1>1, <1>2 DEF Shape
<1> HIDE DEF Marked
<1>7. CallsOn(q)' = {Marked(d) : d \in CallsOn(q) \ {c}}
  BY <1>1, <1>5 DEF CallsOn
<1>8. \A d \in CallsOn(q) : d \in callbacks /\ d.run = q /\ d.job \in Nat
  BY DEF CallsOn, Shape, Callback
<1>9. \A d \in NewCallsOn(q)' : \E e \in NewCallsOn(q) : d.job = e.job /\ d.status = e.status /\ c.job <= e.job
  <2> SUFFICES ASSUME NEW d \in NewCallsOn(q)'
               PROVE  \E e \in NewCallsOn(q) : d.job = e.job /\ d.status = e.status /\ c.job <= e.job
    OBVIOUS
  <2>1. d \in CallsOn(q)' /\ ~d.late
    BY DEF NewCallsOn
  <2>2. PICK e \in CallsOn(q) : d = Marked(e)
    BY <1>7, <2>1
  <2>3. e \in callbacks /\ e.run = q /\ e.job \in Nat
    BY <1>8
  <2>4. d.job = e.job /\ d.status = e.status /\ ~e.late /\ ~(e.job < c.job)
    BY <1>5, <2>1, <2>2, <2>3
  <2> QED  BY <1>2, <2>3, <2>4 DEF NewCallsOn
<1>10. \A r \in RunIds : r # q => WatchedOn(r)' = WatchedOn(r) /\ CallsOn(r)' = CallsOn(r)
  BY <1>1, <1>5 DEF CallsOn, WatchedOn
<1>11. WatchedOn(q)' = WatchedOn(q)
  BY <1>1 DEF WatchedOn
<1>12. /\ HeardOn(q)' \subseteq HeardOn(q) /\ \A k \in HeardOn(q) : k # c.job => k \in HeardOn(q)'
       /\ \A d \in CallsOn(q)' : \E e \in CallsOn(q) : d.job = e.job /\ d.status = e.status
  <2>1. \A d \in CallsOn(q)' : \E e \in CallsOn(q) : d.job = e.job /\ d.status = e.status
    BY <1>5, <1>7, <1>8
  <2>2. \A e \in CallsOn(q) : e.job # c.job => \E d \in CallsOn(q)' : d.job = e.job
    <3> TAKE e \in CallsOn(q)
    <3>1. ASSUME e.job # c.job  PROVE Marked(e) \in CallsOn(q)' /\ Marked(e).job = e.job
      BY <1>5, <1>7, <1>8, <3>1
    <3> QED  BY <3>1
  <2>3. HeardOn(q)' \subseteq HeardOn(q)
    BY <1>11, <2>1 DEF HeardOn
  <2>4. \A k \in HeardOn(q) : k # c.job => k \in HeardOn(q)'
    BY <1>11, <2>2 DEF HeardOn
  <2> QED  BY <2>1, <2>3, <2>4
<1>13. /\ HeardOn(q) \subseteq Nat /\ \A d \in CallsOn(q) : d.job \in Nat
  BY JobNumbers
<1>14. \A j \in Nat : c.job <= j /\ Later(q, j) => Later(q, j)' /\ HeardOn(q)' # {}
  <2> SUFFICES ASSUME NEW j \in Nat, c.job <= j, Later(q, j)  PROVE Later(q, j)' /\ HeardOn(q)' # {}
    OBVIOUS
  <2>1. PICK k \in HeardOn(q) : k > j
    BY DEF Later
  <2>2. k \in HeardOn(q)'
    BY <1>2, <1>12, <1>13, <2>1
  <2> QED  BY <2>1, <2>2 DEF Later
<1>15. \A steps : At(q, steps)' <=> At(q, steps)
  BY <1>2, <1>3 DEF At
<1>16. Paged(q)'
  <2>1. Claims(q)'
    <3>1. \A status \in {"idle", "error"} : Says(q, status)' => Says(q, status)
      BY <1>2, <1>4, <1>6, <1>9 DEF Says
    <3>2. Claims(q)
      BY <1>3 DEF Paged
    <3> QED  BY <1>1, <1>2, <1>3, <1>15, <3>1, <3>2 DEF Claims
  <2>2. Numbers(q)' /\ FollowedJob(q)'
    <3>1. Numbers(q) /\ FollowedJob(q)
      BY <1>3 DEF Paged
    <3>2. \A j \in JobsOn(q) : \A d \in CallsOn(q)' : d.job < j
      BY <1>12, <3>1 DEF Numbers
    <3>3. \A k \in HeardOn(q)' : k <= trained
      BY <1>12, <3>1 DEF Numbers
    <3> QED  BY <1>1, <1>2, <1>3, <1>11, <3>1, <3>2, <3>3 DEF Numbers, FollowedJob
  <2>3. InWorkFollowed(q)'
    <3>1. InWorkFollowed(q) /\ Gone(q)
      BY <1>3 DEF Paged
    <3>2. ASSUME shown'[q] \in RunInWork, q \notin forsaken  PROVE Followed(q)' \/ Unanswered'
      <4>1. c.status \in RunInWork /\ shown[q] # "absent"
        BY <1>6, <3>2 DEF RunInWork
      <4>2. ~InTable(q) \/ At(q, {"started"}) \/ Later(q, c.job)
        BY <1>2, <3>1, <3>2, <4>1 DEF InWorkFollowed
      <4>3. CASE At(q, {"started"})
        BY <1>15, <4>3 DEF Followed, At
      <4>4. CASE Later(q, c.job)
        BY <1>2, <1>14, <4>4 DEF Followed
      <4>5. CASE ~InTable(q)
        <5>1. At(q, {"removed"}) \/ Unanswered
          BY <3>1, <3>2, <4>1, <4>5 DEF Gone
        <5> QED  BY <1>4, <1>15, <5>1 DEF Followed, At
      <4> QED  BY <4>2, <4>3, <4>4, <4>5
    <3>3. ASSUME NEW d \in NewCallsOn(q)', d.status \in RunInWork, q \notin forsaken
          PROVE  ~InTable(q)' \/ At(q, {"started"})' \/ Later(q, d.job)'
      <4>1. PICK e \in NewCallsOn(q) : d.job = e.job /\ d.status = e.status /\ c.job <= e.job
        BY <1>9
      <4>2. ~InTable(q) \/ At(q, {"started"}) \/ Later(q, e.job)
        BY <3>1, <3>3, <4>1 DEF InWorkFollowed
      <4>3. e.job \in Nat
        BY <1>13 DEF NewCallsOn
      <4> QED  BY <1>2, <1>3, <1>14, <1>15, <4>1, <4>2, <4>3
    <3> QED  BY <1>1, <1>4, <3>2, <3>3 DEF InWorkFollowed
  <2>4. Gone(q)'
    BY <1>1, <1>2, <1>3, <1>4, <1>6, <1>15 DEF Paged, Gone
  <2>5. OfSession(q)'
    <3>1. OfSession(q) /\ c.status # "absent"
      BY <1>2, <1>3 DEF Paged, Real
    <3> QED  BY <1>1, <1>2, <1>3, <1>4, <1>6, <1>15, <3>1 DEF OfSession
  <2>6. Exact(q)'
    <3> SUFFICES ASSUME failures' = 0, ~unaware', InTable(q)'  PROVE
          /\ (runs[q].session = selected =>
                /\ shown[q] = runs[q].status \/ Changing(q) \/ Unanswered
                /\ \A status \in ToldOn(q) : status = runs[q].status \/ Changing(q))'
          /\ (\A d \in NewCallsOn(q) :
                d.status = runs[q].status \/ At(q, {"enqueue", "started"}) \/ Later(q, d.job))'
      BY DEF Exact
    <3>1. failures = 0 /\ ~unaware /\ InTable(q) /\ OfSession(q) /\ Exact(q)
      BY <1>1, <1>2, <1>3 DEF Paged
    <3>2. ASSUME NEW d \in NewCallsOn(q)'
          PROVE  d.status = runs[q].status \/ At(q, {"enqueue", "started"}) \/ Later(q, d.job)'
      <4>1. PICK e \in NewCallsOn(q) : d.job = e.job /\ d.status = e.status /\ c.job <= e.job
        BY <1>9
      <4>2. e.status = runs[q].status \/ At(q, {"enqueue", "started"}) \/ Later(q, e.job)
        BY <3>1, <4>1 DEF Exact
      <4>3. e.job \in Nat
        BY <1>13 DEF NewCallsOn
      <4> QED  BY <1>14, <4>1, <4>2, <4>3
    <3>3. ASSUME runs[q].session = selected  PROVE shown'[q] = runs[q].status \/ Changing(q)' \/ Unanswered
      <4>1. CASE shown[q] = "absent"
        <5>1. At(q, {"created"}) \/ Unanswered
          BY <3>1, <3>3, <4>1 DEF OfSession
        <5> QED  BY <1>15, <5>1 DEF Changing, At
      <4>2. CASE shown[q] # "absent"
        <5>1. shown'[q] = c.status
          BY <1>6, <4>2
        <5>2. c.status = runs[q].status \/ At(q, {"enqueue", "started"}) \/ Later(q, c.job)
          BY <1>2, <3>1 DEF Exact
        <5>3. CASE At(q, {"enqueue", "started"})
          BY <1>15, <5>3 DEF Changing, At
        <5>4. CASE Later(q, c.job)
          BY <1>2, <1>14, <5>4 DEF Changing
        <5> QED  BY <5>1, <5>2, <5>3, <5>4
      <4> QED  BY <4>1, <4>2
    <3> QED  BY <1>1, <1>2, <1>3, <1>4, <1>15, <3>2, <3>3
  <2>7. Real(q)'
    BY <1>3, <1>12 DEF Paged, Real
  <2> QED  BY <2>1, <2>2, <2>3, <2>4, <2>5, <2>6, <2>7 DEF Paged
<1>17. \A r \in RunIds : r # q =>
         /\ FlowsOn(r)' = FlowsOn(r) /\ shown'[r] = shown[r]
         /\ WatchedOn(r)' = WatchedOn(r) /\ CallsOn(r)' = CallsOn(r)
  BY <1>3, <1>6, <1>10
<1> QED
  BY <1>1, <1>2, <1>3, <1>16, <1>17, PageChanges

-----------------------------------------------------------------------------
(* Sessions, lists of runs, and the page itself *)

\* A session is chosen: the list that is asked for says what is in the table.
LEMMA SelectsPaged ==
  ASSUME ModelsInv, Shape, Kept, NEW s \in Nat, Selects(s),
         UNCHANGED <<runs, op, trained, modelQueue, flows, watches, failures>>
  PROVE  \A r \in RunIds : Served(r)' /\ Paged(r)'
<1> SUFFICES ASSUME NEW r \in RunIds  PROVE Served(r)' /\ Paged(r)'
  OBVIOUS
<1>1. Served(r)' /\ FlowsOn(r)' = FlowsOn(r) /\ JobsOn(r)' = JobsOn(r) /\ (InTable(r)' <=> InTable(r))
  BY CallsStay, FlowsStay, QueueStays, OthersServed DEF InTable
<1>2. Served(r) /\ Paged(r)
  BY DEF Kept
<1>3. WatchedOn(r)' = WatchedOn(r) /\ CallsOn(r)' = CallsOn(r)
  BY CallsStay
<1>15. forsaken' = forsaken /\ unaware' = unaware
  BY CallsStay
<1>4. NewCallsOn(r)' = NewCallsOn(r) /\ HeardOn(r)' = HeardOn(r) /\ \A j : Later(r, j)' <=> Later(r, j)
  BY <1>3 DEF NewCallsOn, HeardOn, Later
<1>5. \A steps : At(r, steps)' <=> At(r, steps)
  BY <1>1 DEF At
<1>6. \/ s = 0 /\ shown'[r] = "absent" /\ ToldOn(r)' = {}
      \/ /\ s # 0 /\ shown'[r] = shown[r] /\ Unanswered'
         /\ ToldOn(r)' = {IF runs[r].session = s THEN runs[r].status ELSE "absent"}
  <2>1. CASE s = 0
    <3>1. shown' = [q \in RunIds |-> "absent"] /\ answers' = Overtaken
      BY <2>1 DEF Selects
    <3>2. answers \in Seq(Answer)
      BY DEF Shape
    <3>3. ToldOn(r)' = {}
      BY <3>1, <3>2, ListsOvertaken
    <3> QED  BY <2>1, <3>1, <3>3
  <2>2. CASE s # 0
    <3> DEFINE rows == StatusesOf(s)
    <3>1. AsksFor(rows) /\ shown' = shown
      BY <2>2 DEF Selects, AsksFor
    <3>2. rows \in [RunIds -> Statuses] /\ rows[r] = IF runs[r].session = s THEN runs[r].status ELSE "absent"
      BY StatusesOfShape DEF StatusesOf
    <3> HIDE DEF rows
    <3>3. answers \in Seq(Answer)
      BY DEF Shape
    <3>4. ToldOn(r)' = {rows[r]} /\ Unanswered'
      BY <3>1, <3>2, <3>3, ListAsked
    <3> QED  BY <2>2, <3>1, <3>2, <3>4
  <2> QED  BY <2>1, <2>2
<1>7. selected' = s
  BY DEF Selects
<1>8. /\ InTable(r) => runs[r].session # 0 /\ runs[r].status # "absent"
      /\ ~InTable(r) => runs[r].session = 0
  BY <1>2 DEF Served, Phase, InTable, noRun
<1>9. Claims(r)'
  <2>1. \A status \in {"idle", "error"} : Says(r, status)' => Says(r, status) \/ runs[r].status = status
    BY <1>4, <1>6 DEF Says
  <2> QED  BY <1>1, <1>2, <1>5, <1>15, <2>1 DEF Paged, Claims
<1>10. Numbers(r)' /\ FollowedJob(r)' /\ Real(r)'
  BY <1>1, <1>2, <1>3, <1>4, <1>15 DEF Paged, Numbers, FollowedJob, Real
<1>11. InWorkFollowed(r)'
  <2>1. Followed(r)' <=> Followed(r)
    BY <1>4, <1>5 DEF Followed
  <2>2. ASSUME r \notin forsaken, InTable(r), runs[r].status \in RunInWork  PROVE Followed(r)
    <3>1. PICK j \in JobsOn(r) : TRUE
      BY <1>2, <2>2 DEF Served, Phase, Lost
    <3>2. At(r, {"started"}) \/ j \in HeardOn(r)
      BY <1>2, <2>2, JobIsFollowed
    <3> QED  BY <3>2 DEF Followed, At
  <2>3. r \notin forsaken => \A status \in ToldOn(r)' : status \in RunInWork => Followed(r)
    BY <1>6, <1>8, <2>2 DEF RunInWork
  <2>4. shown'[r] \in RunInWork => Followed(r) \/ Unanswered'
    BY <1>6 DEF RunInWork
  <2> QED  BY <1>1, <1>2, <1>4, <1>5, <1>15, <2>1, <2>3, <2>4 DEF Paged, InWorkFollowed
<1>12. Gone(r)'
  BY <1>1, <1>6, <1>8 DEF Gone
<1>13. OfSession(r)'
  BY <1>1, <1>6, <1>7, <1>8 DEF OfSession
<1>14. Exact(r)'
  <2>1. InTable(r) /\ failures = 0 /\ ~unaware => \A c \in NewCallsOn(r) :
          c.status = runs[r].status \/ At(r, {"enqueue", "started"}) \/ Later(r, c.job)
    BY <1>2 DEF Paged, Exact
  <2> QED  BY <1>1, <1>4, <1>5, <1>6, <1>7, <1>8, <1>15, <2>1 DEF Exact
<1> QED
  BY <1>1, <1>9, <1>10, <1>11, <1>12, <1>13, <1>14 DEF Paged

\* The clicks on sessions.
LEMMA SessionsKept ==
  ASSUME ModelsInv, Shape, Kept, NEW s \in 0..MaxSessions, SelectSession(s) \/ DeleteSession(s) \/ CreateSession
  PROVE  Kept'
<1>0. \A n \in 0..MaxSessions : n \in Nat
  OBVIOUS
<1>1. CASE SelectSession(s)
  <2>1. /\ Selects(s) /\ s \in listed \cup {0} /\ selected' = s
        /\ UNCHANGED <<runs, op, trained, modelQueue, flows, watches, failures, sessions, listed, leaving>>
    BY <1>1 DEF SelectSession, Selects, serverState, history
  <2>2. \A r \in RunIds : Served(r)' /\ Paged(r)'
    BY <1>0, <2>1, SelectsPaged
  <2>3. Lists'
    BY <2>1 DEF Kept, Lists
  <2>4. OneJob'
    BY <2>1, QueueStays DEF Kept
  <2> QED  BY <2>2, <2>3, <2>4 DEF Kept
<1>2. CASE DeleteSession(s)
  <2>1. /\ s \in listed /\ listed' = listed \ {s} /\ leaving' = leaving \cup {s}
        /\ UNCHANGED <<runs, op, trained, modelQueue, flows, watches, failures, sessions>>
        /\ (selected = s /\ Selects(0)) \/ (selected # s /\ UNCHANGED pageRuns)
    BY <1>2 DEF DeleteSession, serverState, history
  <2>2. \A r \in RunIds : Served(r)' /\ Paged(r)'
    <3>1. CASE Selects(0)
      BY <2>1, <3>1, SelectsPaged
    <3>2. CASE UNCHANGED pageRuns
      <4>1. UNCHANGED <<selected, shown, answers>>
        BY <3>2 DEF pageRuns
      <4> SUFFICES ASSUME NEW r \in RunIds  PROVE Served(r)' /\ Paged(r)'
        OBVIOUS
      <4>2. /\ Served(r)' /\ FlowsOn(r)' = FlowsOn(r) /\ JobsOn(r)' = JobsOn(r)
            /\ (InTable(r)' <=> InTable(r)) /\ Telling(r)' = Telling(r)
        BY <2>1, CallsStay, FlowsStay, QueueStays, OthersServed DEF InTable, Telling
      <4>3. /\ ToldOn(r)' = ToldOn(r) /\ (Unanswered' <=> Unanswered)
            /\ WatchedOn(r)' = WatchedOn(r) /\ CallsOn(r)' = CallsOn(r)
            /\ forsaken' = forsaken /\ unaware' = unaware
        BY <2>1, <4>1, ListsStay, CallsStay
      <4>4. Paged(r)
        BY DEF Kept
      <4> QED  BY <2>1, <4>1, <4>2, <4>3, <4>4, PagedStays
    <3> QED  BY <2>1, <3>1, <3>2
  <2>3. Lists'
    <3>1. selected' = IF selected = s THEN 0 ELSE selected
      BY <2>1 DEF Selects, pageRuns
    <3>2. s # 0
      BY <2>1 DEF Shape
    <3> QED  BY <2>1, <3>1, <3>2 DEF Kept, Lists
  <2>4. OneJob'
    BY <2>1, QueueStays DEF Kept
  <2> QED  BY <2>2, <2>3, <2>4 DEF Kept
<1>3. CASE CreateSession
  <2> DEFINE n == 1 + Max({0} \cup sessions)
  <2>1. /\ Selects(n) /\ n \notin leaving /\ selected' = n
        /\ sessions' = sessions \cup {n} /\ listed' = listed \cup {n}
        /\ UNCHANGED <<runs, op, trained, modelQueue, flows, watches, failures, leaving>>
    BY <1>3 DEF CreateSession, Selects, history
  <2>2. n \in Nat
    BY NextSessionBound DEF ModelsInv, Typed
  <2> HIDE DEF n
  <2>3. \A r \in RunIds : Served(r)' /\ Paged(r)'
    BY <2>1, <2>2, SelectsPaged
  <2>4. Lists'
    BY <2>1 DEF Kept, Lists
  <2>5. OneJob'
    BY <2>1, QueueStays DEF Kept
  <2> QED  BY <2>3, <2>4, <2>5 DEF Kept
<1> QED
  BY <1>1, <1>2, <1>3

\* A list that is not late says of each run what the page has to show.
LEMMA ListArrivesKept ==
  ASSUME ModelsInv, Shape, Kept, ~crossed', ListOfRunsArrives
  PROVE  Kept'
<1>1. PICK n \in DOMAIN answers :
        /\ shown' = answers[n].rows /\ answers' = RemoveAt(answers, n) /\ ~answers[n].late
  BY DEF ListOfRunsArrives
<1>2. /\ UNCHANGED <<serverState, modelQueue, listed, selected, leaving, watches, flows, failures>>
      /\ forsaken' = forsaken /\ unaware' = unaware
  BY DEF ListOfRunsArrives, watches
<1>3. answers[n].rows \in NewLists /\ NewLists' \subseteq NewLists
  <2>1. answers \in Seq(Answer)
    BY DEF Shape
  <2> QED  BY <1>1, <2>1, ListTaken
<1>4. \A r \in RunIds : Served(r)' /\ FlowsOn(r)' = FlowsOn(r) /\ JobsOn(r)' = JobsOn(r)
                           /\ (InTable(r)' <=> InTable(r))
  BY <1>2, PageOnlyServed
<1>5. UNCHANGED <<runs, trained, sessions>>
  BY <1>2 DEF serverState
<1>6. ASSUME NEW r \in RunIds  PROVE Paged(r)'
  <2>1. shown'[r] \in ToldOn(r) /\ ToldOn(r)' \subseteq ToldOn(r)
    BY <1>1, <1>3 DEF ToldOn
  <2>2. WatchedOn(r)' = WatchedOn(r) /\ CallsOn(r)' = CallsOn(r)
    BY <1>2, CallsStay
  <2>3. NewCallsOn(r)' = NewCallsOn(r) /\ HeardOn(r)' = HeardOn(r) /\ \A j : Later(r, j)' <=> Later(r, j)
    BY <2>2 DEF NewCallsOn, HeardOn, Later
  <2>4. \A steps : At(r, steps)' <=> At(r, steps)
    BY <1>4 DEF At
  <2>5. /\ \A status : Says(r, status)' => Says(r, status)
        /\ (Followed(r)' <=> Followed(r)) /\ (Changing(r)' <=> Changing(r))
    BY <2>1, <2>3, <2>4 DEF Says, Followed, Changing
  <2>6. Paged(r)
    BY DEF Kept
  <2>7. Claims(r)'
    BY <1>2, <1>4, <1>5, <2>4, <2>5, <2>6 DEF Paged, Claims
  <2>8. Numbers(r)' /\ FollowedJob(r)' /\ Real(r)'
    BY <1>2, <1>4, <1>5, <2>2, <2>3, <2>6 DEF Paged, Numbers, FollowedJob, Real
  <2>9. InWorkFollowed(r)'
    BY <1>2, <1>4, <2>1, <2>3, <2>4, <2>5, <2>6 DEF Paged, InWorkFollowed
  <2>10. Gone(r)'
    BY <1>2, <1>4, <2>1, <2>4, <2>6 DEF Paged, Gone
  <2>11. OfSession(r)'
    <3>1. selected' = selected
      BY <1>2
    <3> QED  BY <1>4, <1>5, <2>1, <2>4, <2>6, <3>1 DEF Paged, OfSession
  <2>12. Exact(r)'
    <3>1. selected' = selected /\ failures' = failures /\ unaware' = unaware
      BY <1>2
    <3> QED  BY <1>4, <1>5, <2>1, <2>3, <2>4, <2>5, <2>6, <3>1 DEF Paged, Exact
  <2> QED  BY <2>7, <2>8, <2>9, <2>10, <2>11, <2>12 DEF Paged
<1>7. OneJob'
  BY <1>2, QueueStays DEF Kept
<1>8. Lists'
  BY <1>2, <1>5, ListsKept
<1> QED
  BY <1>4, <1>6, <1>7, <1>8 DEF Kept

\* A session goes with its runs, which the page does not show any more.
LEMMA SessionDeletedKept ==
  ASSUME ModelsInv, Shape, Kept, ~collided', NEW s \in 0..MaxSessions, SessionDeleted(s)
  PROVE  Kept'
<1> DEFINE gone == {r \in RunIds : runs[r].session = s}
<1>1. /\ s \in leaving /\ leaving' = leaving \ {s}
      /\ UNCHANGED <<trained, modelQueue, listed, pageRuns, watches, flows>>
      /\ \/ sessions' = sessions \ {s} /\ WithoutRun(gone) /\ failures' = failures
            /\ \A r \in gone : ~Engaged(r)
         \/ UNCHANGED <<sessions, runs, op>> /\ failures' = failures + 1
  BY DEF SessionDeleted, Fail
<1>2. /\ \A r \in RunIds : FlowsOn(r)' = FlowsOn(r) /\ JobsOn(r)' = JobsOn(r)
           /\ Telling(r)' = Telling(r) /\ ToldOn(r)' = ToldOn(r)
           /\ WatchedOn(r)' = WatchedOn(r) /\ CallsOn(r)' = CallsOn(r)
      /\ (Unanswered' <=> Unanswered) /\ UNCHANGED <<shown, selected, answers>>
      /\ OneJob' /\ forsaken' = forsaken /\ unaware' = unaware
  <2>1. UNCHANGED <<shown, selected, answers>>
    BY <1>1 DEF pageRuns
  <2> QED  BY <1>1, <2>1, FlowsStay, QueueStays, ListsStay, CallsStay DEF Telling, Kept
<1>3. failures \in Nat /\ (failures' = 0 => failures = 0)
  BY <1>1 DEF Shape
<1>4. s # 0 /\ s # selected /\ s \notin listed
  BY <1>1 DEF Kept, Lists
<1>5. ASSUME NEW r \in RunIds, runs'[r] = runs[r], op'[r] = op[r]  PROVE Served(r)' /\ Paged(r)'
  <2>1. Served(r)'
    BY <1>1, <1>2, <1>5, OthersServed
  <2>2. InTable(r)' <=> InTable(r)
    BY <1>5 DEF InTable
  <2>3. Paged(r)
    BY DEF Kept
  <2>4. Paged(r)'
    BY <1>1, <1>2, <1>3, <1>5, <2>2, <2>3, PagedStays
  <2> QED  BY <2>1, <2>4
<1>6. CASE UNCHANGED <<sessions, runs, op>> /\ failures' = failures + 1
  <2>1. Lists'
    BY <1>1, <1>2, <1>3, <1>4, <1>6 DEF Kept, Lists
  <2> QED  BY <1>2, <1>5, <1>6, <2>1 DEF Kept
<1>7. CASE /\ sessions' = sessions \ {s} /\ WithoutRun(gone) /\ failures' = failures
           /\ \A r \in gone : ~Engaged(r)
  <2>1. Lists'
    BY <1>1, <1>2, <1>4, <1>7 DEF Kept, Lists
  <2>2. \A r \in RunIds : r \notin gone => runs'[r] = runs[r] /\ op'[r] = op[r]
    BY <1>7 DEF WithoutRun
  <2>3. ASSUME NEW r \in gone  PROVE Served(r)' /\ Paged(r)'
    <3>1. r \in RunIds /\ runs[r].session = s /\ runs'[r] = noRun /\ ~Engaged(r)
      BY <1>7, <2>3 DEF WithoutRun
    <3>2. InTable(r) /\ ~InTable(r)'
      BY <1>4, <3>1 DEF InTable, noRun
    <3>3. FlowsOn(r) = {} /\ JobsOn(r) = {} /\ inHand.run # r
      BY <3>1, NotEngaged
    <3>4. ~Saving(r)'
      BY <1>1, <3>1, <3>3, QueueStays DEF Saving
    <3>5. Served(r) /\ Paged(r)
      BY <3>1 DEF Kept
    <3>6. Served(r)'
      BY <1>2, <3>1, <3>2, <3>3, <3>4 DEF Served, Alone, Phase, FreshBefore, Own
    <3>7. /\ \A status \in ToldOn(r) : status = "absent"
          /\ shown[r] = "absent" \/ Unanswered
      BY <1>4, <3>1, <3>2, <3>5 DEF Paged, OfSession
    <3>8. NewCallsOn(r)' = NewCallsOn(r) /\ HeardOn(r)' = HeardOn(r)
      BY <1>2, <3>1 DEF NewCallsOn, HeardOn
    <3>9. Claims(r)' /\ OfSession(r)' /\ Exact(r)' /\ Real(r)'
      BY <1>2, <3>1, <3>2, <3>5 DEF Claims, OfSession, Exact, Real, Paged
    <3>10. Numbers(r)' /\ FollowedJob(r)'
      BY <1>1, <1>2, <3>1, <3>3, <3>5, <3>8 DEF Paged, Numbers, FollowedJob
    <3>11. InWorkFollowed(r)' /\ Gone(r)'
      BY <1>2, <3>1, <3>2, <3>7 DEF InWorkFollowed, Gone, RunInWork
    <3> QED  BY <3>6, <3>9, <3>10, <3>11 DEF Paged
  <2> HIDE DEF gone
  <2>4. \A r \in RunIds : Served(r)' /\ Paged(r)'
    BY <1>5, <2>2, <2>3
  <2> QED  BY <1>2, <2>1, <2>4 DEF Kept
<1> QED
  BY <1>1, <1>6, <1>7

\* The page is left: it shows and awaits nothing; the runs that are trained
\* are forsaken.
LEMMA RemountKept ==
  ASSUME ModelsInv, Shape, Kept, ~crossed', Remount
  PROVE  Kept'
<1> DEFINE Left(f) == [f EXCEPT !.live = FALSE]
           staying == {g \in flows : g.step \notin {"created", "removed", "started"}}
<1>1. /\ listed' = sessions /\ selected' = 0 /\ shown' = [r \in RunIds |-> "absent"]
      /\ watched' = {} /\ callbacks' = {} /\ answers' = <<>> /\ leaving = {}
      /\ UNCHANGED <<serverState, modelQueue, leaving, failures>>
  BY DEF Remount
<1>2. /\ flows' = {Left(f) : f \in staying}
      /\ forsaken' = forsaken \cup {r \in RunIds : Training(r)}
      /\ \A r \in RunIds : Training(r) => unaware'
      /\ unaware => unaware'
  BY DEF Remount
<1>3. \A f \in flows : Left(f).run = f.run /\ Left(f).step = f.step
  BY DEF ModelsInv, Typed, PageTyped, Flow
<1> HIDE DEF Left
<1>4. /\ \A r : \A g \in FlowsOn(r)' : \E f \in FlowsOn(r) : g = Left(f) /\ g.step = f.step
      /\ \A r : \A g \in FlowsOn(r)' : g.step \notin {"created", "removed", "started"}
  BY <1>2, <1>3 DEF FlowsOn
<1> HIDE DEF staying
<1>5. UNCHANGED <<sessions, runs, op, trained>> /\ \A r : InTable(r)' <=> InTable(r)
  BY <1>1 DEF serverState, InTable
<1>6. \A r : JobsOn(r)' = JobsOn(r) /\ (Saving(r)' <=> Saving(r))
  BY <1>1, QueueStays
<1>7. ASSUME NEW r \in RunIds  PROVE Served(r)' /\ Paged(r)'
  <2>1. Served(r) /\ Paged(r)
    BY DEF Kept
  <2>2. Served(r)'
    <3>1. CASE ~Training(r)
      <4>1. FlowsOn(r)' = FlowsOn(r)
        BY <1>4, <3>1, NoTraining
      <4> QED  BY <1>1, <1>2, <1>5, <4>1, OthersServed
    <3>2. CASE Training(r)
      <4>1. r \in forsaken' /\ unaware'
        BY <1>2, <3>2
      <4>2. Alone(r)'
        BY <1>4, <2>1, <4>1 DEF Served, Alone
      <4>3. Phase(r)'
        <5>1. Lost(r)'
          BY <1>4, <4>1 DEF Lost, At
        <5>2. /\ JobsOn(r)' # {} => InTable(r)' /\ runs'[r].status \in RunInWork
              /\ InTable(r)' => runs'[r].session # 0 /\ runs'[r].status # "absent"
              /\ InTable(r)' /\ runs'[r].status # "finished" /\ ~Saving(r)' => runs'[r].model = 0
          BY <1>5, <1>6, <2>1 DEF Served, Phase
        <5>3. ASSUME NEW g \in FlowsOn(r)'
              PROVE  /\ JobsOn(r)' # {} => g.step = "started"
                     /\ g.step \in {"resetting", "enqueue", "started", "removing", "created"} => InTable(r)'
                     /\ g.step \in {"enqueue", "created"} => runs'[r].status = "idle"
                     /\ g.step = "resetting" => runs'[r].model = 0
                     /\ g.step = "removed" => ~InTable(r)'
          <6>1. PICK f \in FlowsOn(r) : g.step = f.step
            BY <1>4
          <6> QED  BY <1>5, <1>6, <2>1, <6>1 DEF Served, Phase
        <5> QED  BY <5>1, <5>2, <5>3 DEF Phase
      <4> QED  BY <4>1, <4>2, <4>3 DEF Served, FreshBefore, Own
    <3> QED  BY <3>1, <3>2
  <2>3. ToldOn(r)' = {} /\ HeardOn(r)' = {} /\ CallsOn(r)' = {} /\ NewCallsOn(r)' = {} /\ WatchedOn(r)' = {}
    <3>1. NewLists' = {}
      BY <1>1 DEF NewLists
    <3> QED  BY <1>1, <3>1 DEF ToldOn, HeardOn, CallsOn, NewCallsOn, WatchedOn
  <2>4. shown'[r] = "absent"
    BY <1>1
  <2>5. InTable(r)' => runs'[r].session # 0
    BY <2>2 DEF Served, Phase
  <2>6. Claims(r)' /\ Real(r)'
    BY <2>3, <2>4 DEF Claims, Says, Real
  <2>7. Numbers(r)'
    <3>1. \A j \in JobsOn(r) : j <= trained
      BY <2>1 DEF Paged, Numbers
    <3>2. \A g \in FlowsOn(r)' : g.step # "started"
      BY <1>4
    <3> QED  BY <1>5, <1>6, <2>3, <3>1, <3>2 DEF Numbers
  <2>8. FollowedJob(r)'
    <3>1. CASE Training(r)
      BY <1>2, <3>1 DEF FollowedJob
    <3>2. CASE ~Training(r)
      BY <1>6, <3>2, NoTraining DEF FollowedJob
    <3> QED  BY <3>1, <3>2
  <2>9. InWorkFollowed(r)' /\ Gone(r)'
    BY <2>3, <2>4 DEF InWorkFollowed, RunInWork, Gone
  <2>10. OfSession(r)' /\ Exact(r)'
    BY <1>1, <2>3, <2>4, <2>5 DEF OfSession, Exact
  <2> QED  BY <2>2, <2>6, <2>7, <2>8, <2>9, <2>10 DEF Paged
<1>8. OneJob'
  BY <1>1, QueueStays DEF Kept
<1>9. Lists'
  BY <1>1, <1>5 DEF Lists, ModelsInv, Typed, TablesTyped
<1> QED
  BY <1>7, <1>8, <1>9 DEF Kept

\* Nothing of all this changes.
LEMMA NothingKept ==
  ASSUME ModelsInv, Shape, Kept, CancelRetrain \/ UNCHANGED modelsPageVars
  PROVE  Kept'
<1>1. UNCHANGED <<serverState, modelQueue, pageView, flows, failures>>
  BY DEF CancelRetrain, modelsPageVars, pageState, pageView, history
<1>2. UNCHANGED <<runs, op, trained, sessions, forsaken, unaware>>
  BY <1>1 DEF serverState, pageView, watches
<1>3. \A r \in RunIds : /\ Served(r)' /\ FlowsOn(r)' = FlowsOn(r) /\ JobsOn(r)' = JobsOn(r)
                        /\ (InTable(r)' <=> InTable(r))
  BY <1>1, <1>2, PageOnlyServed
<1>4. \A r \in RunIds : Paged(r)'
  BY <1>1, <1>2, <1>3, OthersPaged DEF Telling
<1>5. OneJob' /\ Lists'
  BY <1>1, <1>2, QueueStays, ListsKept DEF Kept, pageView, pageRuns
<1> QED
  BY <1>3, <1>4, <1>5 DEF Kept

-----------------------------------------------------------------------------
(* Runs and jobs *)

\* The next key is that of no run.
LEMMA NextRunIsNew ==
  ASSUME ModelsInv
  PROVE  NextRun \in RunIds => ~InTable(NextRun)
<1> DEFINE S == {0} \cup {r \in RunIds : InTable(r)}
<1>1. MaxRuns \in Nat /\ S \in SUBSET (0..MaxRuns) /\ S # {}
  BY DEF RunIds
<1>2. Max(S) \in S /\ \A y \in S : y <= Max(S)
  <2> HIDE DEF S
  <2> QED
    BY <1>1, MaxIsMax
<1>3. NextRun = 1 + Max(S)
  BY DEF NextRun
<1>4. Max(S) \in Nat
  BY <1>1, <1>2
<1>5. NextRun \notin S
  <2> HIDE DEF S
  <2> QED  BY <1>2, <1>3, <1>4
<1> QED
  BY <1>5

\* A new run has its handler and nothing else.
LEMMA PostRunKept ==
  ASSUME ModelsInv, Shape, Kept, ~collided', PostRun
  PROVE  Kept'
<1> DEFINE q == NextRun
           row == [session |-> selected, status |-> "idle", model |-> 0]
<1>1. /\ births.runs < MaxRuns
      /\ runs' = [runs EXCEPT ![q] = row] /\ selected \in sessions
      /\ UNCHANGED <<sessions, op, trained, modelQueue, pageView, failures>>
      /\ op[q] = noOp /\ ~Engaged(q) /\ ~\E w \in watched \cup callbacks : w.run = q
      /\ Opens(q, "created")
  BY DEF PostRun, pageState, pageView
<1>2. q \in RunIds
  BY <1>1, NextRunBound DEF RunIds, ModelsInv, Typed, TablesTyped
<1>3. ~InTable(q)
  BY <1>2, NextRunIsNew
<1>4. row.session = selected /\ row.status = "idle" /\ row.model = 0
  OBVIOUS
<1>5. PICK r \in RunIds : r = q
  BY <1>2
<1> HIDE DEF q, row
<1>6. /\ runs'[r] = row /\ \A s \in RunIds : s # r => runs'[s] = runs[s]
      /\ ~InTable(r) /\ op[r] = noOp /\ ~Engaged(r) /\ Opens(r, "created")
      /\ \A w \in watched \cup callbacks : w.run # r
  BY <1>1, <1>3, <1>5 DEF ModelsInv, Typed, TablesTyped
<1>7. FlowsOn(r) = {} /\ JobsOn(r) = {} /\ inHand.run # r
  BY <1>6, NotEngaged
<1>8. /\ \E g : FlowsOn(r)' = {g} /\ g.step = "created" /\ g.live
      /\ \A s \in RunIds : s # r => FlowsOn(s)' = FlowsOn(s)
  BY <1>6, <1>7, HandlerOpens
<1>9. PICK g : FlowsOn(r)' = {g} /\ g.step = "created" /\ g.live
  BY <1>8
<1>10. JobsOn(r)' = {} /\ ~Saving(r)' /\ ~Computing(r)'
  BY <1>1, <1>7, QueueStays DEF Saving, Computing
<1>11. InTable(r)' /\ selected # 0
  BY <1>1, <1>4, <1>6 DEF InTable, noRun, ModelsInv, Typed, TablesTyped
<1>12. Served(r)'
  <2>1. Alone(r)' /\ Phase(r)'
    BY <1>4, <1>6, <1>9, <1>10, <1>11 DEF Alone, Phase, RunInWork
  <2>2. op'[r] = noOp
    BY <1>1, <1>6
  <2>3. FreshBefore(r)' /\ Own(r)'
    BY <1>10, <2>2 DEF FreshBefore, Fresh, Own, noOp
  <2> QED  BY <2>1, <2>3 DEF Served
<1>13. Paged(r) /\ HeardOn(r) = {} /\ CallsOn(r) = {} /\ WatchedOn(r) = {}
  BY <1>6 DEF Kept, HeardOn, CallsOn, WatchedOn
<1>14. /\ shown' = shown /\ selected' = selected
       /\ ToldOn(r)' = ToldOn(r) /\ (Unanswered' <=> Unanswered)
       /\ WatchedOn(r)' = {} /\ CallsOn(r)' = {} /\ NewCallsOn(r)' = {} /\ HeardOn(r)' = {}
       /\ forsaken' = forsaken
  BY <1>1, <1>13, SeenOfPage DEF NewCallsOn
<1>15. r \notin forsaken =>
         /\ \A status \in ToldOn(r) : status = "absent"
         /\ shown[r] = "absent" \/ Unanswered
  <2>1. ~At(r, {"removed"})
    BY <1>7 DEF At
  <2> QED  BY <1>6, <1>13, <2>1 DEF Paged, Gone
<1>16. At(r, {"created"})' /\ At(r, {"enqueue", "started", "created"})'
  BY <1>9 DEF At
<1>17. Paged(r)'
  <2>1. Claims(r)' /\ Gone(r)' /\ Real(r)'
    BY <1>4, <1>6, <1>11, <1>14 DEF Claims, Gone, Real
  <2>2. Numbers(r)' /\ FollowedJob(r)'
    BY <1>9, <1>10, <1>14 DEF Numbers, FollowedJob
  <2>3. InWorkFollowed(r)'
    <3>1. r \notin forsaken' =>
            /\ \A status \in ToldOn(r)' : status \notin RunInWork
            /\ shown'[r] \notin RunInWork \/ Unanswered'
      BY <1>14, <1>15 DEF RunInWork
    <3>2. \A c \in NewCallsOn(r)' : FALSE
      BY <1>14
    <3> QED  BY <3>1, <3>2 DEF InWorkFollowed
  <2>4. OfSession(r)'
    BY <1>4, <1>6, <1>14, <1>16 DEF OfSession
  <2>5. Exact(r)'
    BY <1>14, <1>16 DEF Exact, Changing
  <2> QED  BY <2>1, <2>2, <2>3, <2>4, <2>5 DEF Paged
<1>18. \A s \in RunIds : s # r => FlowsOn(s)' = FlowsOn(s) /\ runs'[s] = runs[s] /\ op'[s] = op[s]
  BY <1>1, <1>6, <1>8
<1> QED
  BY <1>1, <1>12, <1>17, <1>18, RunKept

\* A run has no training when none is queued and none is in hand.
LEMMA NoJobs == \A r : JobsOn(r) = {} <=> ~InHand(r) /\ ~\E i \in DOMAIN modelJobs : Trains(i, r)
  BY DEF JobsOn

\* A job at the end of the queue is one of those of its run.
LEMMA JobAdded ==
  ASSUME ModelsInv, NEW j \in ModelJob, modelJobs' = Append(modelJobs, j), inHand' = inHand
  PROVE  /\ \A r : (Saving(r)' <=> Saving(r)) /\ (Computing(r)' <=> Computing(r)) /\ (InHand(r)' <=> InHand(r))
         /\ \E n : /\ DOMAIN modelJobs' = DOMAIN modelJobs \cup {n} /\ n \notin DOMAIN modelJobs
                   /\ \A r : \A i \in DOMAIN modelJobs : Trains(i, r)' <=> Trains(i, r)
                   /\ \A r : Trains(n, r)' <=> j.kind = "train" /\ j.run = r
         /\ \A r : JobsOn(r)' = IF j.kind = "train" /\ j.run = r THEN JobsOn(r) \cup {j.job} ELSE JobsOn(r)
<1>1. modelJobs \in Seq(ModelJob)
  BY DEF ModelsInv, Typed, QueueTyped
<1>2. PICK n \in Nat : n = Len(modelJobs) + 1
  BY <1>1
<1>3. /\ DOMAIN modelJobs' = DOMAIN modelJobs \cup {n} /\ n \notin DOMAIN modelJobs
      /\ \A i \in DOMAIN modelJobs : modelJobs'[i] = modelJobs[i]
      /\ modelJobs'[n] = j
  BY <1>1, <1>2
<1>4. \A r : (Saving(r)' <=> Saving(r)) /\ (Computing(r)' <=> Computing(r)) /\ (InHand(r)' <=> InHand(r))
  BY DEF Saving, Computing, InHand
<1>5. \A r : \A i \in DOMAIN modelJobs : Trains(i, r)' <=> Trains(i, r)
  BY <1>3 DEF Trains
<1>6. \A r : Trains(n, r)' <=> j.kind = "train" /\ j.run = r
  BY <1>3 DEF Trains
<1>7. ASSUME NEW r
      PROVE  JobsOn(r)' = IF j.kind = "train" /\ j.run = r THEN JobsOn(r) \cup {j.job} ELSE JobsOn(r)
  <2>1. \A k : k \in JobsOn(r) <=>
          \/ \E i \in DOMAIN modelJobs : Trains(i, r) /\ k = modelJobs[i].job
          \/ InHand(r) /\ k = inHand.job
    BY DEF JobsOn
  <2>2. \A k : k \in JobsOn(r)' <=>
          \/ \E i \in DOMAIN modelJobs' : Trains(i, r)' /\ k = modelJobs'[i].job
          \/ InHand(r)' /\ k = inHand'.job
    BY DEF JobsOn
  <2>3. \A k : k \in JobsOn(r)' <=> k \in JobsOn(r) \/ (j.kind = "train" /\ j.run = r /\ k = j.job)
    BY <1>3, <1>4, <1>5, <1>6, <2>1, <2>2
  <2> QED  BY <2>3
<1> QED
  BY <1>3, <1>4, <1>5, <1>6, <1>7

\* An operation is asked for when nothing else is under way for its run.
LEMMA PostOpKept ==
  ASSUME ModelsInv, Shape, Kept, ~collided', NEW q \in RunIds, NEW kind, PostOp(q, kind)
  PROVE  Kept'
<1> DEFINE j == [kind |-> "operation", run |-> q, job |-> 0]
           new == [kind |-> kind, model |-> 0]
<1>1. /\ op' = [op EXCEPT ![q] = new] /\ modelJobs' = Append(modelJobs, j) /\ InTable(q) /\ ~Engaged(q)
      /\ UNCHANGED <<sessions, runs, trained, inHand, pageView, flows, failures>>
  BY DEF PostOp, pageState, pageView
<1>2. j \in ModelJob /\ j.kind = "operation" /\ new.model = 0
  BY DEF ModelJob
<1> HIDE DEF j, new
<1>3. op'[q] = new /\ \A r \in RunIds : r # q => op'[r] = op[r]
  BY <1>1 DEF Shape
<1>4. FlowsOn(q) = {} /\ JobsOn(q) = {} /\ inHand.run # q
  BY <1>1, NotEngaged
<1>5. /\ \A r : (Saving(r)' <=> Saving(r)) /\ (Computing(r)' <=> Computing(r)) /\ (InHand(r)' <=> InHand(r))
      /\ \E n : /\ DOMAIN modelJobs' = DOMAIN modelJobs \cup {n} /\ n \notin DOMAIN modelJobs
                /\ \A r : \A i \in DOMAIN modelJobs : Trains(i, r)' <=> Trains(i, r)
                /\ \A r : ~Trains(n, r)'
      /\ \A r : JobsOn(r)' = JobsOn(r)
  BY <1>1, <1>2, JobAdded
<1>6. OneJob'
  <2>1. PICK n : /\ DOMAIN modelJobs' = DOMAIN modelJobs \cup {n} /\ n \notin DOMAIN modelJobs
                 /\ \A r : \A i \in DOMAIN modelJobs : Trains(i, r)' <=> Trains(i, r)
                 /\ \A r : ~Trains(n, r)'
    BY <1>5
  <2> QED  BY <1>5, <2>1 DEF Kept, OneJob
<1>7. /\ \A r \in RunIds : /\ FlowsOn(r)' = FlowsOn(r) /\ Telling(r)' = Telling(r)
                           /\ runs'[r] = runs[r] /\ (InTable(r)' <=> InTable(r))
      /\ inHand' = inHand /\ forsaken' = forsaken /\ unaware' = unaware
  BY <1>1, FlowsStay DEF Telling, InTable, pageView, watches
<1>8. ~Saving(q) /\ ~Computing(q) /\ ~At(q, {"reset", "resetting", "enqueue"})
  BY <1>4 DEF Saving, Computing, At
<1>9. Served(q)'
  <2>1. Served(q)
    BY DEF Kept
  <2>2. Alone(q)' /\ Phase(q)'
    BY <1>5, <1>7, <2>1 DEF Served, Alone, Phase, Lost, At
  <2>3. ~At(q, {"reset", "resetting", "enqueue"})'
    BY <1>4, <1>7 DEF At
  <2>4. FreshBefore(q)'
    <3>1. ASSUME InTable(q), runs[q].status # "finished"  PROVE runs[q].model = 0
      BY <1>8, <2>1, <3>1 DEF Served, Phase
    <3> QED  BY <1>2, <1>3, <1>5, <1>7, <1>8, <2>3, <3>1 DEF FreshBefore, Fresh
  <2>5. Own(q)'
    BY <1>2, <1>3, <1>5, <1>8 DEF Own
  <2> QED  BY <2>2, <2>4, <2>5 DEF Served
<1>10. ASSUME NEW r \in RunIds, r # q  PROVE Served(r)'
  <2>1. Served(r)
    BY DEF Kept
  <2> QED  BY <1>3, <1>5, <1>7, <1>10, <2>1, ServedStays
<1>11. \A r \in RunIds : Paged(r)'
  BY <1>1, <1>5, <1>7, OthersPaged
<1>12. Lists'
  BY <1>1, ListsKept DEF pageView, pageRuns
<1> QED
  BY <1>6, <1>9, <1>10, <1>11, <1>12 DEF Kept

\* A request of a handler is lost.
LEMMA FlowFailsKept ==
  ASSUME ModelsInv, Shape, Kept, NEW f \in flows, FlowFails(f)
  PROVE  Kept'
<1>1. /\ f.step \in {"operations", "reset", "enqueue", "delete"} /\ Ends(f)
      /\ UNCHANGED <<serverState, modelQueue, pageView>> /\ failures' = failures + 1
  BY DEF FlowFails, Fail, pageState, pageView
<1>2. failures \in Nat
  BY DEF Shape
<1>3. failures' # 0
  BY <1>1, <1>2
<1> QED
  BY <1>1, <1>3, EndsKept

\* The training that is enqueued is the last one of its run, and the page is
\* told its number.
LEMMA EnqueueRunKept ==
  ASSUME ModelsInv, Shape, Kept, NEW f \in flows, EnqueueRun(f)
  PROVE  Kept'
<1> DEFINE q == f.run
           j == [kind |-> "train", run |-> q, job |-> trained']
           row == [runs[q] EXCEPT !.status = "delivered"]
           g == [f EXCEPT !.step = "started", !.job = trained']
           G == IF f.live THEN {g} ELSE {}
<1>1. /\ f.step = "enqueue"
      /\ UNCHANGED <<sessions, op, inHand, pageView, failures>>
  BY DEF EnqueueRun, pageState, pageView, history
<1>2. /\ q \in RunIds /\ FlowsOn(q) = {f} /\ Served(q) /\ Paged(q) /\ JobsOn(q) = {} /\ ~Saving(q)
      /\ \A steps : At(q, steps) <=> f.step \in steps
  BY <1>1, InHandOf
<1>3. InTable(q) /\ runs[q].status = "idle" /\ runs[q].model = 0
  BY <1>1, <1>2 DEF Served, Phase
<1>4. /\ trained' = trained + 1 /\ modelJobs' = Append(modelJobs, j)
      /\ runs' = [runs EXCEPT ![q] = row] /\ flows' = (flows \ {f}) \cup G
  BY <1>2, <1>3 DEF EnqueueRun, ModelsInv, Typed, TablesTyped
<1>5. trained \in Nat /\ trained' \in Nat
  BY <1>4 DEF ModelsInv, Typed, TablesTyped
<1>6. j \in ModelJob /\ j.kind = "train" /\ j.run = q /\ j.job = trained'
  BY <1>2, <1>5 DEF ModelJob
<1>7. row.status = "delivered" /\ row.model = 0 /\ row.session = runs[q].session
  BY <1>2, <1>3 DEF ModelsInv, Typed, TablesTyped, RunRow
<1>8. g.step = "started" /\ g.run = q /\ g.job = trained' /\ g.live = f.live
  <2>1. f \in Flow
    BY DEF ModelsInv, Typed, PageTyped
  <2> DEFINE h == [f EXCEPT !.step = "started"]
  <2>2. h \in Flow /\ h.step = "started" /\ h.run = q /\ h.live = f.live
    BY <2>1 DEF Flow, Steps
  <2>3. g = [h EXCEPT !.job = trained']
    OBVIOUS
  <2> HIDE DEF g, h, q
  <2> QED  BY <2>2, <2>3 DEF Flow
<1> HIDE DEF j, row, g
<1>21. /\ forsaken' = forsaken /\ unaware' = unaware
       /\ f.live \/ (q \in forsaken' /\ unaware')
  <2>1. forsaken' = forsaken /\ unaware' = unaware
    BY <1>1, SeenOfPage
  <2>2. f.live \/ (q \in forsaken /\ unaware)
    BY <1>2 DEF Served, Alone, Shape, Aware
  <2> QED  BY <2>1, <2>2
<1>22. /\ G \subseteq {g} /\ \A h \in G : h.step = "started" /\ h.job = trained' /\ h.live /\ f.live
       /\ f.live => g \in G
  BY <1>8
<1>9. runs'[q] = row /\ \A r \in RunIds : r # q => runs'[r] = runs[r]
  BY <1>2, <1>4 DEF ModelsInv, Typed, TablesTyped
<1>10. InTable(q)'
  <2>1. runs'[q].status # noRun.status
    BY <1>7, <1>9 DEF noRun
  <2> QED  BY <2>1 DEF InTable
<1>11. FlowsOn(q)' = G /\ \A r \in RunIds : r # q => FlowsOn(r)' = FlowsOn(r)
  <2>1. CASE f.live
    BY <1>4, <1>8, <2>1, HandlerIsReplaced
  <2>2. CASE ~f.live
    <3>1. Ends(f)
      BY <1>4, <2>2 DEF Ends
    <3> QED  BY <2>2, <3>1, HandlerEnds
  <2> QED  BY <2>1, <2>2
<1> HIDE DEF G
<1>12. /\ \A r : (Saving(r)' <=> Saving(r)) /\ (Computing(r)' <=> Computing(r)) /\ (InHand(r)' <=> InHand(r))
       /\ \E n : /\ DOMAIN modelJobs' = DOMAIN modelJobs \cup {n} /\ n \notin DOMAIN modelJobs
                 /\ \A r : \A i \in DOMAIN modelJobs : Trains(i, r)' <=> Trains(i, r)
                 /\ \A r : Trains(n, r)' <=> q = r
       /\ \A r : JobsOn(r)' = IF q = r THEN JobsOn(r) \cup {trained'} ELSE JobsOn(r)
  BY <1>1, <1>4, <1>6, JobAdded
<1>13. OneJob'
  <2>1. PICK n : /\ DOMAIN modelJobs' = DOMAIN modelJobs \cup {n} /\ n \notin DOMAIN modelJobs
                 /\ \A r : \A i \in DOMAIN modelJobs : Trains(i, r)' <=> Trains(i, r)
                 /\ \A r : Trains(n, r)' <=> q = r
    BY <1>12
  <2>2. ~InHand(q) /\ ~\E i \in DOMAIN modelJobs : Trains(i, q)
    BY <1>2, NoJobs
  <2> QED  BY <1>12, <2>1, <2>2 DEF Kept, OneJob
<1>14. JobsOn(q)' = {trained'} /\ ~Saving(q)' /\ (Computing(q)' <=> Computing(q)) /\ inHand' = inHand
  BY <1>1, <1>2, <1>12
<1>15. \A steps : At(q, steps)' <=> f.live /\ "started" \in steps
  BY <1>11, <1>22 DEF At
<1>16. Served(q)'
  <2>1. Alone(q)' /\ Phase(q)'
    <3>1. runs'[q].session # 0
      BY <1>2, <1>3, <1>7, <1>9 DEF Served, Phase
    <3> QED  BY <1>7, <1>9, <1>10, <1>11, <1>14, <1>22, <3>1 DEF Alone, Phase, RunInWork
  <2>2. ~unaware => Fresh(q)
    BY <1>1, <1>2, <1>3 DEF Served, FreshBefore
  <2>3. FreshBefore(q)'
    BY <1>1, <1>7, <1>9, <1>14, <1>21, <2>2 DEF FreshBefore, Fresh
  <2>4. Own(q)'
    BY <1>1, <1>2, <1>3, <1>7, <1>9, <1>14, <1>21 DEF Served, Own
  <2> QED  BY <2>1, <2>3, <2>4 DEF Served
<1>17. /\ shown' = shown /\ selected' = selected
       /\ ToldOn(q)' = ToldOn(q) /\ (Unanswered' <=> Unanswered)
       /\ WatchedOn(q)' = WatchedOn(q) /\ CallsOn(q)' = CallsOn(q) /\ NewCallsOn(q)' = NewCallsOn(q)
       /\ HeardOn(q)' = HeardOn(q)
  BY <1>1, SeenOfPage DEF NewCallsOn
<1>18. Paged(q)'
  <2>1. Claims(q)' /\ Gone(q)'
    BY <1>10, <1>15, <1>21 DEF Claims, Gone
  <2>2. Numbers(q)' /\ FollowedJob(q)'
    <3>1. /\ WatchedOn(q) \subseteq Nat /\ HeardOn(q) \subseteq Nat /\ \A c \in CallsOn(q) : c.job \in Nat
      BY JobNumbers
    <3>2. \A k \in HeardOn(q) : k < trained' /\ k <= trained'
      BY <1>2, <1>4, <1>5, <3>1 DEF Paged, Numbers
    <3>3. /\ \A k \in WatchedOn(q) : k <= trained'
          /\ \A c \in CallsOn(q) : c.job < trained'
      BY <3>2 DEF HeardOn
    <3>4. trained' <= trained'
      BY <1>5
    <3>5. Numbers(q)'
      BY <1>11, <1>14, <1>17, <1>22, <3>2, <3>3, <3>4 DEF Numbers
    <3>6. FollowedJob(q)'
      BY <1>8, <1>11, <1>14, <1>21, <1>22 DEF FollowedJob
    <3> QED  BY <3>5, <3>6
  <2>3. InWorkFollowed(q)'
    BY <1>15, <1>21 DEF InWorkFollowed, Followed
  <2>4. OfSession(q)'
    BY <1>1, <1>2, <1>3, <1>7, <1>9, <1>17 DEF Paged, OfSession
  <2>5. Exact(q)'
    BY <1>15, <1>21 DEF Exact, Changing
  <2>6. Real(q)'
    BY <1>2, <1>17 DEF Paged, Real
  <2> QED  BY <2>1, <2>2, <2>3, <2>4, <2>5, <2>6 DEF Paged
<1>19. ASSUME NEW r \in RunIds, r # q  PROVE Served(r)' /\ Paged(r)'
  <2>1. FlowsOn(r)' = FlowsOn(r) /\ runs'[r] = runs[r] /\ op'[r] = op[r] /\ JobsOn(r)' = JobsOn(r)
    BY <1>1, <1>9, <1>11, <1>12, <1>19
  <2>2. Telling(r)' = Telling(r) /\ (InTable(r)' <=> InTable(r))
    BY <2>1 DEF Telling, InTable
  <2>3. Served(r)'
    BY <1>1, <1>12, <1>21, <2>1, ServedStays DEF Kept
  <2>4. Paged(r)'
    BY <1>1, <1>4, <2>1, <2>2, OthersPaged
  <2> QED  BY <2>3, <2>4
<1>20. Lists'
  BY <1>1, ListsKept DEF pageView, pageRuns
<1> QED
  BY <1>13, <1>16, <1>18, <1>19, <1>20 DEF Kept

\* The page is not told that a training has started.
LEMMA StartUnheardKept ==
  ASSUME ModelsInv, Shape, Kept, NEW f \in flows, StartUnheard(f)
  PROVE  Kept'
<1>1. PICK q \in RunIds : q = f.run
  BY DEF ModelsInv, Typed, PageTyped, Flow
<1>2. /\ f.step = "started" /\ Ends(f) /\ failures' = failures + 1
      /\ forsaken' = forsaken \cup {q} /\ unaware' = TRUE
      /\ UNCHANGED <<serverState, modelQueue, listed, selected, leaving, shown, answers, watched, callbacks>>
  BY <1>1 DEF StartUnheard, Fail, pageRuns
<1>3. FlowsOn(q) = {f} /\ FlowsOn(q)' = {} /\ \A r \in RunIds : r # q => FlowsOn(r)' = FlowsOn(r)
  BY <1>1, <1>2, HandlerEnds
<1>4. Served(q)' /\ Paged(q)
  BY <1>1, <1>2, DoneServed DEF Kept
<1>5. /\ \A r : WatchedOn(r)' = WatchedOn(r) /\ CallsOn(r)' = CallsOn(r)
      /\ JobsOn(q)' = JobsOn(q) /\ HeardOn(q)' = HeardOn(q) /\ ToldOn(q)' = ToldOn(q)
      /\ (Unanswered' <=> Unanswered)
  <2>1. \A r : WatchedOn(r)' = WatchedOn(r) /\ CallsOn(r)' = CallsOn(r)
    BY <1>2 DEF WatchedOn, CallsOn
  <2> QED  BY <1>2, <2>1, QueueStays, ListsStay DEF HeardOn
<1>6. UNCHANGED <<runs, trained>> /\ (InTable(q)' <=> InTable(q))
  BY <1>2 DEF serverState, InTable
<1>7. Paged(q)'
  <2>1. Claims(q)' /\ Exact(q)' /\ FollowedJob(q)' /\ InWorkFollowed(q)' /\ Gone(q)'
    BY <1>2 DEF Claims, Exact, FollowedJob, InWorkFollowed, Gone
  <2>2. Numbers(q)' /\ Real(q)'
    BY <1>3, <1>4, <1>5, <1>6 DEF Paged, Numbers, Real
  <2>3. ~At(q, {"created"})
    BY <1>2, <1>3 DEF At
  <2>4. OfSession(q)'
    BY <1>2, <1>4, <1>5, <1>6, <2>3 DEF Paged, OfSession
  <2> QED  BY <2>1, <2>2, <2>4 DEF Paged
<1>8. (failures' = 0 => failures = 0) /\ forsaken \ {q} \subseteq forsaken' /\ (unaware => unaware')
  BY <1>2 DEF Shape
<1>9. /\ answers' = answers /\ UNCHANGED <<serverState, modelQueue, listed, selected, leaving>>
      /\ \A r \in RunIds : r # q =>
           /\ FlowsOn(r)' = FlowsOn(r) /\ shown'[r] = shown[r]
           /\ WatchedOn(r)' = WatchedOn(r) /\ CallsOn(r)' = CallsOn(r)
  BY <1>2, <1>3, <1>5
<1> QED
  BY <1>4, <1>7, <1>8, <1>9, PageChanges

\* A row waits for a job that could not be put.
LEMMA EnqueueBreaksKept ==
  ASSUME ModelsInv, Shape, Kept, NEW f \in flows, EnqueueBreaks(f)
  PROVE  Kept'
<1>1. PICK q \in RunIds : q = f.run
  BY DEF ModelsInv, Typed, PageTyped, Flow
<1>2. /\ f.step = "enqueue" /\ InTable(q) /\ Ends(f) /\ failures' = failures + 1
      /\ runs' = [runs EXCEPT ![q].status = "delivered"]
      /\ forsaken' = forsaken \cup {q} /\ unaware' = TRUE
      /\ UNCHANGED <<sessions, op, trained, modelQueue, listed, selected, leaving, shown, answers,
                     watched, callbacks>>
  BY <1>1 DEF EnqueueBreaks, Fail, pageRuns
<1>3. /\ FlowsOn(q) = {f} /\ Served(q) /\ Paged(q) /\ JobsOn(q) = {} /\ ~Saving(q)
      /\ FlowsOn(q)' = {} /\ \A r \in RunIds : r # q => FlowsOn(r)' = FlowsOn(r)
  BY <1>1, <1>2, HandlerEnds, InHandOf
<1>4. runs[q].session # 0 /\ runs[q].model = 0
  BY <1>2, <1>3 DEF Served, Phase
<1>5. /\ \A r \in RunIds : r # q => runs'[r] = runs[r]
      /\ runs'[q].status = "delivered" /\ runs'[q].session = runs[q].session /\ runs'[q].model = 0
  BY <1>2, <1>4 DEF ModelsInv, Typed, TablesTyped, RunRow
<1>6. InTable(q)'
  BY <1>5 DEF InTable, noRun
<1>7. /\ \A r : WatchedOn(r)' = WatchedOn(r) /\ CallsOn(r)' = CallsOn(r) /\ ToldOn(r)' = ToldOn(r)
      /\ \A r : /\ JobsOn(r)' = JobsOn(r) /\ (Saving(r)' <=> Saving(r))
                /\ (Computing(r)' <=> Computing(r))
      /\ inHand' = inHand /\ OneJob' /\ HeardOn(q)' = HeardOn(q) /\ (Unanswered' <=> Unanswered)
  <2>1. \A r : WatchedOn(r)' = WatchedOn(r) /\ CallsOn(r)' = CallsOn(r)
    BY <1>2 DEF WatchedOn, CallsOn
  <2> QED  BY <1>2, <2>1, QueueStays, ListsStay DEF HeardOn, Kept
<1>8. Served(q)'
  <2>1. Lost(q)'
    BY <1>2, <1>3 DEF Lost, At
  <2>2. Alone(q)' /\ Phase(q)'
    BY <1>3, <1>4, <1>5, <1>6, <1>7, <2>1 DEF Alone, Phase
  <2>3. FreshBefore(q)' /\ Own(q)'
    BY <1>2 DEF FreshBefore, Own
  <2> QED  BY <2>2, <2>3 DEF Served
<1>9. Paged(q)'
  <2>1. Claims(q)' /\ Exact(q)' /\ FollowedJob(q)' /\ InWorkFollowed(q)' /\ Gone(q)'
    BY <1>2 DEF Claims, Exact, FollowedJob, InWorkFollowed, Gone
  <2>2. Numbers(q)' /\ Real(q)'
    BY <1>2, <1>3, <1>7 DEF Paged, Numbers, Real
  <2>3. ~At(q, {"created"})
    BY <1>2, <1>3 DEF At
  <2>4. OfSession(q)'
    BY <1>2, <1>3, <1>5, <1>7, <2>3 DEF Paged, OfSession
  <2> QED  BY <2>1, <2>2, <2>4 DEF Paged
<1>10. (failures' = 0 => failures = 0) /\ forsaken \ {q} \subseteq forsaken' /\ (unaware => unaware')
  BY <1>2 DEF Shape
<1>11. \A r \in RunIds : r # q =>
         /\ FlowsOn(r)' = FlowsOn(r) /\ JobsOn(r)' = JobsOn(r) /\ runs'[r] = runs[r] /\ op'[r] = op[r]
         /\ (Saving(r)' <=> Saving(r)) /\ (Computing(r)' <=> Computing(r))
         /\ Computing(r) => inHand'.model = inHand.model
         /\ shown'[r] = shown[r] /\ ToldOn(r)' \subseteq ToldOn(r)
         /\ WatchedOn(r)' = WatchedOn(r) /\ CallsOn(r)' = CallsOn(r)
  BY <1>2, <1>3, <1>5, <1>7
<1>12. selected' = selected /\ trained' \in {trained, trained + 1}
  BY <1>2
<1>13. Lists'
  BY <1>2, <1>10, ListsKept
<1> QED
  BY <1>7, <1>8, <1>9, <1>10, <1>11, <1>12, <1>13, OneRunKept

-----------------------------------------------------------------------------
(* The consumer *)

\* It touches one run, and nothing of the page.
LEMMA ConsumerKept ==
  ASSUME ModelsInv, Shape, Kept, NEW q \in RunIds, UNCHANGED <<flows, pageView, sessions, trained, failures>>,
         \A r \in RunIds : r # q =>
           /\ runs'[r] = runs[r] /\ op'[r] = op[r] /\ JobsOn(r)' = JobsOn(r)
           /\ ~Saving(r) /\ ~Computing(r) /\ ~Saving(r)' /\ ~Computing(r)',
         OneJob', Served(q)', Paged(q)'
  PROVE  Kept'
<1>1. ASSUME NEW r \in RunIds, r # q  PROVE Served(r)' /\ Paged(r)'
  <2>1. FlowsOn(r)' = FlowsOn(r) /\ Telling(r)' = Telling(r)
    BY FlowsStay DEF Telling
  <2>2. InTable(r)' <=> InTable(r)
    BY <1>1 DEF InTable
  <2>5. forsaken' = forsaken /\ unaware' = unaware
    BY SeenOfPage
  <2>3. Served(r)'
    BY <1>1, <2>1, <2>5, ServedStays DEF Kept
  <2>4. Paged(r)'
    BY <1>1, <2>1, <2>2, OthersPaged
  <2> QED  BY <2>3, <2>4
<1>2. Lists'
  BY ListsKept DEF pageView, pageRuns
<1> QED
  BY <1>1, <1>2 DEF Kept

\* The page need not know how far a training is: it will be told.
LEMMA StatusUnseen ==
  ASSUME ModelsInv, Shape, Kept, NEW q \in RunIds, NEW j \in JobsOn(q), JobsOn(q)' \subseteq JobsOn(q),
         UNCHANGED <<flows, pageView, trained>>, InTable(q)', runs'[q].session = runs[q].session,
         failures' = failures
  PROVE  Paged(q)'
<1>1. Served(q) /\ Paged(q)
  BY DEF Kept
<1>2. InTable(q) /\ runs[q].status \in RunInWork
  BY <1>1 DEF Served, Phase
<1>3. /\ FlowsOn(q)' = FlowsOn(q)
      /\ shown' = shown /\ selected' = selected
      /\ ToldOn(q)' = ToldOn(q) /\ (Unanswered' <=> Unanswered)
      /\ WatchedOn(q)' = WatchedOn(q) /\ CallsOn(q)' = CallsOn(q) /\ NewCallsOn(q)' = NewCallsOn(q)
      /\ HeardOn(q)' = HeardOn(q) /\ (\A k : Later(q, k)' <=> Later(q, k))
      /\ forsaken' = forsaken /\ unaware' = unaware
  BY FlowsStay, SeenOfPage
<1>4. \A steps : At(q, steps)' <=> At(q, steps)
  BY <1>3 DEF At
<1>5. Claims(q)'
  <2>1. \A status : Says(q, status)' <=> Says(q, status)
    BY <1>3 DEF Says
  <2>2. ~unaware /\ (Says(q, "idle") \/ Says(q, "error")) => At(q, {"started"})
    BY <1>1, <1>2 DEF Paged, Claims, RunInWork
  <2> QED  BY <1>3, <1>4, <2>1, <2>2 DEF Claims
<1>6. Numbers(q)' /\ FollowedJob(q)'
  BY <1>1, <1>3 DEF Paged, Numbers, FollowedJob
<1>7. InWorkFollowed(q)'
  <2>1. Followed(q)' <=> Followed(q)
    BY <1>3, <1>4 DEF Followed
  <2> QED  BY <1>1, <1>2, <1>3, <1>4, <2>1 DEF Paged, InWorkFollowed
<1>8. Gone(q)' /\ Real(q)'
  BY <1>1, <1>3 DEF Paged, Gone, Real
<1>9. OfSession(q)'
  BY <1>1, <1>2, <1>3, <1>4 DEF Paged, OfSession
<1>10. Exact(q)'
  <2> SUFFICES ASSUME failures = 0, ~unaware  PROVE Exact(q)'
    BY <1>3 DEF Exact
  <2>5. q \in RunIds \ forsaken
    BY DEF Shape, Aware
  <2>1. At(q, {"started"}) \/ j \in HeardOn(q)
    BY <1>1, <2>5, JobIsFollowed
  <2>2. Changing(q)'
    BY <1>3, <1>4, <2>1 DEF Changing, At
  <2>3. \A c \in CallsOn(q) : At(q, {"enqueue", "started"})' \/ Later(q, c.job)'
    <3>1. \A c \in CallsOn(q) : c.job < j /\ c.job \in Nat /\ j \in Nat
      BY <1>1, JobNumbers DEF Paged, Numbers
    <3> QED  BY <1>3, <1>4, <2>1, <3>1 DEF Later, At
  <2>4. \A c \in NewCallsOn(q)' : c \in CallsOn(q)
    BY <1>3 DEF NewCallsOn
  <2> QED  BY <2>2, <2>3, <2>4 DEF Exact
<1> QED
  BY <1>5, <1>6, <1>7, <1>8, <1>9, <1>10 DEF Paged

\* The run in the consumer's hands is the only one whose training it runs.
LEMMA InConsumer ==
  ASSUME ModelsInv, Shape, Kept, inHand.kind \in {"train", "saved"}
  PROVE  /\ inHand.run \in RunIds /\ Served(inHand.run) /\ JobsOn(inHand.run) = {inHand.job}
         /\ InTable(inHand.run) /\ runs[inHand.run].status \in RunInWork
         /\ ~Computing(inHand.run) /\ (Saving(inHand.run) <=> inHand.kind = "saved")
         /\ \A i \in DOMAIN modelJobs : ~Trains(i, inHand.run)
         /\ ~At(inHand.run, {"reset", "resetting", "enqueue"}) /\ ~At(inHand.run, {"removing"})
         /\ \A f \in FlowsOn(inHand.run) : f.step = "started"
<1>1. inHand.run \in RunIds
  BY DEF ModelsInv, Typed, QueueTyped
<1>2. \A i \in DOMAIN modelJobs : ~Trains(i, inHand.run)
  BY <1>1 DEF Kept, OneJob, InHand
<1>3. JobsOn(inHand.run) = {inHand.job}
  BY <1>2 DEF JobsOn, InHand
<1>4. Served(inHand.run)
  BY <1>1 DEF Kept
<1>5. /\ InTable(inHand.run) /\ runs[inHand.run].status \in RunInWork
      /\ \A f \in FlowsOn(inHand.run) : f.step = "started"
  BY <1>3, <1>4 DEF Served, Phase
<1>6. ~At(inHand.run, {"reset", "resetting", "enqueue"}) /\ ~At(inHand.run, {"removing"})
  BY <1>5 DEF At
<1>7. ~Computing(inHand.run) /\ (Saving(inHand.run) <=> inHand.kind = "saved")
  BY DEF Computing, Saving
<1> QED
  BY <1>1, <1>2, <1>3, <1>4, <1>5, <1>6, <1>7

\* The model is saved; nothing was computed with the one before.
LEMMA SaveModelKept ==
  ASSUME ModelsInv, Shape, Kept, SaveModel
  PROVE  Kept'
<1>0. PICK q \in RunIds : q = inHand.run
  BY InConsumer DEF SaveModel
<1>1. /\ inHand.kind = "train" /\ inHand' = [inHand EXCEPT !.kind = "saved"]
      /\ runs' = [runs EXCEPT ![q].model = inHand.job]
      /\ UNCHANGED <<sessions, op, trained, modelJobs, flows, pageView, failures>>
  BY <1>0 DEF SaveModel, pageState, pageView, history
<1>2. /\ Served(q) /\ JobsOn(q) = {inHand.job} /\ InTable(q) /\ runs[q].status \in RunInWork
      /\ ~Computing(q) /\ ~Saving(q) /\ \A i \in DOMAIN modelJobs : ~Trains(i, q)
      /\ ~At(q, {"reset", "resetting", "enqueue"}) /\ ~At(q, {"removing"})
      /\ \A f \in FlowsOn(q) : f.step = "started"
  BY <1>0, <1>1, InConsumer
<1>3. inHand'.kind = "saved" /\ inHand'.run = q /\ inHand'.job = inHand.job
  BY <1>0, <1>1 DEF ModelsInv, Typed, QueueTyped
<1>4. /\ \A r \in RunIds : r # q => runs'[r] = runs[r]
      /\ runs'[q].status = runs[q].status /\ runs'[q].session = runs[q].session
      /\ runs'[q].model = inHand.job
  BY <1>1 DEF ModelsInv, Typed, TablesTyped, RunRow
<1>5. \A r : (InHand(r)' <=> InHand(r)) /\ \A i : Trains(i, r)' <=> Trains(i, r)
  BY <1>0, <1>1, <1>3 DEF InHand, Trains
<1>6. OneJob' /\ \A r : JobsOn(r)' = JobsOn(r)
  <2>1. OneJob'
    BY <1>1, <1>5 DEF Kept, OneJob
  <2>2. modelJobs' = modelJobs /\ inHand'.job = inHand.job
    BY <1>1, <1>3
  <2> QED  BY <1>5, <2>1, <2>2 DEF JobsOn
<1>7. \A r \in RunIds : r # q => ~Saving(r) /\ ~Computing(r) /\ ~Saving(r)' /\ ~Computing(r)'
  BY <1>0, <1>3 DEF Saving, Computing
<1>8. Saving(q)' /\ ~Computing(q)'
  BY <1>3 DEF Saving, Computing
<1>9. InTable(q)'
  BY <1>2, <1>4 DEF InTable, noRun, Served, Phase
<1>10. FlowsOn(q)' = FlowsOn(q) /\ forsaken' = forsaken /\ unaware' = unaware
  BY <1>1, FlowsStay, SeenOfPage
<1>11. Served(q)'
  <2>1. Alone(q)' /\ Phase(q)'
    BY <1>2, <1>4, <1>6, <1>8, <1>9, <1>10 DEF Served, Alone, Phase
  <2>2. ~unaware => op[q].model = 0
    BY <1>2 DEF Served, FreshBefore, Fresh, noOp, RunInWork
  <2>3. ~At(q, {"reset", "resetting", "enqueue"})'
    BY <1>2, <1>10 DEF At
  <2>4. FreshBefore(q)' /\ Own(q)'
    BY <1>1, <1>8, <1>10, <2>2, <2>3 DEF FreshBefore, Own
  <2> QED  BY <2>1, <2>4 DEF Served
<1>12. Paged(q)'
  BY <1>1, <1>2, <1>4, <1>6, <1>9, StatusUnseen
<1> QED
  BY <1>1, <1>4, <1>6, <1>7, <1>11, <1>12, ConsumerKept

\* A training that ends has saved its model, or has none.
LEMMA TrainingEndsKept ==
  ASSUME ModelsInv, Shape, Kept, TrainingEnds
  PROVE  Kept'
<1>0. PICK q \in RunIds : q = inHand.run
  BY InConsumer DEF TrainingEnds
<1> DEFINE status == IF inHand.kind = "saved" THEN "finished" ELSE "error"
<1>1. /\ inHand.kind \in {"train", "saved"} /\ inHand' = noWork
      /\ UNCHANGED <<sessions, op, trained, modelJobs, flows, pageView, failures>>
  BY DEF TrainingEnds, pageState, pageView, history
<1>2. /\ Served(q) /\ JobsOn(q) = {inHand.job} /\ InTable(q) /\ runs[q].status \in RunInWork
      /\ ~Computing(q) /\ (Saving(q) <=> inHand.kind = "saved") /\ \A i \in DOMAIN modelJobs : ~Trains(i, q)
      /\ ~At(q, {"reset", "resetting", "enqueue"}) /\ ~At(q, {"removing"})
      /\ \A f \in FlowsOn(q) : f.step = "started"
  BY <1>0, <1>1, InConsumer
<1>3. runs' = [runs EXCEPT ![q].status = status]
  BY <1>0, <1>2 DEF TrainingEnds
<1>4. /\ \A r \in RunIds : r # q => runs'[r] = runs[r]
      /\ runs'[q].status = status /\ runs'[q].session = runs[q].session
      /\ runs'[q].model = runs[q].model
  BY <1>3 DEF ModelsInv, Typed, TablesTyped, RunRow
<1>5. \A r : ~InHand(r)' /\ ~Saving(r)' /\ ~Computing(r)' /\ \A i : Trains(i, r)' <=> Trains(i, r)
  BY <1>1 DEF InHand, Saving, Computing, Trains, noWork
<1>6. OneJob'
  BY <1>1, <1>5 DEF Kept, OneJob
<1>7. \A r \in RunIds : r # q => ~Saving(r) /\ ~Computing(r) /\ JobsOn(r)' = JobsOn(r)
  <2>1. \A r \in RunIds : r # q => ~Saving(r) /\ ~Computing(r) /\ ~InHand(r)
    BY <1>0 DEF Saving, Computing, InHand
  <2> QED  BY <1>1, <1>5, <2>1 DEF JobsOn
<1>8. JobsOn(q)' = {}
  BY <1>1, <1>2, <1>5 DEF JobsOn
<1>9. InTable(q)'
  BY <1>2, <1>4 DEF InTable, noRun, Served, Phase
<1>10. FlowsOn(q)' = FlowsOn(q) /\ forsaken' = forsaken /\ unaware' = unaware
  BY <1>1, FlowsStay, SeenOfPage
<1>11. status \in {"finished", "error"} /\ (status = "finished" <=> Saving(q))
  BY <1>2
<1> HIDE DEF status
<1>12. Served(q)'
  <2>1. Alone(q)'
    BY <1>2, <1>10 DEF Served, Alone
  <2>2. Phase(q)'
    BY <1>2, <1>4, <1>5, <1>8, <1>9, <1>10, <1>11 DEF Served, Phase, RunInWork
  <2>3. ~At(q, {"reset", "resetting", "enqueue"})'
    BY <1>2, <1>10 DEF At
  <2>4. ~unaware /\ status = "error" => Fresh(q)
    BY <1>2, <1>11 DEF Served, FreshBefore, RunInWork
  <2>5. FreshBefore(q)'
    BY <1>1, <1>4, <1>5, <1>10, <1>11, <2>3, <2>4 DEF FreshBefore, Fresh
  <2>6. Own(q)'
    BY <1>1, <1>2, <1>4, <1>5, <1>10 DEF Served, Own
  <2> QED  BY <2>1, <2>2, <2>5, <2>6 DEF Served
<1>13. Paged(q)'
  BY <1>1, <1>2, <1>4, <1>8, <1>9, StatusUnseen
<1> QED
  BY <1>1, <1>4, <1>5, <1>6, <1>7, <1>12, <1>13, ConsumerKept

\* An operation that ends was computed with the model that the run has.
LEMMA OperationEndsKept ==
  ASSUME ModelsInv, Shape, Kept, OperationEnds
  PROVE  Kept'
<1>0. PICK q \in RunIds : q = inHand.run
  BY DEF OperationEnds, Shape
<1> DEFINE new == [op[q] EXCEPT !.model = inHand.model]
<1>1. /\ inHand.kind = "operation" /\ inHand' = noWork
      /\ op' = IF op[q] # noOp THEN [op EXCEPT ![q] = new] ELSE op
      /\ UNCHANGED <<sessions, runs, trained, modelJobs, flows, pageView, failures>>
  BY <1>0 DEF OperationEnds, pageState, pageView, history, Shape
<1>2. new.model = inHand.model
  BY DEF Shape, OpRow
<1> HIDE DEF new
<1>3. op'[q] = (IF op[q] # noOp THEN new ELSE op[q]) /\ \A r \in RunIds : r # q => op'[r] = op[r]
  BY <1>1 DEF Shape
<1>4. /\ Computing(q) /\ \A r : ~InHand(r) /\ ~Saving(r) /\ ~InHand(r)' /\ ~Saving(r)' /\ ~Computing(r)'
      /\ \A r : \A i : Trains(i, r)' <=> Trains(i, r)
      /\ \A r \in RunIds : r # q => ~Computing(r)
  BY <1>0, <1>1 DEF InHand, Saving, Computing, Trains, noWork
<1>5. OneJob' /\ \A r : JobsOn(r)' = JobsOn(r)
  BY <1>1, <1>4 DEF Kept, OneJob, JobsOn
<1>6. \A r : FlowsOn(r)' = FlowsOn(r) /\ Telling(r)' = Telling(r)
  BY <1>1, FlowsStay DEF Telling
<1>7. Served(q) /\ (InTable(q)' <=> InTable(q)) /\ runs'[q] = runs[q]
  BY <1>1 DEF Kept, InTable
<1>11. forsaken' = forsaken /\ unaware' = unaware
  BY <1>1, SeenOfPage
<1>8. \A steps : At(q, steps)' <=> At(q, steps)
  BY <1>6 DEF At
<1>9. Served(q)'
  <2>1. Alone(q)' /\ Phase(q)'
    BY <1>4, <1>5, <1>6, <1>7, <1>8, <1>11 DEF Served, Alone, Phase, Lost
  <2>2. Fresh(q) => Fresh(q)'
    BY <1>3, <1>4 DEF Fresh
  <2>3. FreshBefore(q)'
    BY <1>4, <1>7, <1>8, <1>11, <2>2 DEF Served, FreshBefore
  <2>4. Own(q)'
    BY <1>2, <1>3, <1>4, <1>7, <1>8, <1>11 DEF Served, Own
  <2> QED  BY <2>1, <2>3, <2>4 DEF Served
<1>10. Paged(q)'
  BY <1>1, <1>5, <1>6, <1>7, OthersPaged
<1> QED
  BY <1>1, <1>3, <1>4, <1>5, <1>9, <1>10, ConsumerKept

\* A job that the consumer takes is no longer queued.
LEMMA FirstTaken ==
  ASSUME ModelsInv, modelJobs # <<>>, modelJobs' = Tail(modelJobs)
  PROVE  /\ 1 \in DOMAIN modelJobs /\ Head(modelJobs) = modelJobs[1] /\ Head(modelJobs) \in ModelJob
         /\ \A i \in DOMAIN modelJobs' : /\ i + 1 \in DOMAIN modelJobs /\ i + 1 # 1
                                         /\ modelJobs'[i] = modelJobs[i + 1]
         /\ \A i, k \in DOMAIN modelJobs' : i + 1 = k + 1 => i = k
         /\ \A i \in DOMAIN modelJobs :
              i = 1 \/ \E k \in DOMAIN modelJobs' : k + 1 = i /\ modelJobs'[k] = modelJobs[i]
<1>1. modelJobs \in Seq(ModelJob)
  BY DEF ModelsInv, Typed, QueueTyped
<1>2. /\ Len(modelJobs) \in Nat \ {0} /\ DOMAIN modelJobs = 1..Len(modelJobs)
      /\ DOMAIN modelJobs' = 1..(Len(modelJobs) - 1)
      /\ \A i \in DOMAIN modelJobs' : modelJobs'[i] = modelJobs[i + 1]
      /\ Head(modelJobs) = modelJobs[1] /\ Head(modelJobs) \in ModelJob
  BY <1>1
<1>3. \A i \in DOMAIN modelJobs :
        i = 1 \/ \E k \in DOMAIN modelJobs' : k + 1 = i /\ modelJobs'[k] = modelJobs[i]
  <2> SUFFICES ASSUME NEW i \in DOMAIN modelJobs, i # 1
               PROVE  \E k \in DOMAIN modelJobs' : k + 1 = i /\ modelJobs'[k] = modelJobs[i]
    OBVIOUS
  <2>1. i - 1 \in DOMAIN modelJobs' /\ (i - 1) + 1 = i
    BY <1>2
  <2> QED  BY <1>2, <2>1
<1> QED
  BY <1>2, <1>3

\* The consumer starts a training of a run that is there, or an operation
\* with the model that its run has.
LEMMA TakeModelJobKept ==
  ASSUME ModelsInv, Shape, Kept, TakeModelJob
  PROVE  Kept'
<1>1. /\ modelJobs # <<>> /\ inHand = noWork /\ modelJobs' = Tail(modelJobs)
      /\ UNCHANGED <<sessions, op, trained, flows, pageView, failures>>
  BY DEF TakeModelJob, pageState, pageView, history
<1>2. PICK j \in ModelJob : j = Head(modelJobs)
  BY <1>1, FirstTaken
<1>3. PICK q \in RunIds : q = j.run
  BY DEF ModelJob
<1>4. /\ 1 \in DOMAIN modelJobs /\ j = modelJobs[1]
      /\ \A i \in DOMAIN modelJobs' : /\ i + 1 \in DOMAIN modelJobs /\ i + 1 # 1
                                      /\ modelJobs'[i] = modelJobs[i + 1]
      /\ \A i, k \in DOMAIN modelJobs' : i + 1 = k + 1 => i = k
      /\ \A i \in DOMAIN modelJobs :
           i = 1 \/ \E k \in DOMAIN modelJobs' : k + 1 = i /\ modelJobs'[k] = modelJobs[i]
  BY <1>1, <1>2, FirstTaken
<1>5. \A i \in DOMAIN modelJobs' : \A r : Trains(i, r)' <=> Trains(i + 1, r)
  BY <1>4 DEF Trains
<1>6. \A r : ~InHand(r) /\ ~Saving(r) /\ ~Computing(r)
  BY <1>1 DEF InHand, Saving, Computing, noWork
<1>7. \A r : FlowsOn(r)' = FlowsOn(r) /\ Telling(r)' = Telling(r)
  BY <1>1, FlowsStay DEF Telling
<1>12. forsaken' = forsaken /\ unaware' = unaware
  BY <1>1, SeenOfPage
<1>8. Served(q) /\ Paged(q) /\ OneJob
  BY DEF Kept
<1>9. \A r \in RunIds : \A i, k \in DOMAIN modelJobs' : Trains(i, r)' /\ Trains(k, r)' => i = k
  <2> SUFFICES ASSUME NEW r \in RunIds, NEW i \in DOMAIN modelJobs', NEW k \in DOMAIN modelJobs',
                      Trains(i, r)', Trains(k, r)'
               PROVE  i = k
    OBVIOUS
  <2>1. Trains(i + 1, r) /\ Trains(k + 1, r)
    BY <1>5
  <2> QED  BY <1>4, <1>8, <2>1 DEF OneJob
<1> DEFINE Rest(r) == {modelJobs'[i].job : i \in {k \in DOMAIN modelJobs' : Trains(k, r)'}}
<1>10. ASSUME NEW r  PROVE JobsOn(r) = Rest(r) \cup {n \in {j.job} : Trains(1, r)}
  <2>1. JobsOn(r) = {modelJobs[i].job : i \in {k \in DOMAIN modelJobs : Trains(k, r)}}
    BY <1>6 DEF JobsOn
  <2>2. \A i \in DOMAIN modelJobs :
          Trains(i, r) => modelJobs[i].job \in Rest(r) \/ (i = 1 /\ modelJobs[i].job = j.job)
    BY <1>4, <1>5
  <2>3. \A n \in Rest(r) : \E i \in DOMAIN modelJobs : Trains(i, r) /\ n = modelJobs[i].job
    BY <1>4, <1>5
  <2> HIDE DEF Rest
  <2> QED  BY <1>4, <2>1, <2>2, <2>3
<1>11. \A r : JobsOn(r)' = Rest(r) \cup {n \in {inHand'.job} : InHand(r)'}
  BY DEF JobsOn
<1> HIDE DEF Rest
<1>13. \A r : Trains(1, r) <=> j.kind = "train" /\ j.run = r
  BY <1>4 DEF Trains
<1>14. CASE j.kind = "train"
  <2>1. j.job \in JobsOn(q)
    BY <1>3, <1>4, <1>10, <1>13, <1>14
  <2>2. InTable(q) /\ runs[q].status \in RunInWork /\ \A f \in FlowsOn(q) : f.step = "started"
    BY <1>8, <2>1 DEF Served, Phase
  <2> DEFINE work == [kind |-> "train", run |-> q, job |-> j.job, model |-> 0]
  <2>3. inHand' = work /\ runs' = [runs EXCEPT ![q].status = "started"]
    BY <1>2, <1>3, <1>14, <2>2 DEF TakeModelJob
  <2>4. work.kind = "train" /\ work.run = q /\ work.job = j.job
    OBVIOUS
  <2> HIDE DEF work
  <2>5. /\ \A r \in RunIds : r # q => runs'[r] = runs[r]
        /\ runs'[q].status = "started" /\ runs'[q].session = runs[q].session
        /\ runs'[q].model = runs[q].model
    BY <2>3 DEF ModelsInv, Typed, TablesTyped, RunRow
  <2>6. InTable(q)'
    BY <1>8, <2>2, <2>5 DEF InTable, noRun, Served, Phase
  <2>7. \A r : ~Saving(r)' /\ ~Computing(r)' /\ (InHand(r)' <=> r = q)
    BY <2>3, <2>4 DEF Saving, Computing, InHand
  <2>8. \A r : JobsOn(r)' = JobsOn(r)
    <3> SUFFICES ASSUME NEW r  PROVE JobsOn(r)' = JobsOn(r)
      OBVIOUS
    <3>1. Trains(1, r) <=> r = q
      BY <1>3, <1>13, <1>14
    <3>2. inHand'.job = j.job
      BY <2>3, <2>4
    <3> QED  BY <1>10, <1>11, <2>7, <3>1, <3>2
  <2>9. OneJob'
    <3>1. \A i \in DOMAIN modelJobs' : ~Trains(i, q)'
      <4> SUFFICES ASSUME NEW i \in DOMAIN modelJobs', Trains(i, q)'  PROVE FALSE
        OBVIOUS
      <4>1. Trains(i + 1, q) /\ Trains(1, q)
        BY <1>3, <1>5, <1>13, <1>14
      <4> QED  BY <1>4, <1>8, <4>1 DEF OneJob
    <3> QED  BY <1>9, <2>7, <3>1 DEF OneJob
  <2>10. Served(q)'
    <3>1. Alone(q)' /\ Phase(q)'
      <4>1. Alone(q)'
        BY <1>7, <1>8, <1>12 DEF Served, Alone
      <4>2. JobsOn(q)' # {} /\ runs'[q].status = "started" /\ ~Saving(q) /\ ~Saving(q)'
        BY <1>6, <2>1, <2>5, <2>7, <2>8
      <4>3. \A f \in FlowsOn(q)' : f.step = "started"
        BY <1>7, <2>2
      <4>4. runs[q].session # 0 /\ runs[q].model = 0
        BY <1>8, <2>2, <4>2 DEF Served, Phase, RunInWork
      <4> QED  BY <2>5, <2>6, <4>1, <4>2, <4>3, <4>4 DEF Phase, RunInWork
    <3>2. ~unaware => Fresh(q)
      BY <1>6, <1>8, <2>2 DEF Served, FreshBefore, RunInWork
    <3>3. FreshBefore(q)'
      BY <1>1, <1>12, <2>5, <2>7, <3>2 DEF FreshBefore, Fresh
    <3>4. Own(q)'
      BY <1>1, <1>8, <1>12, <2>2, <2>5, <2>7 DEF Served, Own, At
    <3> QED  BY <3>1, <3>3, <3>4 DEF Served
  <2>11. Paged(q)'
    BY <1>1, <2>1, <2>5, <2>6, <2>8, StatusUnseen
  <2> QED  BY <1>1, <1>6, <2>5, <2>7, <2>8, <2>9, <2>10, <2>11, ConsumerKept
<1>15. CASE j.kind # "train"
  <2>1. runs' = runs /\ (InTable(q)' <=> InTable(q))
    BY <1>2, <1>15 DEF TakeModelJob, InTable
  <2>2. \/ inHand' = noWork
        \/ /\ inHand' = [kind |-> "operation", run |-> q, job |-> 0, model |-> runs[q].model]
           /\ op[q] # noOp /\ runs[q].model # 0
    BY <1>2, <1>3, <1>15 DEF TakeModelJob
  <2>3. \A r : ~Saving(r)' /\ ~InHand(r)' /\ (r # q => ~Computing(r)')
    BY <2>2 DEF Saving, Computing, InHand, noWork
  <2>4. Computing(q)' => op[q] # noOp /\ runs[q].model # 0 /\ inHand'.model = runs[q].model
    BY <2>2 DEF Computing, noWork
  <2>5. \A r : JobsOn(r)' = JobsOn(r)
    <3> SUFFICES ASSUME NEW r  PROVE JobsOn(r)' = JobsOn(r)
      OBVIOUS
    <3>1. ~Trains(1, r)
      BY <1>13, <1>15
    <3> QED  BY <1>10, <1>11, <2>3, <3>1
  <2>6. OneJob'
    BY <1>9, <2>3 DEF OneJob
  <2>7. \A steps : At(q, steps)' <=> At(q, steps)
    BY <1>7 DEF At
  <2>8. Served(q)'
    <3>1. Alone(q)' /\ Phase(q)'
      BY <1>6, <1>7, <1>8, <1>12, <2>1, <2>3, <2>5, <2>7 DEF Served, Alone, Phase, Lost
    <3>2. Fresh(q) => Fresh(q)'
      BY <1>1, <2>1, <2>4 DEF Fresh
    <3>3. FreshBefore(q)'
      BY <1>6, <1>8, <1>12, <2>1, <2>3, <2>7, <3>2 DEF Served, FreshBefore
    <3>4. Own(q)'
      BY <1>1, <1>8, <1>12, <2>1, <2>4, <2>7 DEF Served, Own
    <3> QED  BY <3>1, <3>3, <3>4 DEF Served
  <2>9. Paged(q)'
    BY <1>1, <1>7, <2>1, <2>5, OthersPaged
  <2> QED  BY <1>1, <1>6, <2>1, <2>3, <2>5, <2>6, <2>8, <2>9, ConsumerKept
<1> QED
  BY <1>14, <1>15

-----------------------------------------------------------------------------
(* What was clean before stays as it is, or no longer has to.              *)

\* Work that met other work is never forgotten, ...
LEMMA StaysClean == [ModelsPageNext]_modelsPageVars /\ ~collided' => ~collided
<1> SUFFICES ASSUME [ModelsPageNext]_modelsPageVars, ~collided'  PROVE ~collided
  OBVIOUS
<1>1. ASSUME NEW s \in 0..MaxSessions, SelectSession(s) \/ DeleteSession(s) \/ SessionDeleted(s)  PROVE ~collided
  BY <1>1 DEF SelectSession, DeleteSession, SessionDeleted, history
<1>2. CASE CreateSession \/ PostRun \/ ListOfRunsArrives \/ AnswerLost \/ ConfirmRetrain \/ CancelRetrain
           \/ Remount
  BY <1>2 DEF CreateSession, PostRun, ListOfRunsArrives, AnswerLost, ConfirmRetrain, CancelRetrain, Remount, history
<1>3. ASSUME NEW r \in RunIds, DeleteRun(r) \/ TrainRun(r) \/ \E kind : PostOp(r, kind)  PROVE ~collided
  BY <1>3 DEF DeleteRun, TrainRun, PostOp
<1>4. ASSUME NEW f \in flows, HandlerStep(f) \/ CountFails(f) \/ FlowFails(f)  PROVE ~collided
  BY <1>4 DEF HandlerStep, RunCreated, RunRemoved, TrainingStarted, OperationsCounted, DeleteOperations,
     EnqueueRun, ResetBegins, ResetEnds, RemoveBegins, RemoveEnds, CountFails, FlowFails, history
<1>5. ASSUME NEW w \in watched, JobTold(w)  PROVE ~collided
  BY <1>5 DEF JobTold, history
<1>6. ASSUME NEW c \in callbacks, RunArrives(c)  PROVE ~collided
  BY <1>6 DEF RunArrives
<1>8. ASSUME NEW f \in flows, EnqueueBreaks(f) \/ StartUnheard(f)  PROVE ~collided
  BY <1>8 DEF EnqueueBreaks, StartUnheard
<1>7. CASE ModelConsumer \/ UNCHANGED modelsPageVars
  BY <1>7 DEF ModelConsumer, TakeModelJob, SaveModel, TrainingEnds, OperationEnds, modelsPageVars, history
<1> QED
  BY <1>1, <1>2, <1>3, <1>4, <1>5, <1>6, <1>7, <1>8 DEF ModelsPageNext

\* ... nor is an answer that was late.
LEMMA StaysUncrossed == [ModelsPageNext]_modelsPageVars /\ ~crossed' => ~crossed
<1> SUFFICES ASSUME [ModelsPageNext]_modelsPageVars, ~crossed'  PROVE ~crossed
  OBVIOUS
<1>1. ASSUME NEW s \in 0..MaxSessions, SelectSession(s) \/ DeleteSession(s) \/ SessionDeleted(s)  PROVE ~crossed
  BY <1>1 DEF SelectSession, DeleteSession, SessionDeleted, history
<1>2. CASE CreateSession \/ PostRun \/ ListOfRunsArrives \/ AnswerLost \/ ConfirmRetrain \/ CancelRetrain
           \/ Remount
  BY <1>2 DEF CreateSession, PostRun, ListOfRunsArrives, AnswerLost, ConfirmRetrain, CancelRetrain, Remount, history
<1>3. ASSUME NEW r \in RunIds, DeleteRun(r) \/ TrainRun(r) \/ \E kind : PostOp(r, kind)  PROVE ~crossed
  BY <1>3 DEF DeleteRun, TrainRun, PostOp
<1>4. ASSUME NEW f \in flows, HandlerStep(f) \/ CountFails(f) \/ FlowFails(f)  PROVE ~crossed
  BY <1>4 DEF HandlerStep, RunCreated, RunRemoved, TrainingStarted, OperationsCounted, DeleteOperations,
     EnqueueRun, ResetBegins, ResetEnds, RemoveBegins, RemoveEnds, CountFails, FlowFails, history
<1>5. ASSUME NEW w \in watched, JobTold(w)  PROVE ~crossed
  BY <1>5 DEF JobTold, history
<1>6. ASSUME NEW c \in callbacks, RunArrives(c)  PROVE ~crossed
  BY <1>6 DEF RunArrives
<1>8. ASSUME NEW f \in flows, EnqueueBreaks(f) \/ StartUnheard(f)  PROVE ~crossed
  BY <1>8 DEF EnqueueBreaks, StartUnheard
<1>7. CASE ModelConsumer \/ UNCHANGED modelsPageVars
  BY <1>7 DEF ModelConsumer, TakeModelJob, SaveModel, TrainingEnds, OperationEnds, modelsPageVars, history
<1> QED
  BY <1>1, <1>2, <1>3, <1>4, <1>5, <1>6, <1>7, <1>8 DEF ModelsPageNext

\* Every step keeps what the page knows of its runs.
LEMMA PageStepKept == ModelsInv /\ Shape /\ PageInv /\ [ModelsPageNext]_modelsPageVars => PageInv'
<1> SUFFICES ASSUME ModelsInv, Shape, PageInv, [ModelsPageNext]_modelsPageVars, Clean'  PROVE Kept'
  BY DEF PageInv
<1>0. Kept /\ ~collided' /\ ~crossed'
  BY StaysClean, StaysUncrossed DEF PageInv, Clean
<1>1. ASSUME NEW s \in 0..MaxSessions, SelectSession(s) \/ DeleteSession(s)  PROVE Kept'
  BY <1>0, <1>1, SessionsKept
<1>2. ASSUME NEW s \in 0..MaxSessions, SessionDeleted(s)  PROVE Kept'
  BY <1>0, <1>2, SessionDeletedKept
<1>3. CASE CreateSession
  <2>1. 0 \in 0..MaxSessions
    OBVIOUS
  <2> QED  BY <1>0, <1>3, <2>1, SessionsKept
<1>4. CASE PostRun
  BY <1>0, <1>4, PostRunKept
<1>5. CASE ListOfRunsArrives
  BY <1>0, <1>5, ListArrivesKept
<1>6. CASE ConfirmRetrain \/ \E r \in RunIds : DeleteRun(r) \/ TrainRun(r)
  BY <1>0, <1>6, ClickKept
<1>7. ASSUME NEW r \in RunIds, NEW kind \in {"explainer", "prediction"}, PostOp(r, kind)  PROVE Kept'
  BY <1>0, <1>7, PostOpKept
<1>8. ASSUME NEW f \in flows, HandlerStep(f) \/ CountFails(f) \/ FlowFails(f)  PROVE Kept'
  <2>1. CASE RunCreated(f)
    BY <1>0, <2>1, RunCreatedKept
  <2>2. CASE RunRemoved(f)
    BY <1>0, <2>2, RunRemovedKept
  <2>3. CASE TrainingStarted(f)
    BY <1>0, <2>3, TrainingStartedKept
  <2>4. CASE OperationsCounted(f) \/ CountFails(f) \/ DeleteOperations(f)
    BY <1>0, <2>4, CountedKept
  <2>5. CASE EnqueueRun(f)
    BY <1>0, <2>5, EnqueueRunKept
  <2>6. CASE ResetBegins(f)
    BY <1>0, <2>6, ResetBeginsKept
  <2>7. CASE ResetEnds(f)
    BY <1>0, <2>7, ResetEndsKept
  <2>8. CASE RemoveBegins(f)
    BY <1>0, <2>8, RemoveBeginsKept
  <2>9. CASE RemoveEnds(f)
    BY <1>0, <2>9, RemoveEndsKept
  <2>10. CASE FlowFails(f)
    BY <1>0, <2>10, FlowFailsKept
  <2> QED
    BY <1>8, <2>1, <2>2, <2>3, <2>4, <2>5, <2>6, <2>7, <2>8, <2>9, <2>10 DEF HandlerStep
<1>9. CASE CancelRetrain \/ UNCHANGED modelsPageVars
  BY <1>0, <1>9, NothingKept
<1>10. CASE Remount
  BY <1>0, <1>10, RemountKept
<1>11. ASSUME NEW w \in watched, JobTold(w)  PROVE Kept'
  BY <1>0, <1>11, JobToldKept
<1>12. ASSUME NEW c \in callbacks, RunArrives(c)  PROVE Kept'
  BY <1>0, <1>12, RunArrivesKept
<1>13. CASE ModelConsumer
  BY <1>0, <1>13, TakeModelJobKept, SaveModelKept, TrainingEndsKept, OperationEndsKept DEF ModelConsumer
<1>14. ASSUME NEW f \in flows, EnqueueBreaks(f) \/ StartUnheard(f)  PROVE Kept'
  BY <1>0, <1>14, EnqueueBreaksKept, StartUnheardKept
<1>15. ASSUME AnswerLost  PROVE Kept'
  BY <1>0, <1>15 DEF AnswerLost
<1> QED
  BY <1>1, <1>2, <1>3, <1>4, <1>5, <1>6, <1>7, <1>8, <1>9, <1>10, <1>11, <1>12, <1>13, <1>14, <1>15
     DEF ModelsPageNext

\* The page that is opened first has nothing to keep.
LEMMA PageInit == ModelsPageInit => PageInv
<1> SUFFICES ASSUME ModelsPageInit  PROVE Kept
  BY DEF PageInv
<1>1. /\ sessions = {1} /\ listed = {1} /\ leaving = {} /\ selected = 0
      /\ modelJobs = <<>> /\ inHand = noWork /\ flows = {} /\ watched = {} /\ callbacks = {} /\ answers = <<>>
      /\ \A r \in RunIds : runs[r] = noRun /\ op[r] = noOp /\ shown[r] = "absent"
  BY DEF ModelsPageInit
<1>2. /\ \A r : FlowsOn(r) = {} /\ CallsOn(r) = {} /\ NewCallsOn(r) = {} /\ WatchedOn(r) = {}
      /\ \A r : ToldOn(r) = {}
      /\ \A r : ~InHand(r) /\ ~Saving(r) /\ ~Computing(r) /\ JobsOn(r) = {}
  <2>1. DOMAIN modelJobs = {} /\ DOMAIN answers = {}
    BY <1>1
  <2>2. \A r : FlowsOn(r) = {} /\ CallsOn(r) = {} /\ NewCallsOn(r) = {} /\ WatchedOn(r) = {}
    BY <1>1 DEF FlowsOn, CallsOn, NewCallsOn, WatchedOn
  <2>3. \A r : ToldOn(r) = {}
    BY <2>1 DEF ToldOn, NewLists
  <2>4. \A r : ~InHand(r) /\ ~Saving(r) /\ ~Computing(r)
    BY <1>1 DEF InHand, Saving, Computing, noWork
  <2>5. \A r : JobsOn(r) = {}
    BY <2>1, <2>4 DEF JobsOn
  <2> QED  BY <2>2, <2>3, <2>4, <2>5
<1>3. OneJob
  <2>1. DOMAIN modelJobs = {}
    BY <1>1
  <2> QED  BY <2>1 DEF OneJob
<1>4. Lists
  BY <1>1 DEF Lists
<1>5. ASSUME NEW r \in RunIds  PROVE Served(r)
  BY <1>1, <1>2 DEF Served, Alone, Phase, FreshBefore, Own, InTable
<1>6. ASSUME NEW r \in RunIds  PROVE Paged(r)
  <2>1. HeardOn(r) = {}
    BY <1>2 DEF HeardOn
  <2>2. ~InTable(r) /\ shown[r] = "absent"
    BY <1>1 DEF InTable
  <2>3. Claims(r) /\ OfSession(r) /\ Exact(r)
    BY <1>2, <2>2 DEF Claims, OfSession, Exact
  <2>4. Numbers(r) /\ FollowedJob(r) /\ Real(r)
    BY <1>2, <2>1 DEF Numbers, FollowedJob, Real
  <2>5. InWorkFollowed(r) /\ Gone(r)
    BY <1>2, <2>2 DEF InWorkFollowed, Gone, RunInWork
  <2> QED  BY <2>3, <2>4, <2>5 DEF Paged
<1> QED
  BY <1>3, <1>4, <1>5, <1>6 DEF Kept

\* All of it holds in every state.
LEMMA PageInvariance == ModelsPageSpec => [](ModelsInv /\ Shape /\ PageInv)
<1>1. ModelsPageInit => Shape /\ PageInv
  BY ShapeInit, PageInit
<1>2. ModelsInv /\ Shape /\ PageInv /\ [ModelsPageNext]_modelsPageVars => (Shape /\ PageInv)'
  BY ShapeStep, PageStepKept
<1> QED
  BY <1>1, <1>2, ModelsInvariance, PTL DEF ModelsPageSpec

-----------------------------------------------------------------------------
\* As long as no work met other work, no answer was late and the page knew of
\* every training, whatever explains a FINISHED run or was predicted with it was
\* computed with its model.
THEOREM OpsBelongToModelHolds == ModelsPageSpec => []OpsBelongToModel
<1>1. ModelsInv /\ Shape /\ PageInv => OpsBelongToModel
  <2> SUFFICES ASSUME Kept, ~unaware, NEW r \in RunIds, runs[r].status = "finished"
               PROVE  \/ op[r].model \in {0, runs[r].model}
                      \/ \E f \in flows : f.run = r /\ f.step = "removing"
    BY DEF PageInv, Clean, OpsBelongToModel
  <2>1. Own(r)
    BY DEF Kept, Served
  <2>2. InTable(r)
    BY DEF InTable, noRun
  <2>3. At(r, {"removing"}) => \E f \in flows : f.run = r /\ f.step = "removing"
    BY DEF At, FlowsOn
  <2> QED  BY <2>1, <2>2, <2>3 DEF Own
<1> QED
  BY <1>1, PageInvariance, PTL

\* A run that the page shows in work is followed, it will be told how it ends,
\* unless the run is forsaken.
THEOREM RunShownIsFollowedHolds == ModelsPageSpec => []RunShownIsFollowed
<1>1. ModelsInv /\ Shape /\ PageInv => RunShownIsFollowed
  <2> SUFFICES ASSUME Kept, NEW r \in RunIds \ forsaken, shown[r] \in RunInWork
               PROVE  \/ \E w \in watched \cup callbacks : w.run = r
                      \/ \E f \in flows : f.run = r /\ f.step \in {"started", "removed"}
                      \/ answers # <<>>
    BY DEF PageInv, Clean, RunShownIsFollowed
  <2>1. Followed(r) \/ Unanswered
    BY DEF Kept, Paged, InWorkFollowed
  <2>2. HeardOn(r) # {} => \E w \in watched \cup callbacks : w.run = r
    BY DEF HeardOn, WatchedOn, CallsOn
  <2>3. At(r, {"started", "removed"}) => \E f \in flows : f.run = r /\ f.step \in {"started", "removed"}
    BY DEF At, FlowsOn
  <2> QED  BY <2>1, <2>2, <2>3 DEF Followed, Unanswered
<1> QED
  BY <1>1, PageInvariance, PTL

\* At rest, when no request has failed and the page was not left during a
\* training, it shows the selected session's runs as the table has them, and
\* lists the sessions that exist.
THEOREM ShownIsSelectedHolds == ModelsPageSpec => []ShownIsSelected
<1>1. ModelsInv /\ Shape /\ PageInv => ShownIsSelected
  <2> SUFFICES ASSUME ModelsInv, Shape, Kept, AtRest, ~unaware, failures = 0
               PROVE  /\ listed = sessions
                      /\ \A r \in RunIds :
                           shown[r] = IF selected # 0 /\ runs[r].session = selected
                                      THEN runs[r].status ELSE "absent"
    BY DEF PageInv, Clean, ShownIsSelected
  <2>1. listed = sessions
    BY DEF Kept, Lists, AtRest
  <2>2. ASSUME NEW r \in RunIds
        PROVE  shown[r] = IF selected # 0 /\ runs[r].session = selected
                          THEN runs[r].status ELSE "absent"
    <3>1. /\ \A steps : ~At(r, steps)
          /\ HeardOn(r) = {} /\ ~Unanswered
      BY DEF AtRest, At, FlowsOn, HeardOn, WatchedOn, CallsOn, Unanswered
    <3>2. Gone(r) /\ OfSession(r) /\ Exact(r) /\ Phase(r) /\ forsaken = {}
      BY DEF Kept, Paged, Served, Shape, Aware
    <3>3. CASE ~InTable(r)
      BY <3>1, <3>2, <3>3 DEF Gone, InTable, noRun
    <3>4. CASE InTable(r) /\ runs[r].session = selected
      BY <3>1, <3>2, <3>4 DEF Exact, Changing, Phase
    <3>5. CASE InTable(r) /\ runs[r].session # selected
      BY <3>1, <3>2, <3>5 DEF OfSession
    <3> QED  BY <3>3, <3>4, <3>5
  <2> QED  BY <2>1, <2>2
<1> QED
  BY <1>1, PageInvariance, PTL
-----------------------------------------------------------------------------
(* The types: what trains is counted before it is enqueued, and no number  *)
(* is about a later training.                                              *)

WillTrain(f) == f.step \in {"count", "operations", "reset", "resetting", "enqueue"}
Trainers == {f \in flows : WillTrain(f)}

FlowsCounted ==
  /\ IsFiniteSet(flows) /\ \A f, g \in flows : f.id = g.id => f = g
  /\ trained + Cardinality(Trainers) <= MaxTrained
ModelsKnown ==
  /\ \A r \in RunIds :
       runs[r].session <= MaxSessions /\ runs[r].model <= trained /\ op[r].model <= trained
  /\ \A i \in DOMAIN modelJobs : modelJobs[i].job <= trained
  /\ inHand.job <= trained /\ inHand.model <= trained
PageKnown ==
  /\ listed \cup leaving \subseteq 1..MaxSessions /\ selected \in listed \cup {0}
  /\ failures \in Nat /\ mounts \in Nat /\ failures + mounts <= MaxMishaps
  /\ collided \in BOOLEAN /\ crossed \in BOOLEAN
  /\ forsaken \subseteq RunIds /\ unaware \in BOOLEAN

\* One more is at most one more.
LEMMA OneMore ==
  ASSUME NEW S, IsFiniteSet(S), NEW x
  PROVE  /\ IsFiniteSet(S \cup {x}) /\ Cardinality(S \cup {x}) \in Nat
         /\ Cardinality(S \cup {x}) <= Cardinality(S) + 1
<1>1. Cardinality(S) \in Nat /\ IsFiniteSet(S \cup {x})
  BY FS_AddElement, FS_CardinalityType
<1>2. Cardinality(S \cup {x}) = Cardinality(S) \/ Cardinality(S \cup {x}) = Cardinality(S) + 1
  BY FS_AddElement
<1> QED
  BY <1>1, <1>2

\* Handlers that train are handlers, finitely many.
LEMMA TrainersFinite ==
  ASSUME FlowsCounted
  PROVE  /\ IsFiniteSet(Trainers) /\ Cardinality(Trainers) \in Nat /\ Cardinality(flows) \in Nat
         /\ Cardinality(Trainers) <= Cardinality(flows)
<1>1. Trainers \in SUBSET flows
  BY DEF Trainers
<1>2. IsFiniteSet(Trainers) /\ Cardinality(Trainers) <= Cardinality(flows)
  BY <1>1, FS_Subset DEF FlowsCounted
<1> QED
  BY <1>2, FS_CardinalityType DEF FlowsCounted

\* A handler goes on, or ends: they are not more, nor are those that train.
LEMMA CountedGoes ==
  ASSUME Typed, FlowsCounted, NEW f \in flows, NEW g, g.id = f.id, WillTrain(g) => WillTrain(f),
         flows' \subseteq (flows \ {f}) \cup {g}, trained' = trained
  PROVE  FlowsCounted'
<1>1. /\ IsFiniteSet(Trainers) /\ Cardinality(Trainers) \in Nat
      /\ trained + Cardinality(Trainers) <= MaxTrained /\ trained \in Nat
  BY TrainersFinite DEF FlowsCounted, Typed, TablesTyped
<1>2. PICK rest : rest = flows \ {f}
  OBVIOUS
<1>3. IsFiniteSet(rest)
  BY <1>2, FS_RemoveElement DEF FlowsCounted
<1>4. PICK all : all = rest \cup {g}
  OBVIOUS
<1>5. IsFiniteSet(all) /\ flows' \in SUBSET all
  BY <1>2, <1>3, <1>4, FS_AddElement
<1>6. IsFiniteSet(flows')
  BY <1>5, FS_Subset
<1>7. \A h, k \in flows' : h.id = k.id => h = k
  BY DEF FlowsCounted
<1>8. /\ IsFiniteSet(Trainers') /\ Cardinality(Trainers') \in Nat
      /\ Cardinality(Trainers') <= Cardinality(Trainers)
  <2>1. CASE ~WillTrain(g)
    <3>1. Trainers' \in SUBSET Trainers
      BY <2>1 DEF Trainers, WillTrain
    <3> QED
      BY <1>1, <3>1, FS_Subset, FS_CardinalityType
  <2>2. CASE WillTrain(g)
    <3>1. PICK left : left = Trainers \ {f}
      OBVIOUS
    <3>2. f \in Trainers
      BY <2>2 DEF Trainers
    <3>3. IsFiniteSet(left) /\ Cardinality(left) = Cardinality(Trainers) - 1
      BY <1>1, <3>1, <3>2, FS_RemoveElement
    <3>4. PICK more : more = left \cup {g}
      OBVIOUS
    <3>5. IsFiniteSet(more) /\ Cardinality(more) <= Cardinality(left) + 1 /\ Cardinality(more) \in Nat
      BY <3>3, <3>4, OneMore
    <3>6. Trainers' \in SUBSET more
      BY <3>1, <3>4 DEF Trainers, WillTrain
    <3>7. IsFiniteSet(Trainers') /\ Cardinality(Trainers') <= Cardinality(more)
          /\ Cardinality(Trainers') \in Nat
      BY <3>5, <3>6, FS_Subset, FS_CardinalityType
    <3> QED
      BY <1>1, <3>3, <3>5, <3>7
  <2> QED
    BY <2>1, <2>2
<1>9. trained' + Cardinality(Trainers') <= MaxTrained
  BY <1>1, <1>8
<1> QED
  BY <1>6, <1>7, <1>9 DEF FlowsCounted

\* A handler begins, and one that trains begins only while there is room.
LEMMA CountedOpens ==
  ASSUME Typed, FlowsCounted, NEW r, NEW step, Opens(r, step), trained' = trained,
         step \in {"count", "operations", "reset", "resetting", "enqueue"} => Room
  PROVE  FlowsCounted'
<1>1. /\ IsFiniteSet(Trainers) /\ Cardinality(Trainers) \in Nat /\ Cardinality(flows) \in Nat
      /\ Cardinality(Trainers) <= Cardinality(flows) /\ IsFiniteSet(flows)
      /\ trained + Cardinality(Trainers) <= MaxTrained /\ trained \in Nat
  BY TrainersFinite DEF FlowsCounted, Typed, TablesTyped
<1>2. PICK n \in 1..MaxFlows :
        /\ \A f \in flows : f.id # n
        /\ flows' = flows \cup {[id |-> n, run |-> r, step |-> step, job |-> 0, live |-> TRUE]}
  BY DEF Opens
<1>3. PICK g : g = [id |-> n, run |-> r, step |-> step, job |-> 0, live |-> TRUE]
  OBVIOUS
<1>4. g.id = n /\ g.step = step /\ flows' = flows \cup {g}
  BY <1>2, <1>3
<1>5. IsFiniteSet(flows')
  BY <1>1, <1>4, FS_AddElement
<1>6. \A h, k \in flows' : h.id = k.id => h = k
  BY <1>2, <1>4 DEF FlowsCounted
<1>7. trained' + Cardinality(Trainers') <= MaxTrained
  <2>1. CASE ~WillTrain(g)
    <3>1. Trainers' = Trainers
      BY <1>4, <2>1 DEF Trainers, WillTrain
    <3> QED
      BY <1>1, <3>1
  <2>2. CASE WillTrain(g)
    <3>1. trained + Cardinality(flows) < MaxTrained
      BY <1>4, <2>2 DEF WillTrain, Room
    <3>2. Trainers' = Trainers \cup {g}
      BY <1>4, <2>2 DEF Trainers, WillTrain
    <3>3. /\ Cardinality(Trainers \cup {g}) <= Cardinality(Trainers) + 1
          /\ Cardinality(Trainers \cup {g}) \in Nat
      BY <1>1, OneMore
    <3>5. MaxTrained \in Nat
      OBVIOUS
    <3> QED
      BY <1>1, <3>1, <3>2, <3>3, <3>5
  <2> QED
    BY <2>1, <2>2
<1> QED
  BY <1>5, <1>6, <1>7 DEF FlowsCounted

\* One that has enqueued its training trains no more.
LEMMA CountedEnqueue ==
  ASSUME Typed, FlowsCounted, NEW f \in flows, EnqueueRun(f), InTable(f.run)
  PROVE  FlowsCounted'
<1>1. /\ IsFiniteSet(Trainers) /\ Cardinality(Trainers) \in Nat
      /\ trained + Cardinality(Trainers) <= MaxTrained /\ trained \in Nat
  BY TrainersFinite DEF FlowsCounted, Typed, TablesTyped
<1>2. PICK g : g = [f EXCEPT !.step = "started", !.job = trained']
  OBVIOUS
<1>3. /\ g.id = f.id /\ g.step = "started" /\ trained' = trained + 1 /\ f.step = "enqueue"
      /\ flows' \subseteq (flows \ {f}) \cup {g}
  BY <1>2 DEF EnqueueRun, Typed, PageTyped, Flow
<1>4. PICK rest : rest = flows \ {f}
  OBVIOUS
<1>5. IsFiniteSet(rest)
  BY <1>4, FS_RemoveElement DEF FlowsCounted
<1>6. IsFiniteSet(rest \cup {g}) /\ flows' \in SUBSET (rest \cup {g})
  BY <1>3, <1>4, <1>5, FS_AddElement
<1>7. IsFiniteSet(flows')
  BY <1>6, FS_Subset
<1>8. \A h, k \in flows' : h.id = k.id => h = k
  BY <1>3 DEF FlowsCounted
<1>9. f \in Trainers /\ Trainers' \in SUBSET (Trainers \ {f})
  BY <1>3 DEF Trainers, WillTrain
<1>10. IsFiniteSet(Trainers \ {f}) /\ Cardinality(Trainers \ {f}) = Cardinality(Trainers) - 1
  BY <1>1, <1>9, FS_RemoveElement
<1>11. Cardinality(Trainers') <= Cardinality(Trainers \ {f}) /\ Cardinality(Trainers') \in Nat
  BY <1>9, <1>10, FS_Subset, FS_CardinalityType
<1> QED
  BY <1>1, <1>3, <1>7, <1>8, <1>10, <1>11 DEF FlowsCounted

\* The page is left: what was sent goes on without it.
LEMMA CountedLeft ==
  ASSUME Typed, FlowsCounted, Remount
  PROVE  FlowsCounted'
<1>1. /\ IsFiniteSet(Trainers) /\ Cardinality(Trainers) \in Nat
      /\ trained + Cardinality(Trainers) <= MaxTrained /\ trained \in Nat
  BY TrainersFinite DEF FlowsCounted, Typed, TablesTyped
<1> DEFINE Left(f) == [f EXCEPT !.live = FALSE]
           staying == {g \in flows : g.step \notin {"created", "removed", "started"}}
           goes == [f \in staying |-> Left(f)]
           trains == [f \in Trainers |-> Left(f)]
<1>2. flows' = {Left(f) : f \in staying} /\ trained' = trained
  BY DEF Remount, serverState
<1>3. \A f \in flows : Left(f).id = f.id /\ Left(f).step = f.step
  BY DEF Typed, PageTyped, Flow
<1> HIDE DEF Left
<1>4. IsFiniteSet(staying)
  <2>1. staying \in SUBSET flows
    OBVIOUS
  <2> QED
    BY <2>1, FS_Subset DEF FlowsCounted
<1>5. goes \in Surjection(staying, flows')
  BY <1>2 DEF Surjection
<1>6. IsFiniteSet(flows')
  BY <1>4, <1>5, FS_Surjection
<1>7. \A h, k \in flows' : h.id = k.id => h = k
  <2> SUFFICES ASSUME NEW h \in staying, NEW k \in staying, Left(h).id = Left(k).id
               PROVE  Left(h) = Left(k)
    BY <1>2
  <2> QED
    BY <1>3 DEF FlowsCounted
<1>8. Trainers' = {Left(f) : f \in Trainers}
  BY <1>2, <1>3 DEF Trainers, WillTrain
<1>9. trains \in Surjection(Trainers, Trainers')
  BY <1>8 DEF Surjection
<1>10. Cardinality(Trainers') <= Cardinality(Trainers) /\ Cardinality(Trainers') \in Nat
  BY <1>1, <1>9, FS_Surjection, FS_CardinalityType
<1> QED
  BY <1>1, <1>2, <1>6, <1>7, <1>10 DEF FlowsCounted

\* No step enqueues more trainings than there is room for.
LEMMA CountedStep ==
  ASSUME Typed, FlowsCounted, [ModelsPageNext]_modelsPageVars
  PROVE  FlowsCounted'
<1>1. CASE UNCHANGED <<flows, trained>>
  BY <1>1 DEF FlowsCounted, Trainers
<1>2. CASE PostRun
  <2>1. PICK r : r = NextRun
    OBVIOUS
  <2>2. Opens(r, "created") /\ trained' = trained
    BY <1>2, <2>1 DEF PostRun
  <2> QED
    BY <2>2, CountedOpens
<1>3. ASSUME NEW r \in RunIds, DeleteRun(r) \/ TrainRun(r)  PROVE FlowsCounted'
  <2>1. trained' = trained
    BY <1>3 DEF DeleteRun, TrainRun, serverState
  <2>2. \/ Opens(r, "delete")
        \/ (Opens(r, "reset") \/ Opens(r, "count")) /\ Room
    BY <1>3 DEF DeleteRun, TrainRun
  <2> QED
    BY <2>1, <2>2, CountedOpens
<1>4. CASE ConfirmRetrain
  <2>1. Opens(dialog, "operations") /\ Room /\ trained' = trained
    BY <1>4 DEF ConfirmRetrain, serverState
  <2> QED
    BY <2>1, CountedOpens
<1>5. ASSUME NEW f \in flows, HandlerStep(f) \/ CountFails(f) \/ FlowFails(f)  PROVE FlowsCounted'
  <2>1. CASE EnqueueRun(f) /\ InTable(f.run)
    BY <2>1, CountedEnqueue
  <2>2. CASE ~(EnqueueRun(f) /\ InTable(f.run))
    <3>1. trained' = trained
      BY <1>5, <2>2 DEF HandlerStep, CountFails, FlowFails, OperationsCounted, DeleteOperations,
         EnqueueRun, ResetBegins, ResetEnds, RemoveBegins, RemoveEnds, RunCreated, RunRemoved,
         TrainingStarted, serverState
    <3>2. \/ Ends(f)
          \/ \E step : /\ Goes(f, step) /\ step \notin {"count", "operations"}
                       /\ step \in {"reset", "resetting", "enqueue"} => WillTrain(f)
      <4>1. CASE RunCreated(f) \/ RunRemoved(f) \/ TrainingStarted(f) \/ FlowFails(f)
        BY <4>1 DEF RunCreated, RunRemoved, TrainingStarted, FlowFails
      <4>2. CASE OperationsCounted(f) \/ CountFails(f)
        BY <4>2 DEF OperationsCounted, CountFails, WillTrain
      <4>3. CASE DeleteOperations(f)
        BY <4>3 DEF DeleteOperations, WillTrain
      <4>4. CASE ResetBegins(f) \/ ResetEnds(f)
        BY <4>4 DEF ResetBegins, ResetEnds, WillTrain
      <4>5. CASE RemoveBegins(f)
        BY <4>5 DEF RemoveBegins
      <4>6. CASE RemoveEnds(f)
        BY <4>6 DEF RemoveEnds
      <4>7. CASE EnqueueRun(f)
        BY <2>2, <4>7 DEF EnqueueRun
      <4> QED
        BY <1>5, <4>1, <4>2, <4>3, <4>4, <4>5, <4>6, <4>7 DEF HandlerStep
    <3>3. ASSUME Ends(f)  PROVE FlowsCounted'
      <4>1. flows' \subseteq (flows \ {f}) \cup {f}
        BY <3>3 DEF Ends
      <4> QED
        BY <3>1, <4>1, CountedGoes
    <3>4. ASSUME NEW step, Goes(f, step), step \in {"reset", "resetting", "enqueue"} => WillTrain(f),
                 step \notin {"count", "operations"}
          PROVE  FlowsCounted'
      <4>1. PICK g : g = [f EXCEPT !.step = step]
        OBVIOUS
      <4>2. g.id = f.id /\ g.step = step /\ flows' \subseteq (flows \ {f}) \cup {g}
        BY <3>4, <4>1 DEF Goes, Typed, PageTyped, Flow
      <4>3. WillTrain(g) => WillTrain(f)
        BY <3>4, <4>2 DEF WillTrain
      <4> QED
        BY <3>1, <4>2, <4>3, CountedGoes
    <3> QED
      BY <3>2, <3>3, <3>4
  <2> QED
    BY <2>1, <2>2
<1>6. CASE Remount
  BY <1>6, CountedLeft
<1>7. CASE (\E s : SelectSession(s) \/ DeleteSession(s) \/ SessionDeleted(s)) \/ CreateSession
           \/ ListOfRunsArrives \/ CancelRetrain \/ ModelConsumer
           \/ (\E r \in RunIds, kind \in {"explainer", "prediction"} : PostOp(r, kind))
           \/ (\E w \in watched : JobTold(w)) \/ (\E c \in callbacks : RunArrives(c))
           \/ UNCHANGED modelsPageVars
  <2>1. UNCHANGED <<flows, trained>>
    BY <1>7 DEF SelectSession, DeleteSession, SessionDeleted, CreateSession, ListOfRunsArrives,
       CancelRetrain, ModelConsumer, TakeModelJob, SaveModel, TrainingEnds, OperationEnds, PostOp,
       JobTold, RunArrives, modelsPageVars, serverState
  <2> QED
    BY <1>1, <2>1
<1>8. CASE AnswerLost \/ \E f \in flows : EnqueueBreaks(f) \/ StartUnheard(f)
  <2>1. trained' = trained /\ (flows' = flows \/ \E f \in flows : Ends(f))
    BY <1>8 DEF AnswerLost, EnqueueBreaks, StartUnheard, serverState
  <2>2. ASSUME NEW f \in flows, Ends(f)  PROVE FlowsCounted'
    <3>1. flows' \subseteq (flows \ {f}) \cup {f}
      BY <2>2 DEF Ends
    <3> QED
      BY <2>1, <3>1, CountedGoes
  <2> QED
    BY <1>1, <2>1, <2>2
<1> QED
  BY <1>2, <1>3, <1>4, <1>5, <1>6, <1>7, <1>8 DEF ModelsPageNext

\* Rows lose their model, or go: no other number is about a training.
LEMMA KnownRows ==
  ASSUME ModelsKnown, trained \in Nat, UNCHANGED <<trained, modelJobs, inHand>>,
         \A r \in RunIds : /\ runs'[r].session \in {0, runs[r].session}
                           /\ runs'[r].model \in {0, runs[r].model}
                           /\ op'[r].model \in {0, op[r].model}
  PROVE  ModelsKnown'
<1>1. \A r \in RunIds : runs'[r].session <= MaxSessions
  BY DEF ModelsKnown
<1>2. \A r \in RunIds : runs'[r].model <= trained /\ op'[r].model <= trained
  BY DEF ModelsKnown
<1> QED
  BY <1>1, <1>2 DEF ModelsKnown

\* The status of a run is written, ...
LEMMA StatusField ==
  ASSUME NEW t \in [RunIds -> RunRow], NEW u, NEW r \in RunIds, NEW x, u = [t EXCEPT ![r].status = x]
  PROVE  \A q \in RunIds : u[q].session = t[q].session /\ u[q].model = t[q].model
<1>1. t[r] = [session |-> t[r].session, status |-> t[r].status, model |-> t[r].model]
  BY DEF RunRow
<1>2. u[r] = [t[r] EXCEPT !.status = x] /\ \A q \in RunIds : q # r => u[q] = t[q]
  OBVIOUS
<1>3. u[r].session = t[r].session /\ u[r].model = t[r].model
  BY <1>1, <1>2
<1> QED
  BY <1>2, <1>3

\* ... or its model.
LEMMA ModelField ==
  ASSUME NEW t \in [RunIds -> RunRow], NEW u, NEW r \in RunIds, NEW x, u = [t EXCEPT ![r].model = x]
  PROVE  \A q \in RunIds : u[q].session = t[q].session /\ u[q].model \in {t[q].model, x}
<1>1. t[r] = [session |-> t[r].session, status |-> t[r].status, model |-> t[r].model]
  BY DEF RunRow
<1>2. u[r] = [t[r] EXCEPT !.model = x] /\ \A q \in RunIds : q # r => u[q] = t[q]
  OBVIOUS
<1>3. u[r].session = t[r].session /\ u[r].model = x
  BY <1>1, <1>2
<1> QED
  BY <1>2, <1>3

\* The job that is appended is the only new one.
LEMMA JobsAfter ==
  ASSUME ModelsInv, NEW j \in ModelJob, modelJobs' = Append(modelJobs, j)
  PROVE  \A i \in DOMAIN modelJobs' :
           modelJobs'[i] = j \/ (i \in DOMAIN modelJobs /\ modelJobs'[i] = modelJobs[i])
<1>1. modelJobs \in Seq(ModelJob)
  BY DEF ModelsInv, Typed, QueueTyped
<1> QED
  BY <1>1

\* The handlers that change rows or the queue.
LEMMA KnownHandled ==
  ASSUME ModelsInv, Shape, ModelsKnown, NEW f \in flows,
         DeleteOperations(f) \/ EnqueueRun(f) \/ ResetBegins(f) \/ ResetEnds(f) \/ RemoveBegins(f)
         \/ RemoveEnds(f)
  PROVE  ModelsKnown'
<1>1. /\ trained \in Nat /\ f.run \in RunIds /\ runs \in [RunIds -> RunRow] /\ op \in [RunIds -> OpRow]
      /\ modelJobs \in Seq(ModelJob)
  BY DEF ModelsInv, Typed, TablesTyped, QueueTyped, PageTyped, Flow, Shape
<1>2. CASE DeleteOperations(f)
  <2>1. UNCHANGED <<runs, trained, modelJobs, inHand>>
    BY <1>2 DEF DeleteOperations, modelQueue
  <2>2. \A r \in RunIds : op'[r].model \in {0, op[r].model}
    BY <1>1, <1>2 DEF DeleteOperations, noOp, OpRow
  <2> QED  BY <1>1, <2>1, <2>2, KnownRows
<1>3. CASE ResetBegins(f) \/ ResetEnds(f) \/ RemoveBegins(f)
  <2>1. UNCHANGED <<op, trained, modelJobs, inHand>>
    BY <1>3 DEF ResetBegins, ResetEnds, RemoveBegins, modelQueue
  <2>2. \/ runs' = runs \/ runs' = [runs EXCEPT ![f.run].model = 0]
        \/ runs' = [runs EXCEPT ![f.run].status = "idle"]
    BY <1>3 DEF ResetBegins, ResetEnds, RemoveBegins
  <2>3. \A r \in RunIds : runs'[r].session = runs[r].session /\ runs'[r].model \in {0, runs[r].model}
    <3>1. CASE runs' = [runs EXCEPT ![f.run].model = 0]
      BY <1>1, <3>1, ModelField
    <3>2. CASE runs' = [runs EXCEPT ![f.run].status = "idle"]
      BY <1>1, <3>2, StatusField
    <3> QED  BY <2>2, <3>1, <3>2
  <2> QED  BY <1>1, <2>1, <2>3, KnownRows
<1>4. CASE RemoveEnds(f)
  <2>1. UNCHANGED <<trained, modelJobs, inHand>>
    BY <1>4 DEF RemoveEnds, modelQueue
  <2>2. WithoutRun({f.run}) \/ UNCHANGED <<runs, op>>
    BY <1>4 DEF RemoveEnds
  <2>3. \A r \in RunIds : /\ runs'[r].session \in {0, runs[r].session}
                          /\ runs'[r].model \in {0, runs[r].model}
                          /\ op'[r].model \in {0, op[r].model}
    BY <2>2 DEF WithoutRun, noRun, noOp
  <2> QED  BY <1>1, <2>1, <2>3, KnownRows
<1>5. CASE EnqueueRun(f)
  <2>1. CASE InTable(f.run)
    <3> DEFINE job == [kind |-> "train", run |-> f.run, job |-> trained + 1]
    <3>1. /\ trained' = trained + 1 /\ UNCHANGED <<op, inHand>>
          /\ runs' = [runs EXCEPT ![f.run].status = "delivered"]
      BY <1>5, <2>1 DEF EnqueueRun
    <3>2. modelJobs' = Append(modelJobs, job)
      BY <1>5, <2>1 DEF EnqueueRun
    <3>3. \A r \in RunIds : runs'[r].session = runs[r].session /\ runs'[r].model = runs[r].model
      BY <1>1, <3>1, StatusField
    <3>4. \A r \in RunIds : runs[r].model \in Nat /\ op[r].model \in Nat
      BY <1>1 DEF RunRow, OpRow
    <3>5. \A r \in RunIds : /\ runs'[r].session <= MaxSessions /\ runs'[r].model <= trained'
                            /\ op'[r].model <= trained'
      BY <1>1, <3>1, <3>3, <3>4 DEF ModelsKnown
    <3>6. job \in ModelJob /\ job.job = trained + 1
      BY <1>1 DEF ModelJob
    <3> HIDE DEF job
    <3>7. \A i \in DOMAIN modelJobs' :
            modelJobs'[i] = job \/ (i \in DOMAIN modelJobs /\ modelJobs'[i] = modelJobs[i])
      BY <3>2, <3>6, JobsAfter
    <3>8. \A i \in DOMAIN modelJobs : modelJobs[i].job \in Nat
      <4>1. \A i \in DOMAIN modelJobs : modelJobs[i] \in ModelJob
        BY <1>1, ElementsOfSeq
      <4> QED  BY <4>1 DEF ModelJob
    <3>9. \A i \in DOMAIN modelJobs' : modelJobs'[i].job <= trained'
      BY <1>1, <3>1, <3>6, <3>7, <3>8 DEF ModelsKnown
    <3>10. inHand'.job <= trained' /\ inHand'.model <= trained'
      BY <1>1, <3>1 DEF ModelsKnown, ModelsInv, Typed, QueueTyped
    <3> QED  BY <3>5, <3>9, <3>10 DEF ModelsKnown
  <2>2. CASE ~InTable(f.run)
    <3>1. UNCHANGED <<runs, op, trained, modelJobs, inHand>>
      BY <1>5, <2>2 DEF EnqueueRun
    <3> QED  BY <3>1 DEF ModelsKnown
  <2> QED  BY <2>1, <2>2
<1> QED
  BY <1>2, <1>3, <1>4, <1>5

\* The consumer: a model has the number of the training that made it, and an
\* operation that of the model it was computed with.
LEMMA KnownConsumed ==
  ASSUME ModelsInv, Shape, ModelsKnown, ModelConsumer
  PROVE  ModelsKnown'
<1>1. /\ trained \in Nat /\ runs \in [RunIds -> RunRow] /\ op \in [RunIds -> OpRow]
      /\ modelJobs \in Seq(ModelJob)
  BY DEF ModelsInv, Typed, TablesTyped, QueueTyped, Shape
<1>2. trained' = trained /\ noWork.job = 0 /\ noWork.model = 0
  BY DEF ModelConsumer, TakeModelJob, SaveModel, TrainingEnds, OperationEnds, noWork
<1>3. CASE TakeModelJob
  <2>1. PICK j : j = Head(modelJobs)
    OBVIOUS
  <2>2. /\ j \in ModelJob /\ j = modelJobs[1] /\ 1 \in DOMAIN modelJobs
        /\ \A i \in DOMAIN modelJobs' : i + 1 \in DOMAIN modelJobs /\ modelJobs'[i] = modelJobs[i + 1]
    BY <1>1, <1>3, <2>1 DEF TakeModelJob
  <2>3. \A i \in DOMAIN modelJobs' : modelJobs'[i].job <= trained'
    BY <1>2, <2>2 DEF ModelsKnown
  <2>4. j.run \in RunIds /\ j.job <= trained
    BY <2>2 DEF ModelJob, ModelsKnown
  <2>5. /\ op' = op
        /\ \/ UNCHANGED <<inHand, runs>>
           \/ inHand' = noWork /\ runs' = runs
           \/ /\ inHand' = [kind |-> "train", run |-> j.run, job |-> j.job, model |-> 0]
              /\ runs' = [runs EXCEPT ![j.run].status = "started"]
           \/ /\ inHand' = [kind |-> "operation", run |-> j.run, job |-> 0, model |-> runs[j.run].model]
              /\ runs' = runs
    BY <1>3, <2>1 DEF TakeModelJob
  <2>6. \A r \in RunIds : runs'[r].session = runs[r].session /\ runs'[r].model = runs[r].model
    <3>1. CASE runs' = [runs EXCEPT ![j.run].status = "started"]
      BY <1>1, <2>4, <3>1, StatusField
    <3> QED  BY <2>5, <3>1
  <2>7. inHand'.job <= trained /\ inHand'.model <= trained
    BY <1>1, <1>2, <2>4, <2>5 DEF ModelsKnown
  <2> QED  BY <1>2, <2>3, <2>5, <2>6, <2>7 DEF ModelsKnown
<1>4. CASE SaveModel
  <2>1. inHand.run \in RunIds
    BY <1>4 DEF SaveModel, ModelsInv, Typed, QueueTyped
  <2>2. /\ runs' = [runs EXCEPT ![inHand.run].model = inHand.job]
        /\ inHand' = [inHand EXCEPT !.kind = "saved"] /\ UNCHANGED <<op, modelJobs>>
    BY <1>4 DEF SaveModel
  <2>3. \A r \in RunIds : /\ runs'[r].session = runs[r].session
                          /\ runs'[r].model \in {runs[r].model, inHand.job}
    BY <1>1, <2>1, <2>2, ModelField
  <2>4. inHand'.job = inHand.job /\ inHand'.model = inHand.model
    BY <2>2 DEF ModelsInv, Typed, QueueTyped
  <2> QED  BY <1>2, <2>2, <2>3, <2>4 DEF ModelsKnown
<1>5. CASE TrainingEnds
  <2>1. /\ \/ runs' = runs
           \/ inHand.run \in RunIds /\ \E s : runs' = [runs EXCEPT ![inHand.run].status = s]
        /\ inHand' = noWork /\ UNCHANGED <<op, modelJobs>>
    BY <1>5 DEF TrainingEnds, ModelsInv, Typed, QueueTyped
  <2>2. \A r \in RunIds : runs'[r].session = runs[r].session /\ runs'[r].model = runs[r].model
    <3>1. ASSUME NEW s, inHand.run \in RunIds, runs' = [runs EXCEPT ![inHand.run].status = s]
          PROVE  \A r \in RunIds : runs'[r].session = runs[r].session /\ runs'[r].model = runs[r].model
      BY <1>1, <3>1, StatusField
    <3> QED  BY <2>1, <3>1
  <2> QED  BY <1>1, <1>2, <2>1, <2>2 DEF ModelsKnown
<1>6. CASE OperationEnds
  <2>1. inHand.run \in RunIds
    BY <1>6 DEF OperationEnds, Shape
  <2>2. /\ op' = op \/ op' = [op EXCEPT ![inHand.run].model = inHand.model]
        /\ inHand' = noWork /\ UNCHANGED <<runs, modelJobs>>
    BY <1>6 DEF OperationEnds
  <2>3. \A r \in RunIds : op'[r].model \in {op[r].model, inHand.model}
    BY <1>1, <2>1, <2>2 DEF OpRow
  <2> QED  BY <1>1, <1>2, <2>2, <2>3 DEF ModelsKnown
<1> QED
  BY <1>3, <1>4, <1>5, <1>6 DEF ModelConsumer

\* No step writes a number that is about a later training.
LEMMA KnownStep ==
  ASSUME ModelsInv, Shape, ModelsKnown, [ModelsPageNext]_modelsPageVars
  PROVE  ModelsKnown'
<1>1. /\ trained \in Nat /\ runs \in [RunIds -> RunRow] /\ op \in [RunIds -> OpRow]
      /\ modelJobs \in Seq(ModelJob) /\ sessions \subseteq 1..MaxSessions
  BY DEF ModelsInv, Typed, TablesTyped, QueueTyped, Shape
<1>2. CASE UNCHANGED <<runs, op, trained, modelJobs, inHand>>
  BY <1>2 DEF ModelsKnown
<1>3. ASSUME NEW s \in 0..MaxSessions, SessionDeleted(s)  PROVE ModelsKnown'
  <2>1. UNCHANGED <<trained, modelJobs, inHand>>
    BY <1>3 DEF SessionDeleted, modelQueue
  <2>2. (\E gone : WithoutRun(gone)) \/ UNCHANGED <<runs, op>>
    BY <1>3 DEF SessionDeleted
  <2>3. \A r \in RunIds : /\ runs'[r].session \in {0, runs[r].session}
                          /\ runs'[r].model \in {0, runs[r].model}
                          /\ op'[r].model \in {0, op[r].model}
    BY <2>2 DEF WithoutRun, noRun, noOp
  <2> QED  BY <1>1, <2>1, <2>3, KnownRows
<1>4. CASE PostRun
  <2>1. PICK q, row : q = NextRun /\ row = [session |-> selected, status |-> "idle", model |-> 0]
    OBVIOUS
  <2>2. row.session \in 1..MaxSessions /\ row.model = 0
    BY <1>1, <1>4, <2>1 DEF PostRun
  <2>3. runs' = [runs EXCEPT ![q] = row] /\ UNCHANGED <<op, trained, modelJobs, inHand>>
    BY <1>4, <2>1 DEF PostRun, modelQueue
  <2>4. \A r \in RunIds : /\ runs'[r].session \in {row.session, runs[r].session}
                          /\ runs'[r].model \in {0, runs[r].model}
    BY <1>1, <2>2, <2>3
  <2>5. \A r \in RunIds : runs'[r].session <= MaxSessions
    BY <2>2, <2>4 DEF ModelsKnown
  <2>6. \A r \in RunIds : runs'[r].model <= trained
    BY <1>1, <2>4 DEF ModelsKnown
  <2> QED  BY <2>3, <2>5, <2>6 DEF ModelsKnown
<1>5. ASSUME NEW r \in RunIds, NEW kind \in {"explainer", "prediction"}, PostOp(r, kind)  PROVE ModelsKnown'
  <2> DEFINE job == [kind |-> "operation", run |-> r, job |-> 0]
  <2>1. /\ op' = [op EXCEPT ![r] = [kind |-> kind, model |-> 0]]
        /\ modelJobs' = Append(modelJobs, job) /\ UNCHANGED <<runs, trained, inHand>>
    BY <1>5 DEF PostOp
  <2>2. job \in ModelJob /\ job.job = 0
    BY DEF ModelJob
  <2> HIDE DEF job
  <2>3. \A q \in RunIds : op'[q].model \in {0, op[q].model}
    BY <1>1, <2>1 DEF OpRow
  <2>4. \A i \in DOMAIN modelJobs' : modelJobs'[i] = job \/ (i \in DOMAIN modelJobs /\ modelJobs'[i] = modelJobs[i])
    BY <2>1, <2>2, JobsAfter
  <2>5. \A i \in DOMAIN modelJobs' : modelJobs'[i].job <= trained
    BY <1>1, <2>2, <2>4 DEF ModelsKnown
  <2>6. \A q \in RunIds : op'[q].model <= trained
    BY <1>1, <2>3 DEF ModelsKnown
  <2> QED  BY <2>1, <2>5, <2>6 DEF ModelsKnown
<1>6. ASSUME NEW f \in flows, HandlerStep(f) \/ CountFails(f) \/ FlowFails(f)  PROVE ModelsKnown'
  <2>1. CASE RunCreated(f) \/ RunRemoved(f) \/ TrainingStarted(f) \/ OperationsCounted(f)
             \/ CountFails(f) \/ FlowFails(f)
    <3>1. UNCHANGED <<runs, op, trained, modelJobs, inHand>>
      BY <2>1 DEF RunCreated, RunRemoved, TrainingStarted, OperationsCounted, CountFails, FlowFails,
         serverState, modelQueue
    <3> QED  BY <1>2, <3>1
  <2> QED  BY <1>6, <2>1, KnownHandled DEF HandlerStep
<1>7. CASE ModelConsumer
  BY <1>7, KnownConsumed
<1>8. CASE (\E s \in 0..MaxSessions : SelectSession(s) \/ DeleteSession(s)) \/ CreateSession
           \/ ListOfRunsArrives \/ AnswerLost \/ (\E f \in flows : StartUnheard(f)) \/ (\E r \in RunIds : DeleteRun(r) \/ TrainRun(r))
           \/ ConfirmRetrain \/ CancelRetrain \/ Remount
           \/ (\E w \in watched : JobTold(w)) \/ (\E c \in callbacks : RunArrives(c))
           \/ UNCHANGED modelsPageVars
  <2>1. UNCHANGED <<runs, op, trained, modelJobs, inHand>>
    BY <1>8 DEF SelectSession, DeleteSession, CreateSession, ListOfRunsArrives, DeleteRun, TrainRun, AnswerLost, StartUnheard,
       ConfirmRetrain, CancelRetrain, Remount, JobTold, RunArrives, modelsPageVars, serverState,
       modelQueue
  <2> QED  BY <1>2, <2>1
<1>9. ASSUME NEW f \in flows, EnqueueBreaks(f)  PROVE ModelsKnown'
  <2>1. /\ UNCHANGED <<op, trained, modelJobs, inHand>>
        /\ runs' = [runs EXCEPT ![f.run].status = "delivered"]
    BY <1>9 DEF EnqueueBreaks, modelQueue
  <2>2. f.run \in RunIds
    BY DEF ModelsInv, Typed, PageTyped, Flow
  <2>3. \A q \in RunIds : runs'[q].session = runs[q].session /\ runs'[q].model = runs[q].model
    BY <1>1, <2>1, <2>2, StatusField
  <2> QED  BY <1>1, <2>1, <2>3, KnownRows
<1> QED
  BY <1>3, <1>4, <1>5, <1>6, <1>7, <1>8, <1>9 DEF ModelsPageNext

\* The page lists sessions that have been created, and shows one it lists.
LEMMA ListingStep ==
  ASSUME ModelsInv, PageKnown, [ModelsPageNext]_modelsPageVars
  PROVE  (listed \cup leaving \subseteq 1..MaxSessions /\ selected \in listed \cup {0})'
<1>1. listed \cup leaving \subseteq 1..MaxSessions /\ selected \in listed \cup {0}
  BY DEF PageKnown
<1>2. ASSUME NEW s \in 0..MaxSessions, SelectSession(s) \/ DeleteSession(s)
      PROVE  (listed \cup leaving \subseteq 1..MaxSessions /\ selected \in listed \cup {0})'
  BY <1>1, <1>2 DEF SelectSession, DeleteSession, Selects, pageRuns
<1>3. CASE CreateSession
  <2>1. PICK s : s = 1 + Max({0} \cup sessions)
    OBVIOUS
  <2>2. s \in Nat \ {0} /\ s <= MaxSessions /\ MaxSessions \in Nat
    BY <1>3, <2>1, NextSessionBound DEF CreateSession, ModelsInv, Typed
  <2>3. listed' = listed \cup {s} /\ selected' = s /\ leaving' = leaving
    BY <1>3, <2>1 DEF CreateSession, Selects
  <2> QED  BY <1>1, <2>2, <2>3
<1>4. ASSUME NEW s \in 0..MaxSessions, SessionDeleted(s)
      PROVE  (listed \cup leaving \subseteq 1..MaxSessions /\ selected \in listed \cup {0})'
  BY <1>1, <1>4 DEF SessionDeleted, pageRuns
<1>5. CASE Remount
  BY <1>1, <1>5 DEF Remount, ModelsInv, Typed, TablesTyped
<1>6. CASE UNCHANGED <<listed, selected, leaving>>
  BY <1>1, <1>6
<1>7. ASSUME NEW f \in flows, HandlerStep(f) \/ CountFails(f) \/ FlowFails(f)
      PROVE  UNCHANGED <<listed, selected, leaving>>
  BY <1>7 DEF HandlerStep, RunCreated, RunRemoved, TrainingStarted, OperationsCounted, DeleteOperations,
     EnqueueRun, ResetBegins, ResetEnds, RemoveBegins, RemoveEnds, CountFails, FlowFails, pageState, pageRuns
<1>8. CASE PostRun \/ ListOfRunsArrives \/ (\E r \in RunIds : DeleteRun(r) \/ TrainRun(r))
           \/ (\E r, kind : PostOp(r, kind)) \/ ConfirmRetrain \/ CancelRetrain \/ ModelConsumer
           \/ (\E w \in watched : JobTold(w)) \/ (\E c \in callbacks : RunArrives(c))
           \/ AnswerLost \/ (\E f \in flows : EnqueueBreaks(f) \/ StartUnheard(f))
           \/ UNCHANGED modelsPageVars
  <2>1. UNCHANGED <<listed, selected, leaving>>
    BY <1>8 DEF PostRun, ListOfRunsArrives, DeleteRun, TrainRun, PostOp, ConfirmRetrain, CancelRetrain,
       ModelConsumer, TakeModelJob, SaveModel, TrainingEnds, OperationEnds, JobTold, RunArrives,
       AnswerLost, EnqueueBreaks, StartUnheard,
       modelsPageVars, pageState, pageRuns
  <2> QED  BY <1>6, <2>1
<1> QED
  BY <1>2, <1>3, <1>4, <1>5, <1>6, <1>7, <1>8 DEF ModelsPageNext

\* A step counts at most one mishap, if one is left.
LEMMA MishapsStep ==
  ASSUME [ModelsPageNext]_modelsPageVars
  PROVE  \/ UNCHANGED <<failures, mounts>>
         \/ Fail /\ UNCHANGED mounts
         \/ Mishap /\ mounts' = mounts + 1 /\ UNCHANGED failures
<1>1. ASSUME NEW s \in 0..MaxSessions, SelectSession(s) \/ DeleteSession(s) \/ SessionDeleted(s)
      PROVE  UNCHANGED mounts /\ (failures' = failures \/ Fail)
  BY <1>1 DEF SelectSession, DeleteSession, SessionDeleted, history
<1>2. CASE Remount
  BY <1>2 DEF Remount
<1>3. ASSUME NEW f \in flows, HandlerStep(f) \/ CountFails(f) \/ FlowFails(f)
      PROVE  UNCHANGED mounts /\ (failures' = failures \/ Fail)
  BY <1>3 DEF HandlerStep, RunCreated, RunRemoved, TrainingStarted, OperationsCounted, DeleteOperations,
     EnqueueRun, ResetBegins, ResetEnds, RemoveBegins, RemoveEnds, CountFails, FlowFails, history
<1>4. CASE CreateSession \/ PostRun \/ ListOfRunsArrives \/ (\E r \in RunIds : DeleteRun(r) \/ TrainRun(r))
           \/ (\E r, kind : PostOp(r, kind)) \/ ConfirmRetrain \/ CancelRetrain \/ ModelConsumer
           \/ (\E c \in callbacks : RunArrives(c))
           \/ UNCHANGED modelsPageVars
  BY <1>4 DEF CreateSession, PostRun, ListOfRunsArrives, DeleteRun, TrainRun, PostOp, ConfirmRetrain,
     CancelRetrain, ModelConsumer, TakeModelJob, SaveModel, TrainingEnds, OperationEnds,
     RunArrives, modelsPageVars, history
<1>5. CASE AnswerLost \/ (\E w \in watched : JobTold(w)) \/ \E f \in flows : EnqueueBreaks(f) \/ StartUnheard(f)
  BY <1>5 DEF AnswerLost, JobTold, EnqueueBreaks, StartUnheard
<1> QED
  BY <1>1, <1>2, <1>3, <1>4, <1>5 DEF ModelsPageNext

\* The histories are true or false.
LEMMA HistoriesStep ==
  ASSUME collided \in BOOLEAN, crossed \in BOOLEAN, [ModelsPageNext]_modelsPageVars
  PROVE  collided' \in BOOLEAN /\ crossed' \in BOOLEAN
<1>1. ASSUME NEW s \in 0..MaxSessions, SelectSession(s) \/ DeleteSession(s) \/ SessionDeleted(s)
      PROVE  collided' \in BOOLEAN /\ crossed' \in BOOLEAN
  <2>1. SessionDeleted(s) => UNCHANGED crossed /\ collided' \in BOOLEAN
    BY DEF SessionDeleted
  <2>2. SelectSession(s) \/ DeleteSession(s) => UNCHANGED <<crossed, collided>>
    BY DEF SelectSession, DeleteSession, history
  <2> QED  BY <1>1, <2>1, <2>2
<1>2. CASE Remount
  BY <1>2 DEF Remount
<1>3. ASSUME NEW f \in flows, HandlerStep(f) \/ CountFails(f) \/ FlowFails(f)
      PROVE  collided' \in BOOLEAN /\ crossed' \in BOOLEAN
  <2>1. RunCreated(f) => UNCHANGED collided /\ crossed' \in BOOLEAN
    BY DEF RunCreated
  <2>2. CountFails(f) \/ RemoveEnds(f) \/ ResetEnds(f) => UNCHANGED crossed /\ (collided' = TRUE \/ collided' = collided)
    BY DEF CountFails, RemoveEnds, ResetEnds
  <2>3. CASE RunRemoved(f) \/ TrainingStarted(f) \/ OperationsCounted(f) \/ DeleteOperations(f)
             \/ EnqueueRun(f) \/ ResetBegins(f) \/ RemoveBegins(f) \/ FlowFails(f)
    <3>1. UNCHANGED <<collided, crossed>>
      BY <2>3 DEF RunRemoved, TrainingStarted, OperationsCounted, DeleteOperations, EnqueueRun,
         ResetBegins, RemoveBegins, FlowFails, history
    <3> QED  BY <3>1
  <2> QED  BY <1>3, <2>1, <2>2, <2>3 DEF HandlerStep
<1>4. CASE PostRun
  BY <1>4 DEF PostRun
<1>5. CASE ListOfRunsArrives
  BY <1>5 DEF ListOfRunsArrives
<1>6. ASSUME NEW r \in RunIds, NEW kind, DeleteRun(r) \/ TrainRun(r) \/ PostOp(r, kind)
      PROVE  collided' \in BOOLEAN /\ crossed' \in BOOLEAN
  BY <1>6 DEF DeleteRun, TrainRun, PostOp
<1>7. CASE ConfirmRetrain
  BY <1>7 DEF ConfirmRetrain
<1>8. ASSUME NEW c \in callbacks, RunArrives(c)  PROVE collided' \in BOOLEAN /\ crossed' \in BOOLEAN
  BY <1>8 DEF RunArrives
<1>9. CASE CreateSession \/ CancelRetrain \/ ModelConsumer \/ (\E w \in watched : JobTold(w))
           \/ (\E f \in flows : EnqueueBreaks(f) \/ StartUnheard(f)) \/ UNCHANGED modelsPageVars
  <2>1. UNCHANGED <<collided, crossed>>
    BY <1>9 DEF CreateSession, CancelRetrain, ModelConsumer, TakeModelJob, SaveModel, TrainingEnds,
       OperationEnds, JobTold, EnqueueBreaks, StartUnheard, modelsPageVars, history
  <2> QED  BY <2>1
<1>10. CASE AnswerLost
  BY <1>10 DEF AnswerLost
<1> QED
  BY <1>1, <1>2, <1>3, <1>4, <1>5, <1>6, <1>7, <1>8, <1>9, <1>10 DEF ModelsPageNext

\* Runs are forsaken that there may be.
LEMMA ForsakenStep ==
  ASSUME ModelsInv, Shape, forsaken \subseteq RunIds, unaware \in BOOLEAN, [ModelsPageNext]_modelsPageVars
  PROVE  forsaken' \subseteq RunIds /\ unaware' \in BOOLEAN
<1>1. CASE UNCHANGED watches
  BY <1>1 DEF watches
<1>2. ASSUME NEW f \in flows, TrainingStarted(f) \/ EnqueueBreaks(f) \/ StartUnheard(f)
      PROVE  forsaken' \subseteq RunIds /\ unaware' \in BOOLEAN
  <2>1. f.run \in RunIds
    BY DEF ModelsInv, Typed, PageTyped, Flow
  <2> QED  BY <1>2, <2>1 DEF TrainingStarted, EnqueueBreaks, StartUnheard
<1>3. ASSUME NEW w \in watched, JobTold(w)  PROVE forsaken' \subseteq RunIds /\ unaware' \in BOOLEAN
  <2>1. w.run \in RunIds
    BY DEF Shape
  <2> QED  BY <1>3, <2>1 DEF JobTold
<1>4. ASSUME NEW c \in callbacks, RunArrives(c)  PROVE UNCHANGED <<forsaken, unaware>>
  BY <1>4 DEF RunArrives
<1>5. CASE Remount
  BY <1>5 DEF Remount
<1>6. ASSUME NEW s, SelectSession(s) \/ DeleteSession(s) \/ SessionDeleted(s)  PROVE UNCHANGED watches
  BY <1>6 DEF SelectSession, DeleteSession, SessionDeleted
<1>7. ASSUME NEW f \in flows, ~TrainingStarted(f), HandlerStep(f) \/ CountFails(f) \/ FlowFails(f)
      PROVE  UNCHANGED watches
  BY <1>7 DEF HandlerStep, CountFails, FlowFails, OperationsCounted, DeleteOperations, EnqueueRun,
       ResetBegins, ResetEnds, RemoveBegins, RemoveEnds, RunCreated, RunRemoved, pageState
<1>8. CASE PostRun \/ ConfirmRetrain \/ CancelRetrain \/ ModelConsumer \/ CreateSession \/ ListOfRunsArrives
            \/ AnswerLost \/ \E r \in RunIds : DeleteRun(r) \/ TrainRun(r) \/ \E kind : PostOp(r, kind)
  <2>1. UNCHANGED watches
    BY <1>8 DEF PostRun, ConfirmRetrain, CancelRetrain, ModelConsumer, DeleteRun, TrainRun, PostOp,
         AnswerLost, CreateSession, ListOfRunsArrives, TakeModelJob, SaveModel, TrainingEnds, OperationEnds, pageState
  <2> QED  BY <1>1, <2>1
<1>9. CASE UNCHANGED modelsPageVars
  BY <1>1, <1>9 DEF modelsPageVars, pageState
<1> QED
  BY <1>1, <1>2, <1>3, <1>4, <1>5, <1>6, <1>7, <1>8, <1>9 DEF ModelsPageNext

\* So the page, too, stays within its bounds.
LEMMA PageKnownStep ==
  ASSUME ModelsInv, Shape, PageKnown, [ModelsPageNext]_modelsPageVars
  PROVE  PageKnown'
<1>1. (listed \cup leaving \subseteq 1..MaxSessions /\ selected \in listed \cup {0})'
  BY ListingStep
<1>2. failures' \in Nat /\ mounts' \in Nat /\ failures' + mounts' <= MaxMishaps
  <2>1. failures \in Nat /\ mounts \in Nat /\ failures + mounts <= MaxMishaps /\ MaxMishaps \in Nat
    BY DEF PageKnown
  <2> QED  BY <2>1, MishapsStep DEF Fail, Mishap
<1>3. collided' \in BOOLEAN /\ crossed' \in BOOLEAN
  BY HistoriesStep DEF PageKnown
<1>4. forsaken' \subseteq RunIds /\ unaware' \in BOOLEAN
  BY ForsakenStep DEF PageKnown
<1> QED
  BY <1>1, <1>2, <1>3, <1>4 DEF PageKnown

\* Nothing is counted, known or listed at first but one session.
LEMMA TypesInit == ModelsPageInit => FlowsCounted /\ ModelsKnown /\ PageKnown
<1> SUFFICES ASSUME ModelsPageInit  PROVE FlowsCounted /\ ModelsKnown /\ PageKnown
  OBVIOUS
<1>1. /\ listed = {1} /\ leaving = {} /\ selected = 0 /\ modelJobs = <<>> /\ inHand = noWork
      /\ flows = {} /\ trained = 0 /\ failures = 0 /\ mounts = 0
      /\ collided = FALSE /\ crossed = FALSE
      /\ \A r \in RunIds : runs[r] = noRun /\ op[r] = noOp
  BY DEF ModelsPageInit
<1>2. FlowsCounted
  <2>1. Trainers = {}
    BY <1>1 DEF Trainers
  <2>2. IsFiniteSet({}) /\ Cardinality({}) = 0
    BY FS_EmptySet
  <2>3. IsFiniteSet(flows) /\ Cardinality(Trainers) = 0
    BY <1>1, <2>1, <2>2
  <2> QED  BY <1>1, <2>3 DEF FlowsCounted
<1>3. ModelsKnown
  <2>1. DOMAIN modelJobs = {}
    BY <1>1
  <2>2. \A r \in RunIds : runs[r].session = 0 /\ runs[r].model = 0 /\ op[r].model = 0
    BY <1>1 DEF noRun, noOp
  <2>3. inHand.job = 0 /\ inHand.model = 0
    BY <1>1 DEF noWork
  <2>4. MaxSessions \in Nat
    OBVIOUS
  <2> QED  BY <1>1, <2>1, <2>2, <2>3, <2>4 DEF ModelsKnown
<1>4. PageKnown
  <2>1. listed \cup leaving \subseteq 1..MaxSessions /\ selected \in listed \cup {0}
    BY <1>1
  <2>2. failures \in Nat /\ mounts \in Nat /\ failures + mounts <= MaxMishaps
    BY <1>1
  <2>3. /\ collided \in BOOLEAN /\ crossed \in BOOLEAN
        /\ forsaken \subseteq RunIds /\ unaware \in BOOLEAN
    BY DEF ModelsPageInit
  <2> QED  BY <2>1, <2>2, <2>3 DEF PageKnown
<1> QED
  BY <1>2, <1>3, <1>4

\* Handlers have numbers of their own.
LEMMA NumbersCounted ==
  ASSUME FlowsCounted
  PROVE  Cardinality({f.id : f \in flows}) = Cardinality(flows)
<1>1. PICK ids : ids = {f.id : f \in flows}
  OBVIOUS
<1>2. PICK idOf : idOf = [f \in flows |-> f.id]
  OBVIOUS
<1>3. idOf \in Bijection(flows, ids)
  BY <1>1, <1>2 DEF FlowsCounted, Bijection, Injection, Surjection, IsInjective
<1>4. ExistsBijection(flows, ids)
  BY <1>3 DEF ExistsBijection
<1>5. Cardinality(flows) = Cardinality(ids)
  BY <1>4, FS_Bijection DEF FlowsCounted
<1> QED
  BY <1>1, <1>5

\* Tables, queue and page have the shape they should have; no row and no
\* operation is about a training that was not enqueued, and no two handlers
\* of the page have the same number.
THEOREM ModelsPageTypeHolds == ModelsPageSpec => []ModelsPageTypeOK
<1>1. ModelsInv /\ Shape /\ FlowsCounted /\ ModelsKnown /\ PageKnown /\ [ModelsPageNext]_modelsPageVars
      => (FlowsCounted /\ ModelsKnown /\ PageKnown)'
  BY CountedStep, KnownStep, PageKnownStep DEF ModelsInv
<1>2. ModelsInv /\ Shape /\ FlowsCounted /\ ModelsKnown /\ PageKnown => ModelsPageTypeOK
  <2> SUFFICES ASSUME ModelsInv, Shape, FlowsCounted, ModelsKnown, PageKnown  PROVE ModelsPageTypeOK
    OBVIOUS
  <2>1. sessions \cup listed \cup leaving \subseteq 1..MaxSessions
    BY DEF PageKnown, ModelsInv, Typed, TablesTyped
  <2>2. ASSUME NEW r \in RunIds
        PROVE  /\ runs[r].session \in 0..MaxSessions /\ runs[r].model \in 0..trained
               /\ runs[r].status \in Statuses /\ op[r].model \in 0..trained
    BY <2>2 DEF ModelsKnown, ModelsInv, Typed, TablesTyped, RunRow, Shape, OpRow
  <2>3. shown \in [RunIds -> Statuses] /\ dialog \in 0..MaxRuns
    BY DEF Shape, ModelsInv, Typed, PageTyped
  <2>4. trained \in 0..MaxTrained
    BY TrainersFinite DEF FlowsCounted, ModelsInv, Typed, TablesTyped
  <2>5. /\ failures + mounts \in 0..MaxMishaps /\ selected \in listed \cup {0}
        /\ collided \in BOOLEAN /\ crossed \in BOOLEAN
        /\ forsaken \subseteq RunIds /\ unaware \in BOOLEAN
    BY DEF PageKnown
  <2> QED
    BY <2>1, <2>2, <2>3, <2>4, <2>5, NumbersCounted DEF ModelsPageTypeOK, Statuses
<1> QED
  BY <1>1, <1>2, TypesInit, PageInvariance, PTL DEF ModelsPageSpec
===============================================================================
