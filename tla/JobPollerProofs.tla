-------------------------- MODULE JobPollerProofs --------------------------
(***************************************************************************)
(* Proofs about JobPoller, for any set of jobs and widgets, any number of  *)
(* overlapping polls and any number of failed requests.                    *)
(***************************************************************************)
EXTENDS JobPoller, TLAPS

Answers == Changes \cup IsEmptyAnswers

\* Rows that say how a job ended are right, however old they are.
Truthful(rows) == \A j \in Jobs : rows[j] \in Ended => job[j] \in {rows[j], "gone"}

AllTruthful(p) == \A i \in DOMAIN p : p[i].kind = "changes" => Truthful(p[i].all_jobs)

IInv ==
  /\ TypeOK
  /\ AllTruthful(polls)
  /\ Truthful(statuses)
  /\ ToldTruth
  /\ WatchEndsTold

-----------------------------------------------------------------------------
(* Sequences of answers *)

\* Taking one answer out leaves only answers that were there.
LEMMA RemoveAtKeeps ==
  ASSUME NEW S, NEW s \in Seq(S), NEW i \in DOMAIN s
  PROVE  /\ RemoveAt(s, i) \in Seq(S)
         /\ \A k \in DOMAIN RemoveAt(s, i) :
              \E m \in DOMAIN s : RemoveAt(s, i)[k] = s[m]
<1> DEFINE a == SubSeq(s, 1, i - 1)
           b == SubSeq(s, i + 1, Len(s))
<1>1. i \in 1..Len(s) /\ Len(s) \in Nat  OBVIOUS
<1>2. a \in Seq(S) /\ b \in Seq(S)  BY <1>1
<1>3. Len(a) = i - 1 /\ Len(b) = Len(s) - i  BY <1>1
<1>4. \A k \in 1..Len(a) : a[k] = s[k]  BY <1>1, <1>3
<1>5. \A k \in 1..Len(b) : b[k] = s[k + i]  BY <1>1, <1>3, SMTT(30)
<1> HIDE DEF a, b
<1>6. a \o b \in Seq(S) /\ Len(a \o b) = Len(s) - 1  BY <1>1, <1>2, <1>3
<1>7. ASSUME NEW k \in DOMAIN (a \o b)  PROVE \E m \in DOMAIN s : (a \o b)[k] = s[m]
  <2>1. k \in 1..(Len(s) - 1)  BY <1>6
  <2>2. CASE k <= i - 1
    BY <2>1, <2>2, <1>1, <1>2, <1>3, <1>4
  <2>3. CASE k > i - 1
    <3>1. (a \o b)[k] = b[k - (i - 1)] /\ k - (i - 1) \in 1..Len(b)
      BY <2>1, <2>3, <1>1, <1>2, <1>3, SMTT(30)
    <3>2. b[k - (i - 1)] = s[(k - (i - 1)) + i]  BY <3>1, <1>5
    <3>3. (k - (i - 1)) + i \in 1..Len(s)  BY <2>1, <2>3, <1>1
    <3> QED  BY <3>1, <3>2, <3>3, <1>1, SMTT(30)
  <2> QED  BY <2>1, <2>2, <2>3, <1>1, SMTT(30)
<1>8. RemoveAt(s, i) = a \o b  BY DEF RemoveAt, a, b
<1> QED  BY <1>6, <1>7, <1>8

\* So does removing one of several truthful answers.
LEMMA RemoveTruthful ==
  ASSUME NEW p \in Seq(Answers), AllTruthful(p), NEW i \in DOMAIN p
  PROVE  RemoveAt(p, i) \in Seq(Answers) /\ AllTruthful(RemoveAt(p, i))
BY RemoveAtKeeps, SMTT(30) DEF AllTruthful

\* What the server says is true, and stays so on the way.
LEMMA AppendTruthful ==
  ASSUME NEW p \in Seq(Answers), AllTruthful(p), NEW a \in Answers,
         a.kind = "changes" => Truthful(a.all_jobs)
  PROVE  Append(p, a) \in Seq(Answers) /\ AllTruthful(Append(p, a))
<1>1. Append(p, a) \in Seq(Answers) /\ Len(Append(p, a)) = Len(p) + 1  OBVIOUS
<1>2. \A k \in 1..Len(p) : Append(p, a)[k] = p[k]  OBVIOUS
<1>3. Append(p, a)[Len(p) + 1] = a  OBVIOUS
<1> QED  BY <1>1, <1>2, <1>3 DEF AllTruthful

\* The rows the server has now are true.
LEMMA RowsTruthful ==
  ASSUME TypeOK
  PROVE  all_jobs \in [Jobs -> RowStatus] /\ Truthful(all_jobs)
         /\ NoRows \in [Jobs -> RowStatus] /\ Truthful(NoRows)
BY DEF TypeOK, all_jobs, Row, Truthful, NoRows, RowStatus, JobStatus, Ended

\* The requests of pollJobs keep the answers under way truthful.
LEMMA AskIsEmptyKeeps ==
  ASSUME TypeOK, NEW p \in Seq(Answers), AllTruthful(p), AskIsEmpty(p)
  PROVE  polls' \in Seq(Answers) /\ AllTruthful(polls') /\ faults' \in 0..MaxFaults
<1>1. is_empty \in BOOLEAN  BY DEF is_empty
<1>2. \A e \in BOOLEAN : /\ [kind |-> "is_empty", empty |-> e] \in Answers
                         /\ [kind |-> "is_empty", empty |-> e].kind # "changes"
  BY DEF Answers, IsEmptyAnswers
<1>3. PICK e \in BOOLEAN : polls' = Append(p, [kind |-> "is_empty", empty |-> e])
  BY <1>1 DEF AskIsEmpty
<1>4. faults' \in 0..MaxFaults
  BY JobPollerAssumption DEF AskIsEmpty, TypeOK, Fault
<1> QED  BY <1>2, <1>3, <1>4, AppendTruthful

\* The request for the changes: its rows are the server's, or none.
LEMMA AskChangesKeeps ==
  ASSUME TypeOK, NEW p \in Seq(Answers), AllTruthful(p), AskChanges(p)
  PROVE  polls' \in Seq(Answers) /\ AllTruthful(polls') /\ faults' \in 0..MaxFaults
<1> DEFINE answer(rows, r) == [kind |-> "changes", all_jobs |-> rows,
                               cursor |-> EndedIn(job), recently_completed |-> r]
<1>1. \A rows \in [Jobs -> RowStatus], r \in BOOLEAN :
        answer(rows, r) \in Answers /\ answer(rows, r).all_jobs = rows
  BY DEF Answers, Changes, EndedIn
<1>2. PICK rows \in {all_jobs, NoRows}, r \in BOOLEAN : polls' = Append(p, answer(rows, r))
  BY DEF AskChanges
<1>3. rows \in [Jobs -> RowStatus] /\ Truthful(rows)  BY <1>2, RowsTruthful
<1>4. faults' \in 0..MaxFaults
  <2>1. UNCHANGED faults \/ Fault  BY Zenon DEF AskChanges
  <2> QED  BY <2>1, JobPollerAssumption DEF TypeOK, Fault
<1>5. answer(rows, r) \in Answers /\ Truthful(answer(rows, r).all_jobs)
  BY <1>1, <1>2, <1>3
<1> HIDE DEF answer
<1>6. /\ Append(p, answer(rows, r)) \in Seq(Answers)
      /\ AllTruthful(Append(p, answer(rows, r)))
  BY <1>5, AppendTruthful
<1> QED  BY <1>2, <1>4, <1>6

\* Whichever of the two pollJobs asks first.
LEMMA PollJobsKeeps ==
  ASSUME TypeOK, NEW p \in Seq(Answers), AllTruthful(p), NEW subs, NEW watched,
         PollJobs(p, subs, watched)
  PROVE  polls' \in Seq(Answers) /\ AllTruthful(polls') /\ faults' \in 0..MaxFaults
BY AskIsEmptyKeeps, AskChangesKeeps DEF PollJobs

\* startJobPoller leaves the poller active, and what it asked is truthful.
LEMMA EnsurePollingKeeps ==
  ASSUME IInv, NEW subs, NEW watched, EnsurePolling(subs, watched)
  PROVE  /\ active' = TRUE
         /\ polls' \in Seq(Answers) /\ AllTruthful(polls') /\ faults' \in 0..MaxFaults
<1>1. polls \in Seq(Answers) /\ AllTruthful(polls) /\ TypeOK /\ faults \in 0..MaxFaults
  BY DEF IInv, TypeOK, Answers
<1>2. CASE active
  <2>1. UNCHANGED <<polls, faults>>  BY <1>2 DEF EnsurePolling
  <2> QED  BY <1>1, <2>1 DEF EnsurePolling
<1>3. CASE ~active
  BY <1>1, <1>3, PollJobsKeeps DEF EnsurePolling
<1> QED  BY <1>2, <1>3
-----------------------------------------------------------------------------
(* The inductive invariant *)

\* Truth about the rows of before is truth about those of after when a job
\* moves on: no row of an answer says that it had ended.
LEMMA MovesKeep ==
  ASSUME IInv, NEW j \in Jobs, NEW from, NEW to \in JobStatus,
         to = "gone" \/ from \cap (Ended \cup {"gone"}) = {},
         job[j] \in from, job' = [job EXCEPT ![j] = to]
  PROVE  \A rows : Truthful(rows) => Truthful(rows)'
BY DEF IInv, TypeOK, Truthful, Ended, JobStatus

\* When the queue is asked, only the answers under way change.
LEMMA AskKeepsIInv ==
  ASSUME IInv, polls' \in Seq(Answers), AllTruthful(polls'), faults' \in 0..MaxFaults,
         UNCHANGED <<job, cursor, recent, told, statuses>>,
         watchers' \subseteq Jobs, active' \in BOOLEAN,
         watchers' \cup replies' = watchers \cup replies, replies' \subseteq Jobs,
         widget' \in [Widgets -> {"new", "on", "off"}]
  PROVE  IInv'
<1>1. TypeOK'  BY DEF IInv, TypeOK, Answers
<1>2. AllTruthful(polls)'  BY DEF AllTruthful, Truthful
<1>3. Truthful(statuses)'  BY DEF IInv, Truthful
<1>4. ToldTruth'  BY DEF IInv, ToldTruth
<1>5. WatchEndsTold'  BY DEF IInv, WatchEndsTold
<1> QED  BY <1>1, <1>2, <1>3, <1>4, <1>5 DEF IInv

\* The callbacks of watched jobs that answers say have ended.
LEMMA NotifyKeepsIInv ==
  ASSUME IInv, NEW rows, NEW done \in SUBSET (Jobs \cap EndedIn(rows)), Truthful(rows),
         Notify(done, rows), watchers' = watchers \ done,
         UNCHANGED <<job, widget, replies, faults>>,
         polls' \in Seq(Answers), AllTruthful(polls'),
         statuses' \in [Jobs -> RowStatus \cup {"none"}], Truthful(statuses'),
         cursor' \subseteq Jobs, recent' \in BOOLEAN, active' \in BOOLEAN
  PROVE  IInv'
<1>1. told' \in [Jobs -> {"none"} \cup Ended]
  BY DEF IInv, TypeOK, Notify, EndedIn
<1>2. TypeOK'  BY <1>1 DEF IInv, TypeOK, Answers
<1>3. AllTruthful(polls)'  BY DEF AllTruthful, Truthful
<1>4. Truthful(statuses)'  BY DEF Truthful
<1>5. ToldTruth'
  BY DEF IInv, ToldTruth, Notify, Truthful, EndedIn
<1>6. WatchEndsTold'
  <2>1. \A j \in done : told'[j] \in Ended  BY DEF Notify, EndedIn
  <2>2. \A j \in Jobs \ done : told'[j] = told[j]  BY DEF Notify
  <2> QED  BY <2>1, <2>2 DEF IInv, WatchEndsTold, Ended
<1> QED  BY <1>2, <1>3, <1>4, <1>5, <1>6 DEF IInv

\* A job that moves makes no answer false and no callback wrong.
LEMMA MoveKeepsIInv ==
  ASSUME IInv, NEW j \in Jobs, NEW from, NEW to \in JobStatus \ {"absent"},
         to = "gone" \/ from \cap (Ended \cup {"gone"}) = {},
         job[j] \in from, job' = [job EXCEPT ![j] = to],
         UNCHANGED <<active, watchers, cursor, recent, pageVars, polls, statuses, faults>>,
         replies' \subseteq Jobs, replies \subseteq replies',
         job[j] = "absent" => j \in replies'
  PROVE  IInv'
<1>1. TypeOK'  BY DEF IInv, TypeOK, pageVars
<1>2. \A rows : Truthful(rows) => Truthful(rows)'  BY MovesKeep
<1>3. AllTruthful(polls)'
  BY <1>2 DEF IInv, AllTruthful
<1>4. Truthful(statuses)'
  BY <1>2 DEF IInv
<1>5. ToldTruth'
  BY DEF IInv, TypeOK, ToldTruth, Ended, pageVars
<1>6. WatchEndsTold'
  BY DEF IInv, TypeOK, WatchEndsTold, pageVars
<1> QED  BY <1>1, <1>3, <1>4, <1>5, <1>6 DEF IInv

\* Initially no job was posted and nothing is under way.
LEMMA InitIInv == Init => IInv
<1> SUFFICES ASSUME Init  PROVE IInv
  OBVIOUS
<1>1. polls \in Seq(Answers) /\ DOMAIN polls = {}  BY DEF Init
<1>2. faults \in 0..MaxFaults  BY JobPollerAssumption DEF Init
<1>3. job \in [Jobs -> JobStatus] /\ \A j \in Jobs : job[j] = "absent"
  BY DEF Init, JobStatus
<1>4. told \in [Jobs -> {"none"} \cup Ended] /\ \A j \in Jobs : told[j] = "none"
  BY DEF Init
<1>5. statuses \in [Jobs -> RowStatus \cup {"none"}] /\ \A j \in Jobs : statuses[j] = "none"
  BY DEF Init
<1>6. TypeOK
  <2>1. widget \in [Widgets -> {"new", "on", "off"}]  BY DEF Init
  <2>2. /\ active \in BOOLEAN /\ recent \in BOOLEAN
        /\ watchers \subseteq Jobs /\ cursor \subseteq Jobs /\ replies \subseteq Jobs
    BY DEF Init
  <2> QED
    BY <1>1, <1>2, <1>3, <1>4, <1>5, <2>1, <2>2 DEF TypeOK, Answers
<1>7. AllTruthful(polls)  BY <1>1 DEF AllTruthful
<1>8. Truthful(statuses)  BY <1>5 DEF Truthful, Ended
<1>9. ToldTruth /\ WatchEndsTold  BY <1>3, <1>4 DEF ToldTruth, WatchEndsTold
<1> QED  BY <1>6, <1>7, <1>8, <1>9 DEF IInv

\* Every step of the pages, the timers, the server and the answers keeps the
\* inductive invariant.
LEMMA StepIInv == IInv /\ [Next]_vars => IInv'
<1> SUFFICES ASSUME IInv, [Next]_vars  PROVE IInv'
  OBVIOUS
<1> USE DEF pageVars, wires
<1>a. TypeOK  BY DEF IInv
<1>b. polls \in Seq(Answers) /\ AllTruthful(polls) /\ faults \in 0..MaxFaults
  BY DEF IInv, TypeOK, Answers
<1>c. all_jobs \in [Jobs -> RowStatus] /\ NoRows \in [Jobs -> RowStatus]
  BY <1>a, RowsTruthful
<1>d. Truthful(statuses)  BY DEF IInv
<1>1. ASSUME NEW j \in Jobs, Enqueue(j)  PROVE IInv'
  <2>1. {"absent"} \cap (Ended \cup {"gone"}) = {}  BY DEF Ended
  <2>2. "not_started" \in JobStatus \ {"absent"}  BY DEF JobStatus
  <2>3. job[j] \in {"absent"} /\ j \in replies' /\ replies' \subseteq Jobs /\ replies \subseteq replies'
    BY <1>1, <1>a DEF Enqueue, TypeOK
  <2> QED  BY <1>1, <2>1, <2>2, <2>3, MoveKeepsIInv DEF Enqueue
<1>2. ASSUME NEW j \in Jobs, JobRuns(j)  PROVE IInv'
  <2>1. PICK from \in {"not_started", "taken", "started"}, to \in {"taken", "started"} \cup Ended :
          JobMoves(j, {from}, to)
    BY <1>2 DEF JobRuns
  <2>2. {from} \cap (Ended \cup {"gone"}) = {} /\ to \in JobStatus \ {"absent"} /\ job[j] # "absent"
    BY <2>1 DEF Ended, JobStatus, JobMoves
  <2>3. replies' = replies /\ replies \subseteq Jobs  BY <2>1, <1>a DEF JobMoves, TypeOK
  <2> QED  BY <2>1, <2>2, <2>3, MoveKeepsIInv DEF JobMoves
<1>3. ASSUME NEW j \in Jobs, JobRemoved(j)  PROVE IInv'
  <2>1. "gone" \in JobStatus \ {"absent"} /\ job[j] # "absent"
    BY <1>3 DEF JobRemoved, JobMoves, JobStatus
  <2>2. replies' = replies /\ replies \subseteq Jobs
    BY <1>3, <1>a DEF JobRemoved, JobMoves, TypeOK
  <2> QED  BY <1>3, <2>1, <2>2, MoveKeepsIInv DEF JobRemoved, JobMoves
<1>4. ASSUME NEW w \in Widgets, Subscribe(w)  PROVE IInv'
  <2>1. EnsurePolling(subscribers \cup {w}, watchers)  BY <1>4 DEF Subscribe
  <2>2. active' = TRUE /\ polls' \in Seq(Answers) /\ AllTruthful(polls') /\ faults' \in 0..MaxFaults
    BY <2>1, EnsurePollingKeeps
  <2>3. widget' \in [Widgets -> {"new", "on", "off"}]  BY <1>4, <1>a DEF Subscribe, TypeOK
  <2> QED  BY <1>4, <1>a, <2>2, <2>3, AskKeepsIInv DEF Subscribe, TypeOK
<1>5. ASSUME NEW w \in Widgets, Unsubscribe(w)  PROVE IInv'
  <2>1. widget' \in [Widgets -> {"new", "on", "off"}] /\ active' \in BOOLEAN
    BY <1>5, <1>a DEF Unsubscribe, TypeOK
  <2> QED  BY <1>5, <1>a, <1>b, <2>1, AskKeepsIInv DEF Unsubscribe, TypeOK
<1>6. CASE Refresh
  <2>1. PollJobs(polls, subscribers, watchers)  BY <1>6 DEF Refresh
  <2>2. polls' \in Seq(Answers) /\ AllTruthful(polls') /\ faults' \in 0..MaxFaults
    BY <2>1, <1>a, <1>b, PollJobsKeeps
  <2> QED  BY <1>6, <1>a, <2>2, AskKeepsIInv DEF Refresh, TypeOK
<1>7. CASE PollTick
  <2>1. PollJobs(polls, subscribers, watchers)  BY <1>7 DEF PollTick
  <2>2. polls' \in Seq(Answers) /\ AllTruthful(polls') /\ faults' \in 0..MaxFaults
    BY <2>1, <1>a, <1>b, PollJobsKeeps
  <2> QED  BY <1>7, <1>a, <2>2, AskKeepsIInv DEF PollTick, TypeOK
<1>8. CASE FiveSeconds
  <2>1. TypeOK'  BY <1>8, <1>a DEF FiveSeconds, TypeOK
  <2> QED
    BY <1>8, <2>1 DEF FiveSeconds, IInv, AllTruthful, Truthful, ToldTruth, WatchEndsTold
<1>9. ASSUME NEW j \in Jobs, StatusTick(j)  PROVE IInv'
  <2>1. statuses' = [statuses EXCEPT ![j] = all_jobs[j]]
    BY <1>9 DEF StatusTick, all_jobs
  <2>2. statuses' \in [Jobs -> RowStatus \cup {"none"}]
    BY <2>1, <1>a, <1>c DEF TypeOK
  <2>3. Truthful(statuses')
    BY <2>1, <1>a, <1>d, RowsTruthful DEF TypeOK, Truthful
  <2>4. TypeOK'  BY <1>9, <1>a, <2>2 DEF StatusTick, TypeOK
  <2>5. AllTruthful(polls)' /\ Truthful(statuses)' /\ ToldTruth' /\ WatchEndsTold'
    BY <1>9, <1>b, <2>3
       DEF StatusTick, IInv, AllTruthful, Truthful, ToldTruth, WatchEndsTold
  <2> QED  BY <2>4, <2>5 DEF IInv
<1>10. ASSUME NEW i \in DOMAIN polls, IsEmptyArrives(i)  PROVE IInv'
  <2>1. RemoveAt(polls, i) \in Seq(Answers) /\ AllTruthful(RemoveAt(polls, i))
    BY <1>b, RemoveTruthful
  <2>2. polls' \in Seq(Answers) /\ AllTruthful(polls') /\ faults' \in 0..MaxFaults
    <3>1. CASE polls[i].empty
      <4>1. polls' = RemoveAt(polls, i) /\ UNCHANGED faults
        BY <1>10, <3>1 DEF IsEmptyArrives
      <4> QED  BY <4>1, <2>1, <1>b
    <3>2. CASE ~polls[i].empty
      <4>1. AskChanges(RemoveAt(polls, i))  BY <1>10, <3>2 DEF IsEmptyArrives
      <4> QED  BY <4>1, <2>1, <1>a, AskChangesKeeps
    <3> QED  BY <3>1, <3>2
  <2>3. active' \in BOOLEAN  BY <1>10, <1>a DEF IsEmptyArrives, TypeOK
  <2> QED  BY <1>10, <1>a, <2>2, <2>3, AskKeepsIInv DEF IsEmptyArrives, TypeOK
<1>11. ASSUME NEW i \in DOMAIN polls, ChangesArrive(i)  PROVE IInv'
  <2> DEFINE a == polls[i]
             done == watchers \cap EndedIn(a.all_jobs)
  <2>1. RemoveAt(polls, i) \in Seq(Answers) /\ AllTruthful(RemoveAt(polls, i))
    BY <1>b, RemoveTruthful
  <2>2. a \in Answers /\ a.kind = "changes"  BY <1>b, <1>11 DEF ChangesArrive
  <2>3. a \in Changes  BY <2>2 DEF Answers, IsEmptyAnswers
  <2>4. a.all_jobs \in [Jobs -> RowStatus] /\ a.cursor \subseteq Jobs
        /\ a.recently_completed \in BOOLEAN
    BY <2>3 DEF Changes
  <2>5. Truthful(a.all_jobs)  BY <1>b, <2>2 DEF AllTruthful
  <2>6. done \in SUBSET (Jobs \cap EndedIn(a.all_jobs))  BY <1>a DEF TypeOK
  <2>7. /\ Notify(done, a.all_jobs) /\ watchers' = watchers \ done
        /\ cursor' = a.cursor /\ recent' = (recent \/ a.recently_completed)
        /\ polls' = RemoveAt(polls, i)
        /\ UNCHANGED <<job, widget, statuses, replies, faults>>
    BY <1>11 DEF ChangesArrive
  <2>8. active' \in BOOLEAN /\ recent' \in BOOLEAN
    BY <1>11, <1>a DEF ChangesArrive, TypeOK
  <2>9. statuses' \in [Jobs -> RowStatus \cup {"none"}] /\ Truthful(statuses')
    BY <2>7, <1>a, <1>d DEF TypeOK
  <2> HIDE DEF a, done
  <2> QED
    BY <2>1, <2>4, <2>5, <2>6, <2>7, <2>8, <2>9, NotifyKeepsIInv
<1>12. ASSUME NEW j \in Jobs, StatusArrives(j)  PROVE IInv'
  <2> DEFINE done == {j} \cap EndedIn(statuses)
  <2>1. done \in SUBSET (Jobs \cap EndedIn(statuses))  OBVIOUS
  <2>2. statuses' \in [Jobs -> RowStatus \cup {"none"}]
    BY <1>12, <1>a DEF StatusArrives, TypeOK
  <2>3. Truthful(statuses')
    BY <1>12, <1>a, <1>d DEF StatusArrives, TypeOK, Truthful, Ended
  <2>4. /\ Notify(done, statuses) /\ watchers' = watchers \ done
        /\ UNCHANGED <<job, active, cursor, recent, widget, polls, replies, faults>>
    BY <1>12 DEF StatusArrives
  <2> HIDE DEF done
  <2> QED
    BY <1>a, <1>b, <1>d, <2>1, <2>2, <2>3, <2>4, NotifyKeepsIInv DEF TypeOK
<1>13. ASSUME NEW j \in Jobs, StartJobPolling(j)  PROVE IInv'
  <2>1. EnsurePolling(subscribers, watchers')  BY <1>13 DEF StartJobPolling
  <2>2. active' = TRUE /\ polls' \in Seq(Answers) /\ AllTruthful(polls') /\ faults' \in 0..MaxFaults
    BY <2>1, EnsurePollingKeeps
  <2>3. watchers' \cup replies' = watchers \cup replies /\ watchers' \subseteq Jobs /\ replies' \subseteq Jobs
    BY <1>13, <1>a DEF StartJobPolling, TypeOK
  <2> QED  BY <1>13, <1>a, <2>2, <2>3, AskKeepsIInv DEF StartJobPolling, TypeOK
<1>14. ASSUME NEW i \in DOMAIN polls, PollFails(i)  PROVE IInv'
  <2>1. polls' \in Seq(Answers) /\ AllTruthful(polls')
    BY <1>14, <1>b, RemoveTruthful DEF PollFails
  <2>2. faults' \in 0..MaxFaults  BY <1>14, <1>b, JobPollerAssumption DEF PollFails, Fault
  <2> QED  BY <1>14, <1>a, <2>1, <2>2, AskKeepsIInv DEF PollFails, TypeOK
<1>15. ASSUME NEW j \in Jobs, StatusFails(j)  PROVE IInv'
  <2>1. statuses' \in [Jobs -> RowStatus \cup {"none"}]
    BY <1>15, <1>a DEF StatusFails, TypeOK
  <2>2. Truthful(statuses)'
    BY <1>15, <1>a, <1>d DEF StatusFails, TypeOK, Truthful, Ended
  <2>3. faults' \in 0..MaxFaults  BY <1>15, <1>b, JobPollerAssumption DEF StatusFails, Fault
  <2>4. TypeOK'  BY <1>15, <1>a, <2>1, <2>3 DEF StatusFails, TypeOK
  <2>5. AllTruthful(polls)' /\ ToldTruth' /\ WatchEndsTold'
    BY <1>15 DEF StatusFails, IInv, AllTruthful, Truthful, ToldTruth, WatchEndsTold
  <2> QED  BY <2>2, <2>4, <2>5 DEF IInv
<1>16. CASE UNCHANGED vars
  BY <1>16 DEF vars, IInv, TypeOK, AllTruthful, Truthful, ToldTruth, WatchEndsTold
<1> QED
  BY <1>1, <1>2, <1>3, <1>4, <1>5, <1>6, <1>7, <1>8, <1>9, <1>10, <1>11, <1>12, <1>13,
     <1>14, <1>15, <1>16
     DEF Next, OfJob, OfWidget, PollArrives

\* The inductive invariant holds throughout.
LEMMA Invariance == Spec => []IInv
BY InitIInv, StepIInv, PTL DEF Spec

-----------------------------------------------------------------------------
\* The variables of the poller keep to their types.
THEOREM TypeCorrect == Spec => []TypeOK
<1>1. IInv => TypeOK  BY DEF IInv
<1> QED  BY <1>1, Invariance, PTL

\* jobPoller.js ends a watch in two places, both next to the callback; with
\* overlapping answers from either it is never ended without one.
THEOREM WatchEndsToldHolds == Spec => []WatchEndsTold
<1>1. IInv => WatchEndsTold  BY DEF IInv
<1> QED  BY <1>1, Invariance, PTL

\* onSuccess and onError tell the truth, however late the answer.
THEOREM ToldTruthHolds == Spec => []ToldTruth
<1>1. IInv => ToldTruth  BY DEF IInv
<1> QED  BY <1>1, Invariance, PTL
=============================================================================
