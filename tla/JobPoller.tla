----------------------------- MODULE JobPoller -----------------------------
(***************************************************************************)
(* The front end's view of the job queue: utils/jobPoller.js, the hooks    *)
(* that call it and the answers of the jobs endpoints.                     *)
(*                                                                         *)
(* JavaScript runs one callback at a time, but every await lets others in: *)
(* what pollJobs tested before it asked the server may be false when the   *)
(* answer comes.  A request is answered at once, from the state the server *)
(* is in; the answer arrives later, and may overtake others, for the       *)
(* browser has several connections.                                        *)
(***************************************************************************)
EXTENDS Integers, Sequences, FiniteSets, SequencesExt

CONSTANTS
  Jobs,          \* job ids enqueue_job may hand out
  Widgets,       \* instances of JobQueueWidget that may be mounted
  MaxPolls,      \* bound on answers to pollJobs that are under way
  MaxFaults      \* bound on failed requests

ASSUME JobPollerAssumption ==
  /\ MaxFaults \in Nat
  /\ MaxPolls \in Nat \ {0}

VARIABLES
  job,          \* the row of a job in task_copy (see JobQueue)
  widget,       \* "new", "on" (its callback is in state.subscribers), "off"
  active,       \* state.active, and the interval that goes with it
  watchers,     \* the keys of state.jobWatchers, each with its interval
  cursor,       \* the ended jobs state.lastCursor is later than
  recent,       \* state.lastCompletionTime is not 5 seconds old
  told,         \* the callback of a job that was called last, if any
  polls,        \* the answers to pollJobs under way
  statuses,     \* the answer to a watched job's own interval under way, if any
  replies,      \* the jobs whose id is on its way to the page that posted them
  faults

pageVars == <<widget, told>>
wires == <<polls, statuses, replies>>
vars == <<job, active, watchers, cursor, recent, pageVars, wires, faults>>

\* "taken" is the window of JobQueue's EmptyIsIdle: removed from Huey's table,
\* and not_started until the EXECUTING signal.
JobStatus == {"absent", "not_started", "taken", "started", "finished", "error", "gone"}
Ended == {"finished", "error"}

\* What a row of an answer says; not_started and started are told apart by
\* nobody here.
RowStatus == {"absent", "active", "finished", "error"}
Row(s) == IF s \in Ended THEN s
          ELSE IF s \in {"absent", "gone"} THEN "absent" ELSE "active"

NoRows   == [j \in Jobs |-> "absent"]
all_jobs == [j \in Jobs |-> Row(job[j])]

EndedIn(rows) == {j \in Jobs : rows[j] \in Ended}
\* Mutant: whatever is not finished counts as active.
hasActiveJobsUnlessFinished(rows) == \E j \in Jobs : rows[j] \notin {"absent", "finished"}

hasActiveJobs(rows) == \E j \in Jobs : rows[j] = "active"

subscribers == {w \in Widgets : widget[w] = "on"}

Init ==
  /\ job = [j \in Jobs |-> "absent"]
  /\ active = FALSE /\ watchers = {} /\ cursor = {} /\ recent = FALSE
  /\ widget = [w \in Widgets |-> "new"]
  /\ told = [j \in Jobs |-> "none"]
  /\ polls = <<>> /\ replies = {}
  /\ statuses = [j \in Jobs |-> "none"]
  /\ faults = 0

Fault == faults < MaxFaults /\ faults' = faults + 1

-----------------------------------------------------------------------------
(* The endpoints that pollJobs asks: p are the other answers under way.    *)

is_empty == \A j \in Jobs : job[j] \notin {"not_started", "started"}

\* is_queue_empty says TRUE when it fails.
AskIsEmpty(p) ==
  \/ polls' = Append(p, [kind |-> "is_empty", empty |-> is_empty]) /\ UNCHANGED faults
  \/ polls' = Append(p, [kind |-> "is_empty", empty |-> TRUE]) /\ Fault

\* get_job_changes reads the cursor's clock after the rows, and a row's stamp
\* has milliseconds where the cursor has microseconds: a job that ended in
\* between is missed.  When it fails it answers with no rows.
AskChanges(p) ==
  \/ \E r \in BOOLEAN :
       /\ r => EndedIn(job) \ cursor # {}
       /\ polls' = Append(p, [kind |-> "changes", all_jobs |-> all_jobs,
                              cursor |-> EndedIn(job), recently_completed |-> r])
       /\ UNCHANGED faults
  \/ /\ polls' = Append(p, [kind |-> "changes", all_jobs |-> NoRows,
                            cursor |-> EndedIn(job), recently_completed |-> FALSE])
     /\ Fault

\* pollJobs, up to its first await.
PollJobs(p, subs, watched) ==
  IF subs = {} /\ watched = {} THEN AskIsEmpty(p) ELSE AskChanges(p)

\* "Make sure polling is active": startJobPoller, unless it is.
EnsurePolling(subs, watched) ==
  /\ active' = TRUE
  /\ IF active THEN UNCHANGED <<polls, faults>> ELSE PollJobs(polls, subs, watched)

-----------------------------------------------------------------------------
(* The server and the consumer *)

\* A page posts a job.
Enqueue(j) ==
  /\ job[j] = "absent"
  /\ job' = [job EXCEPT ![j] = "not_started"]
  /\ replies' = replies \cup {j}
  /\ UNCHANGED <<active, watchers, cursor, recent, pageVars, polls, statuses, faults>>

JobMoves(j, from, to) ==
  /\ job[j] \in from
  /\ job' = [job EXCEPT ![j] = to]
  /\ UNCHANGED <<active, watchers, cursor, recent, pageVars, wires, faults>>

JobRuns(j) ==
  \/ JobMoves(j, {"not_started"}, "taken")
  \/ JobMoves(j, {"taken"}, "started")
  \/ \E end \in Ended : JobMoves(j, {"started"}, end)

\* Cancel or Clear All: the row is deleted.
JobRemoved(j) == JobMoves(j, JobStatus \ {"absent", "gone"}, "gone")

-----------------------------------------------------------------------------
(* The pages *)

\* useJobManager subscribes when it mounts; the rows it shows are not kept here.
Subscribe(w) ==
  /\ widget[w] = "new"
  /\ widget' = [widget EXCEPT ![w] = "on"]
  /\ EnsurePolling(subscribers \cup {w}, watchers)
  /\ UNCHANGED <<job, watchers, cursor, recent, told, statuses, replies>>

Unsubscribe(w) ==
  /\ w \in subscribers
  /\ widget' = [widget EXCEPT ![w] = "off"]
  /\ active' = (active /\ ~(subscribers = {w} /\ watchers = {}))
  /\ UNCHANGED <<job, watchers, cursor, recent, told, wires, faults>>

\* The refresh button: forceRefreshNow polls whether or not it is active.
Refresh ==
  /\ subscribers # {}
  /\ Len(polls) < MaxPolls
  /\ active' = TRUE
  /\ PollJobs(polls, subscribers, watchers)
  /\ UNCHANGED <<job, watchers, cursor, recent, pageVars, statuses, replies>>

-----------------------------------------------------------------------------
(* The timers *)

PollTick ==
  /\ active
  /\ Len(polls) < MaxPolls
  /\ PollJobs(polls, subscribers, watchers)
  /\ UNCHANGED <<job, active, watchers, cursor, recent, pageVars, statuses, replies>>

\* The interval of one watched job; one answer at a time is under way.
StatusTick(j) ==
  /\ j \in watchers
  /\ statuses[j] = "none"
  /\ statuses' = [statuses EXCEPT ![j] = Row(job[j])]
  /\ UNCHANGED <<job, active, watchers, cursor, recent, pageVars, polls, replies, faults>>

FiveSeconds ==
  /\ recent
  /\ recent' = FALSE
  /\ UNCHANGED <<job, active, watchers, cursor, pageVars, wires, faults>>

-----------------------------------------------------------------------------
(* The answers *)

\* The callbacks of the jobs in done: onSuccess or onError.
Notify(done, rows) ==
  told' = [j \in Jobs |-> IF j \in done THEN rows[j] ELSE told[j]]

\* The rest of pollJobs when the queue was asked first.
IsEmptyArrives(i) ==
  /\ i \in DOMAIN polls /\ polls[i].kind = "is_empty"
  /\ IF polls[i].empty
     THEN active' = FALSE /\ polls' = RemoveAt(polls, i) /\ UNCHANGED faults
     ELSE AskChanges(RemoveAt(polls, i)) /\ UNCHANGED active
  /\ UNCHANGED <<job, watchers, cursor, recent, pageVars, statuses, replies>>

ChangesArrive(i) ==
  /\ i \in DOMAIN polls /\ polls[i].kind = "changes"
  /\ LET a    == polls[i]
         done == watchers \cap EndedIn(a.all_jobs)
     IN /\ cursor' = a.cursor
        /\ Notify(done, a.all_jobs)
        /\ watchers' = watchers \ done
        /\ recent' = (recent \/ a.recently_completed)
        /\ active' = (active /\ (hasActiveJobs(a.all_jobs) \/ watchers' # {} \/ recent'))
  /\ polls' = RemoveAt(polls, i)
  /\ UNCHANGED <<job, widget, statuses, replies, faults>>

\* Mutant: the watch of a job that is not found ends without a word.
StatusArrivesMissing(j) ==
  /\ statuses[j] # "none"
  /\ LET done == {j} \cap {k \in Jobs : statuses[j] # "active"}
     IN /\ Notify(done \cap EndedIn(statuses), statuses)
        /\ watchers' = watchers \ done
  /\ statuses' = [statuses EXCEPT ![j] = "none"]
  /\ UNCHANGED <<job, active, cursor, recent, widget, polls, replies, faults>>

\* Mutant: "else" where the code has "else if error".
StatusArrivesElse(j) ==
  /\ statuses[j] # "none"
  /\ Notify({j}, [k \in Jobs |-> IF statuses[j] = "finished" THEN "finished" ELSE "error"])
  /\ watchers' = watchers \ {j}
  /\ statuses' = [statuses EXCEPT ![j] = "none"]
  /\ UNCHANGED <<job, active, cursor, recent, widget, polls, replies, faults>>

\* Mutant: onError is not called.
StatusArrivesSilent(j) ==
  /\ statuses[j] # "none"
  /\ Notify({j} \cap {k \in Jobs : statuses[j] = "finished"}, statuses)
  /\ watchers' = watchers \ ({j} \cap EndedIn(statuses))
  /\ statuses' = [statuses EXCEPT ![j] = "none"]
  /\ UNCHANGED <<job, active, cursor, recent, widget, polls, replies, faults>>

\* The callback is called even if the global poll was faster.
StatusArrives(j) ==
  /\ statuses[j] # "none"
  /\ LET done == {j} \cap EndedIn(statuses)
     IN /\ Notify(done, statuses)
        /\ watchers' = watchers \ done
  /\ statuses' = [statuses EXCEPT ![j] = "none"]
  /\ UNCHANGED <<job, active, cursor, recent, widget, polls, replies, faults>>

\* enqueue_job has answered: startJobPolling.
StartJobPolling(j) ==
  /\ j \in replies
  /\ replies' = replies \ {j}
  /\ watchers' = watchers \cup {j}
  /\ EnsurePolling(subscribers, watchers')
  /\ UNCHANGED <<job, cursor, recent, pageVars, statuses>>

\* A request fails on its way: it is logged.
PollFails(i) ==
  /\ i \in DOMAIN polls
  /\ polls' = RemoveAt(polls, i)
  /\ Fault
  /\ UNCHANGED <<job, active, watchers, cursor, recent, pageVars, statuses, replies>>

StatusFails(j) ==
  /\ statuses[j] # "none"
  /\ statuses' = [statuses EXCEPT ![j] = "none"]
  /\ Fault
  /\ UNCHANGED <<job, active, watchers, cursor, recent, pageVars, polls, replies>>

-----------------------------------------------------------------------------
PollArrives == \E i \in DOMAIN polls : IsEmptyArrives(i) \/ ChangesArrive(i)

OfJob(j) ==
  \/ Enqueue(j) \/ JobRuns(j) \/ JobRemoved(j)
  \/ StartJobPolling(j) \/ StatusTick(j) \/ StatusArrives(j) \/ StatusFails(j)

OfWidget(w) == Subscribe(w) \/ Unsubscribe(w)

Next ==
  \/ \E j \in Jobs : OfJob(j)
  \/ \E w \in Widgets : OfWidget(w)
  \/ Refresh \/ PollTick \/ FiveSeconds
  \/ PollArrives
  \/ \E i \in DOMAIN polls : PollFails(i)

Spec == Init /\ [][Next]_vars

\* Timers fire, answers arrive, and a job that was taken ends: JobQueue's
\* RowSettles.  Pages need not do anything, nor need a job be removed.
FairSpec ==
  /\ Spec
  /\ WF_vars(PollTick) /\ WF_vars(FiveSeconds) /\ WF_vars(PollArrives)
  /\ \A j \in Jobs : /\ WF_vars(JobRuns(j)) /\ WF_vars(StartJobPolling(j))
                     /\ WF_vars(StatusTick(j)) /\ WF_vars(StatusArrives(j))

-----------------------------------------------------------------------------
(* Properties *)

Changes == [kind : {"changes"}, all_jobs : [Jobs -> RowStatus],
            cursor : SUBSET Jobs, recently_completed : BOOLEAN]
IsEmptyAnswers == [kind : {"is_empty"}, empty : BOOLEAN]

\* Every variable keeps to its type.
TypeOK ==
  /\ job \in [Jobs -> JobStatus]
  /\ widget \in [Widgets -> {"new", "on", "off"}]
  /\ active \in BOOLEAN /\ recent \in BOOLEAN
  /\ watchers \subseteq Jobs /\ cursor \subseteq Jobs /\ replies \subseteq Jobs
  /\ told \in [Jobs -> {"none"} \cup Ended]
  /\ polls \in Seq(Changes \cup IsEmptyAnswers)
  /\ statuses \in [Jobs -> RowStatus \cup {"none"}]
  /\ faults \in 0..MaxFaults

\* A watch ends with its callback and in no other way: a job that was posted
\* is watched, or its page has been told, or does not have its id yet.
WatchEndsTold ==
  \A j \in Jobs : job[j] # "absent" => j \in watchers \cup replies \/ told[j] # "none"

\* A page is told what happened, by answers of any age.
ToldTruth == \A j \in Jobs : told[j] # "none" => job[j] \in {told[j], "gone"}

\* The end of a watched job is reported, even when the poller was stopped.
WatchTold ==
  \A j \in Jobs : j \in watchers /\ job[j] \in Ended ~> told[j] # "none" \/ job[j] = "gone"

\* The poller comes to rest when all jobs have ended, unless it watches a job
\* that was removed: such a watch has no end.
PollerRests == []<>(~active \/ \E j \in watchers : job[j] = "gone")
=============================================================================
