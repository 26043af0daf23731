------------------------------ MODULE Notebook ------------------------------
(***************************************************************************)
(* The back end of a notebook: a copy of a dataset that converters change  *)
(* in place and explorers read.  Jobs run one by one in the consumer, in   *)
(* the order of the queue (JobLifecycle, which JobQueue implements).       *)
(*                                                                         *)
(* Deleting a converter restores the original file and puts the earlier    *)
(* converters in the queue again, in a handler that shares no lock with    *)
(* the consumer.  The event loop is blocked meanwhile: other requests wait *)
(* until it ends (api = "idle"), the consumer does not.                    *)
(***************************************************************************)
EXTENDS Integers, Sequences, FiniteSets, SequencesExt, FiniteSetsExt

CONSTANTS
  MaxMade,       \* bound on the rows that are ever created
  MaxBroken      \* bound on requests that are never sent and commits that fail

ASSUME NotebookAssumption == MaxMade \in Nat \ {0} /\ MaxBroken \in Nat

VARIABLES
  rows,          \* the tables converter_list and explorer
  made,          \* how many rows were created: their order is that of "created"
  exists,        \* the notebook's own row
  file, applied, \* the notebook's dataset: its state, and the converters in it
  jobs,          \* the jobs that wait; post: from enqueue_job, or put by a deletion
  work,          \* the job in the consumer's hands
  posted,        \* rows whose enqueue is yet to come
  api, erase,    \* delete_converter_list: where it is, and what it has read
  met,           \* history: a deletion met other work, or rows were queued out of order
  broken

table == <<rows, made, exists>>
disk == <<file, applied>>
queue == <<jobs, work>>
handler == <<api, erase>>
notebookVars == <<table, disk, queue, posted, handler, met, broken>>

Kinds == {"converter", "explorer"}
Items == [kind : Kinds, id : 1..MaxMade]

Processing == {"not_started", "delivered", "started"}
Final == {"finished", "failed"}
NoRow == [made |-> 0, status |-> "absent", sound |-> TRUE, result |-> <<>>]
idle == [item |-> [kind |-> "converter", id |-> 1], step |-> "idle", post |-> FALSE,
         made |-> 0, seen |-> <<>>]
nothing == [again |-> {}, gone |-> {}]

There(x) == rows[x] # NoRow
Converters == {x \in Items : x.kind = "converter" /\ There(x)}

\* SQLite's next key is the largest one plus one: that of a last row that was
\* deleted is handed out again.
NextId(kind) == 1 + Max({0} \cup {x.id : x \in {y \in Items : There(y) /\ y.kind = kind}})

NotebookInit ==
  /\ rows = [x \in Items |-> NoRow] /\ made = 0 /\ exists = TRUE
  /\ file = "whole" /\ applied = <<>>
  /\ jobs = <<>> /\ work = idle /\ posted = {}
  /\ api = "idle" /\ erase = nothing
  /\ met = FALSE /\ broken = 0

Break == broken < MaxBroken /\ broken' = broken + 1

-----------------------------------------------------------------------------
(* A converter or an explorer is created by one request and enqueued by    *)
(* the next.  A row is sound when its component can do what it is asked.   *)

Post(kind, sound) ==
  /\ api = "idle" /\ exists /\ made < MaxMade
  /\ made' = made + 1
  /\ LET x == [kind |-> kind, id |-> NextId(kind)]
     IN /\ rows' = [rows EXCEPT ![x] = [made |-> made', status |-> "not_started",
                                        sound |-> sound, result |-> <<>>]]
        /\ posted' = posted \cup {x}
  /\ UNCHANGED <<exists, disk, queue, handler, met, broken>>

\* enqueue_job: a row that is gone is a JobError.
Enqueue(x) ==
  /\ api = "idle" /\ x \in posted
  /\ posted' = posted \ {x}
  /\ IF There(x)
     THEN /\ rows' = [rows EXCEPT ![x].status = "delivered"]
          /\ jobs' = Append(jobs, [item |-> x, post |-> TRUE])
     ELSE UNCHANGED <<rows, jobs>>
  /\ met' = (met \/ \E y \in posted' : rows[y].made < rows[x].made)
  /\ UNCHANGED <<made, exists, disk, work, handler, broken>>

\* The page was left between the two, or the second was lost.
NeverEnqueued(x) ==
  /\ x \in posted /\ Break
  /\ posted' = posted \ {x}
  /\ UNCHANGED <<table, disk, queue, handler, met>>

-----------------------------------------------------------------------------
(* Deleting a converter, an explorer, the notebook *)

Overlap == jobs # <<>> \/ work # idle \/ posted # {}

CreatedBefore(x) == {y \in Converters : rows[y].made < rows[x].made}

\* Mutant: the explorers stay.
CreatedSinceConverters(x) == {y \in Converters : rows[y].made >= rows[x].made}

CreatedSince(x) == {y \in Items : There(y) /\ rows[y].made >= rows[x].made}

\* A box has its button once its first job has ended (NotebookPage).
HasButton(x) ==
  /\ There(x) /\ x \notin posted
  /\ rows[x].status \notin {"not_started", "delivered"}
  /\ ~(work.item = x /\ work.post)

\* The rows are selected, and copytree starts to overwrite the file.
DeleteBegins(x) ==
  /\ api = "idle" /\ x \in Converters /\ HasButton(x)
  /\ api' = "restoring"
  /\ erase' = [again |-> CreatedBefore(x), gone |-> CreatedSince(x)]
  /\ file' = "torn"
  /\ met' = (met \/ Overlap)
  /\ UNCHANGED <<table, applied, queue, posted, broken>>

\* copytree ends.  If a converter has saved meanwhile, both have written the
\* same file, and either or neither of them is what it holds.
RestoreEnds ==
  /\ api = "restoring"
  /\ api' = "putting"
  /\ \/ file' = "whole" /\ applied' = <<>>
     \/ file = "whole" /\ file' \in {"whole", "torn"} /\ UNCHANGED applied
  /\ UNCHANGED <<table, queue, posted, erase, met, broken>>

\* The earlier converters are put in the queue, in the order of the table,
\* their statuses left alone.
PutAgain ==
  /\ api = "putting"
  /\ \E x \in erase.again :
       /\ \A y \in erase.again : x.id <= y.id
       /\ jobs' = Append(jobs, [item |-> x, post |-> FALSE])
       /\ erase' = [erase EXCEPT !.again = @ \ {x}]
  /\ UNCHANGED <<table, disk, work, posted, api, met, broken>>

DeleteCommits ==
  /\ api = "putting" /\ erase.again = {}
  /\ rows' = [x \in Items |-> IF x \in erase.gone THEN NoRow ELSE rows[x]]
  /\ api' = "idle" /\ erase' = nothing
  /\ UNCHANGED <<made, exists, disk, queue, posted, met, broken>>

\* The commit fails: file and queue have changed, the rows have not.
DeleteFails ==
  /\ api = "putting" /\ erase.again = {} /\ Break
  /\ api' = "idle" /\ erase' = nothing
  /\ UNCHANGED <<table, disk, queue, posted, met>>

DeleteExplorer(x) ==
  /\ api = "idle" /\ x.kind = "explorer" /\ HasButton(x)
  /\ rows' = [rows EXCEPT ![x] = NoRow]
  /\ UNCHANGED <<made, exists, disk, queue, posted, handler, met, broken>>

\* The notebook goes with its rows and its folder.
DeleteNotebook ==
  /\ api = "idle" /\ exists
  /\ exists' = FALSE
  /\ rows' = [x \in Items |-> NoRow]
  /\ file' = "gone" /\ applied' = <<>>
  /\ met' = (met \/ Overlap)
  /\ UNCHANGED <<made, queue, posted, handler, broken>>

-----------------------------------------------------------------------------
(* The consumer: ConverterListJob.run and ExplorerJob.run *)

\* Mutant: a converter that is put in the queue again has to be unfinished.
TakeJobOnce ==
  /\ jobs # <<>> /\ work = idle
  /\ jobs' = Tail(jobs)
  /\ LET x == Head(jobs).item
     IN IF There(x) /\ rows[x].status # "finished"
        THEN /\ rows' = [rows EXCEPT ![x].status = "started"]
             /\ work' = [item |-> x, step |-> "started", post |-> Head(jobs).post,
                         made |-> rows[x].made, seen |-> <<>>]
        ELSE UNCHANGED <<rows, work>>
  /\ UNCHANGED <<made, exists, disk, posted, handler, met, broken>>

\* A job whose row is gone is a JobError.
TakeJob ==
  /\ jobs # <<>> /\ work = idle
  /\ jobs' = Tail(jobs)
  /\ LET x == Head(jobs).item
     IN IF There(x)
        THEN /\ rows' = [rows EXCEPT ![x].status = "started"]
             /\ work' = [item |-> x, step |-> "started", post |-> Head(jobs).post,
                         made |-> rows[x].made, seen |-> <<>>]
        ELSE UNCHANGED <<rows, work>>
  /\ UNCHANGED <<made, exists, disk, posted, handler, met, broken>>

\* load_dataset.  A file that is being copied over is read as it was, as it
\* will be, or not at all.
LoadFile ==
  /\ work.step = "started" /\ There(work.item)
  /\ file # "gone"
  /\ \E seen \in IF file = "torn" THEN {applied, <<>>} ELSE {applied} :
       work' = [work EXCEPT !.step = "loaded", !.seen = seen]
  /\ UNCHANGED <<table, disk, jobs, posted, handler, met, broken>>

\* The row or the dataset is not there.  An explorer's row is marked; in
\* ConverterListJob.run only SQLAlchemyError is caught here, and the row stays.
LoadFails ==
  /\ work.step = "started"
  /\ file # "whole" \/ ~There(work.item)
  /\ rows' = IF There(work.item) /\ work.item.kind = "explorer"
             THEN [rows EXCEPT ![work.item].status = "failed"] ELSE rows
  /\ work' = idle
  /\ UNCHANGED <<made, exists, disk, jobs, posted, handler, met, broken>>

Unsound == There(work.item) /\ ~rows[work.item].sound

\* Mutant: the status is written by the wrapper that knows of no row.
JobFailsSilently ==
  /\ work.step = "loaded" /\ Unsound
  /\ work' = idle
  /\ UNCHANGED <<table, disk, jobs, posted, handler, met, broken>>

\* fit, transform or launch_exploration raises.
JobFails ==
  /\ work.step = "loaded" /\ Unsound
  /\ rows' = [rows EXCEPT ![work.item].status = "failed"]
  /\ work' = idle
  /\ UNCHANGED <<made, exists, disk, jobs, posted, handler, met, broken>>

\* save_dataset: the folder is made again if it is gone.
ConvertSaves ==
  /\ work.step = "loaded" /\ work.item.kind = "converter" /\ ~Unsound
  /\ file' = "whole"
  /\ applied' = Append(work.seen, work.made)
  /\ work' = [work EXCEPT !.step = "saved"]
  /\ UNCHANGED <<table, jobs, posted, handler, met, broken>>

\* Mutant: the row is marked by the name of the status.
JobEndsByName ==
  /\ work.step \in {"loaded", "saved"} /\ ~Unsound
  /\ work.item.kind = "converter" => work.step = "saved"
  /\ rows' = IF ~There(work.item) THEN rows ELSE [rows EXCEPT ![work.item].status = "FINISHED"]
  /\ work' = idle
  /\ UNCHANGED <<made, exists, disk, jobs, posted, handler, met, broken>>

\* The status is committed by key: a row that is gone is a job that fails, one
\* whose key was handed out again is somebody else's row.
JobEnds ==
  /\ \/ work.step = "saved"
     \/ work.step = "loaded" /\ work.item.kind = "explorer" /\ ~Unsound
  /\ rows' = IF ~There(work.item) THEN rows
             ELSE [rows EXCEPT ![work.item].status = "finished",
                     ![work.item].result = IF work.step = "loaded" THEN work.seen ELSE @]
  /\ work' = idle
  /\ UNCHANGED <<made, exists, disk, jobs, posted, handler, met, broken>>

-----------------------------------------------------------------------------
Consumer == TakeJob \/ LoadFile \/ LoadFails \/ JobFails \/ ConvertSaves \/ JobEnds
Handler == RestoreEnds \/ PutAgain \/ DeleteCommits

NotebookNext ==
  \/ \E kind \in Kinds, sound \in BOOLEAN : Post(kind, sound)
  \/ \E x \in Items :
       \/ Enqueue(x) \/ NeverEnqueued(x)
       \/ DeleteBegins(x) \/ DeleteExplorer(x)
  \/ DeleteNotebook \/ DeleteFails
  \/ Handler
  \/ Consumer

NotebookSpec == NotebookInit /\ [][NotebookNext]_notebookVars

-----------------------------------------------------------------------------
Careful == ~met /\ broken = 0
Settled == ~Overlap /\ api = "idle"

\* A sequence that has the members of S, each once, in increasing order.
InOrder(s, S) == Range(s) = S /\ \A i, j \in DOMAIN s : i < j => s[i] < s[j]

\* Rows, file and jobs are what they should be in shape.
NotebookTypeOK ==
  /\ \A x \in Items :
       /\ rows[x].status \in Processing \cup Final \cup {"absent"}
       /\ rows[x].made \in 0..made /\ rows[x].sound \in BOOLEAN
       /\ Range(rows[x].result) \subseteq 1..made
  /\ made \in 0..MaxMade /\ exists \in BOOLEAN /\ met \in BOOLEAN /\ broken \in 0..MaxBroken
  /\ file \in {"whole", "torn", "gone"} /\ Range(applied) \subseteq 1..made
  /\ \A i \in DOMAIN jobs : jobs[i].item \in Items /\ jobs[i].post \in BOOLEAN
  /\ work.item \in Items /\ work.step \in {"idle", "started", "loaded", "saved"}
  /\ posted \subseteq Items
  /\ api \in {"idle", "restoring", "putting"} /\ erase.again \cup erase.gone \subseteq Items

\* Once everything has come to rest the notebook's dataset is the original
\* with the FINISHED converters in it, each once, in the order in which they
\* were created, and a deleted notebook has left no folder: however many
\* deletions restored and replayed it, if they met no other work.
NotebookIsReplay ==
  Settled /\ Careful =>
    IF exists
    THEN /\ file = "whole"
         /\ InOrder(applied, {rows[x].made : x \in {y \in Converters : rows[y].status = "finished"}})
    ELSE file = "gone"

\* The result an explorer shows is that of the dataset as the converters
\* created before it leave it, also after later ones came and went.
ExplorerSawItsData ==
  Settled /\ Careful =>
    \A x \in Items : (x.kind = "explorer" /\ rows[x].status = "finished") =>
      InOrder(rows[x].result, {n \in Range(applied) : n < rows[x].made})

\* A row whose status is not final is on its way: its enqueue is still to
\* come, its job waits, or the consumer has it.
ProcessingHasJob ==
  Careful => \A x \in Items : rows[x].status \in Processing =>
    \/ x \in posted \/ (work # idle /\ work.item = x)
    \/ \E i \in DOMAIN jobs : jobs[i].item = x

\* datasets.json: "Deleting this converter will also remove all subsequent
\* converters and explorers applied after it."
DeletedIsUndone ==
  Settled /\ exists => \A i \in DOMAIN applied : \E x \in Converters : rows[x].made = applied[i]
=============================================================================
