----------------------------- MODULE NotebookPage -----------------------------
(***************************************************************************)
(* The notebook's page: NotebookView and its boxes, over a server of which *)
(* only the rows' statuses are seen (module Notebook has the rest).  Three *)
(* sources write the list of boxes: each box asks for its own row while    *)
(* that is not final, the end of a watched job sets a converter's status,  *)
(* and the whole list is fetched after a visit or a deletion.  Answers     *)
(* arrive in any order.                                                    *)
(***************************************************************************)
EXTENDS Integers, Sequences, FiniteSets, SequencesExt, FiniteSetsExt

CONSTANTS
  MaxBoxes,   \* bound on the rows that are ever created
  MaxLists,   \* bound on the lists that are under way
  MaxAsked,   \* bound on the requests of boxes that are under way
  MaxVisits   \* bound on how often the user comes back or reloads

ASSUME NotebookPageAssumption ==
  /\ {MaxBoxes, MaxLists, MaxAsked} \subseteq Nat \ {0}
  /\ MaxVisits \in Nat

VARIABLES
  rowStatus,  \* the server's rows
  created,    \* when each row was created, 0 for one that is not there
  queued,     \* rows with a job that waits, put by enqueue_job or by a deletion
  boxes,      \* explorersAndConverters: the status each box shows
  saving,     \* the row whose POST is about to be answered
  sent,       \* rows whose enqueue request is under way
  polled,    \* converters with a startJobPolling (that of an explorer only notifies)
  jobEnds,  \* the ends of watched jobs on their way to the page
  asked,      \* the boxes' own requests: the status a box had when it asked, the
              \* answer, and whether the interval that asked is still the box's
  stopped,    \* boxes whose interval an error has cleared
  lists,      \* the lists on their way to the page
  deleting,   \* the confirmed deletion that waits for its answer
  spoiled,    \* history: a list arrived whose rows are not those that exist, or
              \* the page was reloaded between a POST and its enqueue
  born, visits

serverRows == <<rowStatus, created, queued, born>>
savingVars == <<saving, sent, polled, jobEnds>>
boxVars == <<boxes, asked, stopped>>
notebookPageVars == <<serverRows, savingVars, boxVars, lists, deleting, spoiled, visits>>

BoxKinds == {"converter", "explorer"}
BoxIds == [kind : BoxKinds, id : 1..MaxBoxes]

\* NOT_STARTED and DELIVERED are told apart by nothing here.
InWork == {"waiting", "started"}
Over == {"finished", "failed"}

noBox == [kind |-> "none", id |-> 0]

Visit == visits < MaxVisits /\ visits' = visits + 1
Exists(x) == rowStatus[x] # "absent"
NextKey(kind) ==
  1 + Max({0} \cup {x.id : x \in {y \in BoxIds : Exists(y) /\ y.kind = kind}})

\* A render makes handleStatusChange anew, which restarts the interval of
\* every box, those included that an error had cleared.
Render(requests) ==
  /\ stopped' = {}
  /\ asked' = {[a EXCEPT !.current = FALSE] : a \in requests}

NotebookPageInit ==
  /\ rowStatus = [x \in BoxIds |-> "absent"] /\ created = [x \in BoxIds |-> 0]
  /\ queued = {}
  /\ boxes = [x \in BoxIds |-> "absent"]
  /\ saving = noBox /\ sent = {} /\ polled = {} /\ jobEnds = {}
  /\ asked = {} /\ stopped = {}
  /\ lists = <<>> /\ deleting = noBox
  /\ spoiled = FALSE /\ born = 0 /\ visits = 0

-----------------------------------------------------------------------------
(* The form: POST, append the box, enqueue, watch the job                  *)

PostBox(kind) ==
  /\ saving = noBox /\ deleting = noBox /\ born < MaxBoxes
  /\ born' = born + 1
  /\ saving' = [kind |-> kind, id |-> NextKey(kind)]
  /\ rowStatus' = [rowStatus EXCEPT ![saving'] = "waiting"]
  /\ created' = [created EXCEPT ![saving'] = born']
  /\ UNCHANGED <<queued, sent, polled, jobEnds, boxVars, lists, deleting, spoiled, visits>>

SaveArrives ==
  /\ saving # noBox
  /\ boxes' = [boxes EXCEPT ![saving] = "waiting"] /\ Render(asked)
  /\ sent' = sent \cup {saving}
  /\ polled' = IF saving.kind = "converter" THEN polled \cup {saving} ELSE polled
  /\ saving' = noBox
  /\ UNCHANGED <<serverRows, jobEnds, lists, deleting, spoiled, visits>>

EnqueueArrives(x) ==
  /\ x \in sent
  /\ sent' = sent \ {x}
  /\ queued' = IF Exists(x) THEN queued \cup {x} ELSE queued
  /\ UNCHANGED <<rowStatus, created, born, saving, polled, jobEnds, boxVars, lists, deleting,
                 spoiled, visits>>

-----------------------------------------------------------------------------
(* The server *)

RowStarts(x) ==
  /\ x \in queued
  /\ rowStatus' = [rowStatus EXCEPT ![x] = "started"]
  /\ queued' = queued \ {x}
  /\ UNCHANGED <<created, born, savingVars, boxVars, lists, deleting, spoiled, visits>>

\* Mutant: the row is marked by the name of the status.
RowEndsByName(x) ==
  /\ rowStatus[x] = "started"
  /\ \E status \in Over :
       /\ rowStatus' = [rowStatus EXCEPT ![x] = "FINISHED"]
       /\ jobEnds' = jobEnds \cup {[item |-> y, status |-> status] : y \in {x} \cap polled}
  /\ polled' = polled \ {x}
  /\ UNCHANGED <<created, queued, born, saving, sent, boxVars, lists, deleting, spoiled, visits>>

\* A job that is watched has its end told (JobPoller's WatchTold).
RowEnds(x) ==
  /\ rowStatus[x] = "started"
  /\ \E status \in Over :
       /\ rowStatus' = [rowStatus EXCEPT ![x] = status]
       /\ jobEnds' = jobEnds \cup {[item |-> y, status |-> status] : y \in {x} \cap polled}
  /\ polled' = polled \ {x}
  /\ UNCHANGED <<created, queued, born, saving, sent, boxVars, lists, deleting, spoiled, visits>>

\* Of rows that are deleted the jobs fail, and their watchers hear of it.
DropRows(gone) ==
  /\ rowStatus' = [x \in BoxIds |-> IF x \in gone THEN "absent" ELSE rowStatus[x]]
  /\ created' = [x \in BoxIds |-> IF x \in gone THEN 0 ELSE created[x]]
  /\ jobEnds' = jobEnds \cup {[item |-> x, status |-> "failed"] : x \in gone \cap polled}
  /\ polled' = polled \ gone

-----------------------------------------------------------------------------
(* Deletions: handleConfirmDelete and handleConfirmConverterDelete         *)

Since(x) == {y \in BoxIds : Exists(y) /\ created[y] >= created[x]}
ConvertersBefore(x) ==
  {y \in BoxIds : y.kind = "converter" /\ Exists(y) /\ created[y] < created[x]}

\* Converters take the later rows with them and have the earlier ones run again.
Confirm(x) ==
  /\ deleting = noBox /\ saving = noBox
  /\ boxes[x] \in Over /\ Exists(x)
  /\ deleting' = x
  /\ IF x.kind = "converter"
     THEN DropRows(Since(x)) /\ queued' = (queued \cup ConvertersBefore(x)) \ Since(x)
     ELSE DropRows({x}) /\ queued' = queued \ {x}
  /\ UNCHANGED <<born, saving, sent, boxVars, lists, spoiled, visits>>

\* An explorer's box is taken out of the list.
ExplorerDeleted ==
  /\ deleting.kind = "explorer"
  /\ boxes' = [boxes EXCEPT ![deleting] = "absent"] /\ Render(asked)
  /\ deleting' = noBox
  /\ UNCHANGED <<serverRows, savingVars, lists, spoiled, visits>>

\* Mutant: the answer closes the dialog only.
ConverterDeletedSilently ==
  /\ deleting.kind = "converter"
  /\ deleting' = noBox
  /\ UNCHANGED <<serverRows, savingVars, boxVars, lists, spoiled, visits>>

\* BaseJob has no attribute id, so jobId is always null and the page fetches
\* the list at once instead of watching the last job.
ConverterDeleted ==
  /\ deleting.kind = "converter" /\ Len(lists) < MaxLists
  /\ lists' = Append(lists, rowStatus)
  /\ deleting' = noBox
  /\ UNCHANGED <<serverRows, savingVars, boxVars, spoiled, visits>>

-----------------------------------------------------------------------------
(* Intervals, callbacks and lists *)

BoxAsks(x) ==
  /\ boxes[x] \in InWork /\ x \notin stopped /\ Cardinality(asked) < MaxAsked
  /\ asked' = asked \cup {[item |-> x, was |-> boxes[x], got |-> rowStatus[x],
                         current |-> TRUE]}
  /\ UNCHANGED <<serverRows, savingVars, boxes, stopped, lists, deleting, spoiled, visits>>

Show(x, status) == boxes' = IF boxes[x] = "absent" THEN boxes ELSE [boxes EXCEPT ![x] = status]

\* An error clears the interval that asked.
Clear(a) == stopped' = IF a.current THEN stopped \cup {a.item} ELSE stopped

\* Mutant: the first answer clears the interval.
BoxArrivesOnce(a) ==
  /\ a \in asked
  /\ asked' = asked \ {a}
  /\ Clear(a)
  /\ UNCHANGED <<serverRows, savingVars, boxes, lists, deleting, spoiled, visits>>

\* The answer is compared with the status the box had when it asked.
BoxArrives(a) ==
  /\ a \in asked
  /\ CASE a.got = "absent" -> Clear(a) /\ asked' = asked \ {a} /\ UNCHANGED boxes
       [] a.got = a.was -> asked' = asked \ {a} /\ UNCHANGED <<boxes, stopped>>
       [] OTHER -> Show(a.item, a.got) /\ Render(asked \ {a})
  /\ UNCHANGED <<serverRows, savingVars, lists, deleting, spoiled, visits>>

CallbackArrives(c) ==
  /\ c \in jobEnds
  /\ jobEnds' = jobEnds \ {c}
  /\ Show(c.item, c.status) /\ Render(asked)
  /\ UNCHANGED <<serverRows, saving, sent, polled, lists, deleting, spoiled, visits>>

\* The list replaces what is shown, however old it is.
ListArrives ==
  /\ \E i \in DOMAIN lists :
       /\ boxes' = lists[i] /\ Render(asked)
       /\ lists' = RemoveAt(lists, i)
       /\ spoiled' = (spoiled \/ \E x \in BoxIds : (lists[i][x] = "absent") = Exists(x))
  /\ UNCHANGED <<serverRows, savingVars, deleting, visits>>

\* The user comes back from another page of the application: the list is
\* kept (the provider stays mounted) until the new one arrives.
Revisit ==
  /\ Visit /\ Len(lists) < MaxLists
  /\ lists' = Append(lists, rowStatus)
  /\ UNCHANGED <<serverRows, savingVars, boxVars, deleting, spoiled>>

\* The browser loads everything again.  A row whose POST was answered to the
\* old page is never enqueued.
Reload ==
  /\ Visit
  /\ spoiled' = (spoiled \/ saving # noBox)
  /\ saving' = noBox /\ polled' = {} /\ jobEnds' = {}
  /\ boxes' = [x \in BoxIds |-> "absent"] /\ asked' = {} /\ stopped' = {}
  /\ lists' = <<rowStatus>> /\ deleting' = noBox
  /\ UNCHANGED <<serverRows, sent>>

-----------------------------------------------------------------------------
NotebookPageNext ==
  \/ \E kind \in BoxKinds : PostBox(kind)
  \/ \E x \in BoxIds :
       \/ EnqueueArrives(x) \/ RowStarts(x) \/ RowEnds(x) \/ Confirm(x)
       \/ BoxAsks(x)
  \/ \E a \in asked : BoxArrives(a)
  \/ \E c \in jobEnds : CallbackArrives(c)
  \/ SaveArrives \/ ExplorerDeleted \/ ConverterDeleted
  \/ ListArrives \/ Revisit \/ Reload

\* The jobs run, requests are answered, and a box in view asks again every
\* second and a half, whatever arrives in between.
NotebookPageFairness ==
  /\ WF_notebookPageVars(SaveArrives \/ ExplorerDeleted \/ ConverterDeleted \/ ListArrives)
  /\ WF_notebookPageVars(\E x \in BoxIds : EnqueueArrives(x) \/ RowStarts(x) \/ RowEnds(x))
  /\ WF_notebookPageVars(\E a \in asked : BoxArrives(a))
  /\ WF_notebookPageVars(\E c \in jobEnds : CallbackArrives(c))
  /\ \A x \in BoxIds : SF_notebookPageVars(BoxAsks(x))

NotebookPageSpec ==
  NotebookPageInit /\ [][NotebookPageNext]_notebookPageVars /\ NotebookPageFairness

-----------------------------------------------------------------------------
\* The rows, the boxes and what is under way have the shape they should have.
NotebookPageTypeOK ==
  /\ rowStatus \in [BoxIds -> InWork \cup Over \cup {"absent"}]
  /\ boxes \in [BoxIds -> InWork \cup Over \cup {"absent"}]
  /\ \A x \in BoxIds : created[x] \in 0..born /\ (created[x] # 0) = Exists(x)
  /\ born \in 0..MaxBoxes /\ visits \in 0..MaxVisits /\ spoiled \in BOOLEAN
  /\ saving \in BoxIds \cup {noBox} /\ deleting \in BoxIds \cup {noBox}
  /\ queued \cup sent \cup polled \cup stopped \subseteq BoxIds
  /\ jobEnds \subseteq [item : BoxIds, status : Over]
  /\ asked \subseteq [item : BoxIds, was : InWork, got : InWork \cup Over \cup {"absent"},
                     current : BOOLEAN]
  /\ Len(lists) <= MaxLists

AnswersUnderWay == saving # noBox \/ deleting # noBox \/ lists # <<>>

\* With no answer under way the boxes are those of the rows that exist, unless
\* a list arrived late: no deletion leaves a box behind.
BoxesAreRows ==
  ~AnswersUnderWay /\ ~spoiled =>
    \A x \in BoxIds : (boxes[x] # "absent") = Exists(x)

\* Boxes that show work in progress come to show how it ended, or go,
\* whatever older answers arrive in between.
BoxesSettle ==
  []<>(spoiled \/ \A x \in BoxIds : boxes[x] \notin InWork)
=============================================================================
