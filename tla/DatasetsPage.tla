----------------------------- MODULE DatasetsPage -----------------------------
(***************************************************************************)
(* Datasets and notebooks: the page that lists them (DatasetsContent), the *)
(* handlers that create and delete them, and DatasetJob, which loads a     *)
(* dataset from a file or from a notebook.                                 *)
(*                                                                         *)
(* The page deletes from its own lists first and asks the server after; it *)
(* replaces a whole list by what the server answered, however old; and the *)
(* end of a load changes which dataset is selected, whatever the user has  *)
(* chosen since, and leaves the notebook that is selected.                 *)
(***************************************************************************)
EXTENDS Integers, Sequences, FiniteSets, SequencesExt, FiniteSetsExt

CONSTANTS
  MaxLoads,      \* bound on the datasets that are ever created
  MaxNotebooks,  \* bound on the notebooks that are ever created
  MaxReturns     \* bound on how often the user leaves the page and comes back

ASSUME DatasetsPageAssumption == {MaxLoads, MaxNotebooks} \subseteq Nat \ {0} /\ MaxReturns \in Nat

VARIABLES
  dataset,    \* the table dataset; file: the load whose folder it has, 0 for none
  notebook,   \* the table notebook: the dataset it is a copy of, 0 for no row
  folders,    \* the folders of loads that are on the disk
  loads,      \* the queue of DatasetJobs
  loader,     \* the one in the consumer's hands
  outcome,    \* how each load ended, for its watcher
  copying,    \* create_notebook, in a thread of its own: the dataset it copies
  shownData, shownNotes,  \* the lists on the page
  chosenData, chosenNote, \* selectedDatasetId and selectedNotebookId, 0 for none
  upload,     \* the creation of a dataset that is under way
  watching,   \* loads with a startJobPolling
  dataLists, noteLists,   \* lists on their way to the page
  dropping,   \* deletions whose request is under way
  lost,       \* history: a dataset was deleted while its load, its notebook's
              \* creation or its watcher was under way
  mixed,      \* history: an answer reached a page that had moved on
  counts

dataServer == <<dataset, notebook, folders, copying>>
loading == <<loads, loader, outcome>>
shownLists == <<shownData, shownNotes, dataLists, noteLists>>
chosen == <<chosenData, chosenNote>>
datasetsPageVars == <<dataServer, loading, shownLists, chosen, upload, watching, dropping,
                      lost, mixed, counts>>

DataIds == 1..MaxLoads
NoteIds == 1..MaxNotebooks
noData == [made |-> 0, status |-> "absent", file |-> 0]
noUpload == [id |-> 0, made |-> 0, from |-> 0, step |-> "none"]

\* Keys of last rows that were deleted are handed out again.
NextData == 1 + Max({0} \cup {d \in DataIds : dataset[d] # noData})
NextNote == 1 + Max({0} \cup {n \in NoteIds : notebook[n] # 0})

DatasetsPageInit ==
  /\ dataset = [d \in DataIds |-> noData] /\ notebook = [n \in NoteIds |-> 0]
  /\ folders = {} /\ copying = 0
  /\ loads = <<>> /\ loader = noUpload /\ outcome = [m \in DataIds |-> "none"]
  /\ shownData = {} /\ shownNotes = {} /\ dataLists = <<>> /\ noteLists = <<>>
  /\ chosenData = 0 /\ chosenNote = 0 /\ upload = noUpload /\ watching = {} /\ dropping = {}
  /\ lost = FALSE /\ mixed = FALSE
  /\ counts = [loads |-> 0, notebooks |-> 0, returns |-> 0]

Late(list) == [i \in DOMAIN list |-> [list[i] EXCEPT !.late = TRUE]]
Without(list, i) ==
  RemoveAt([j \in DOMAIN list |-> [list[j] EXCEPT !.late = @ \/ j < i]], i)

\* What the server answers: a deletion that is still to come is not in it.
DataAnswer(then) ==
  [rows |-> {d \in DataIds : dataset[d] # noData}, then |-> then, late |-> dropping # {}]
NoteAnswer(then) ==
  [rows |-> {n \in NoteIds : notebook[n] # 0}, then |-> then, late |-> dropping # {}]

ShowData(rows) == shownData' = rows /\ dataLists' = Late(dataLists)
ShowNotes(rows) == shownNotes' = rows /\ noteLists' = Late(noteLists)
Chooses(d, n) == chosenData' = d /\ chosenNote' = n

-----------------------------------------------------------------------------
(* A dataset is created, listed, selected and enqueued: from a file in that *)
(* order of requests, listed last; from a notebook listed before it is      *)
(* enqueued.                                                                *)

CreateDataset(from) ==
  /\ upload = noUpload /\ counts.loads < MaxLoads
  /\ from # 0 => from = chosenNote /\ from \in shownNotes
  /\ counts' = [counts EXCEPT !.loads = @ + 1]
  /\ upload' = [id |-> NextData, made |-> counts'.loads, from |-> from, step |-> "created"]
  /\ dataset' = [dataset EXCEPT ![upload'.id] =
                   [made |-> upload'.made, status |-> "waiting", file |-> 0]]
  /\ UNCHANGED <<notebook, folders, copying, loading, shownLists, chosen, watching, dropping,
                 lost, mixed>>

DatasetListed ==
  /\ upload.step = IF upload.from = 0 THEN "enqueued" ELSE "created"
  /\ ShowData(shownData \cup {upload.id})
  /\ Chooses(upload.id, 0)
  /\ IF upload.from = 0
     THEN watching' = watching \cup {[id |-> upload.id, made |-> upload.made]} /\ upload' = noUpload
     ELSE upload' = [upload EXCEPT !.step = "listed"] /\ UNCHANGED watching
  /\ mixed' = (mixed \/ dataset[upload.id].made # upload.made)
  /\ UNCHANGED <<dataServer, loading, shownNotes, noteLists, dropping, lost, counts>>

\* A row that is gone cannot be enqueued.
EnqueueLoad ==
  /\ upload.step = IF upload.from = 0 THEN "created" ELSE "listed"
  /\ IF dataset[upload.id] = noData
     THEN upload' = noUpload /\ UNCHANGED <<loads, watching>>
     ELSE /\ loads' = Append(loads, upload)
          /\ IF upload.from = 0
             THEN upload' = [upload EXCEPT !.step = "enqueued"] /\ UNCHANGED watching
             ELSE /\ upload' = noUpload
                  /\ watching' = watching \cup {[id |-> upload.id, made |-> upload.made]}
  /\ UNCHANGED <<dataServer, loader, outcome, shownLists, chosen, dropping, lost, mixed, counts>>

-----------------------------------------------------------------------------
(* DatasetJob.run *)

Told(load, how) == outcome' = [outcome EXCEPT ![load.made] = how]

TakeLoad ==
  /\ loads # <<>> /\ loader = noUpload
  /\ loads' = Tail(loads)
  /\ LET l == Head(loads)
     IN IF dataset[l.id] = noData
        THEN Told(l, "failed") /\ UNCHANGED <<loader, dataset>>
        ELSE /\ loader' = [l EXCEPT !.step = "started"]
             /\ dataset' = [dataset EXCEPT ![l.id].status = "started"]
             /\ UNCHANGED outcome
  /\ UNCHANGED <<notebook, folders, copying, shownLists, chosen, upload, watching, dropping,
                 lost, mixed, counts>>

\* The file is read, or the notebook's copy, and the dataset is saved.
SaveLoad ==
  /\ loader.step = "started"
  /\ loader.from # 0 => notebook[loader.from] # 0
  /\ folders' = folders \cup {loader.made}
  /\ loader' = [loader EXCEPT !.step = "saved"]
  /\ UNCHANGED <<dataset, notebook, copying, loads, outcome, shownLists, chosen, upload, watching,
                 dropping, lost, mixed, counts>>

\* Mutant: what was saved of a load that fails is kept.
LoadRaisesUntidily ==
  /\ loader.step \in {"started", "saved"}
  /\ \E status \in {"failed", "started"} :
       dataset' = IF dataset[loader.id] = noData THEN dataset
                  ELSE [dataset EXCEPT ![loader.id].status = status]
  /\ folders' = folders \cup {loader.made}
  /\ Told(loader, "failed") /\ loader' = noUpload
  /\ UNCHANGED <<notebook, copying, loads, shownLists, chosen, upload, watching, dropping,
                 lost, mixed, counts>>

\* What was saved is removed.  An error that is no JobError, or one in the
\* commit of the failure, leaves the row as it is: STARTED.
LoadRaises ==
  /\ loader.step \in {"started", "saved"}
  /\ \E status \in {"failed", "started"} :
       dataset' = IF dataset[loader.id] = noData THEN dataset
                  ELSE [dataset EXCEPT ![loader.id].status = status]
  /\ folders' = folders \ {loader.made}
  /\ Told(loader, "failed") /\ loader' = noUpload
  /\ UNCHANGED <<notebook, copying, loads, shownLists, chosen, upload, watching, dropping,
                 lost, mixed, counts>>

\* Without the row None.file_path is an AttributeError: the folder stays.
StoreLoad ==
  /\ loader.step = "saved"
  /\ IF dataset[loader.id] = noData
     THEN Told(loader, "failed") /\ UNCHANGED dataset
     ELSE /\ dataset' = [dataset EXCEPT ![loader.id].status = "finished",
                                        ![loader.id].file = loader.made]
          /\ Told(loader, "finished")
  /\ loader' = noUpload
  /\ UNCHANGED <<notebook, folders, copying, loads, shownLists, chosen, upload, watching, dropping,
                 lost, mixed, counts>>

-----------------------------------------------------------------------------
(* The end of a load reaches pollForDataset *)

\* The datasets are fetched; their arrival selects the new one.
LoadSucceeded(w) ==
  /\ w \in watching /\ outcome[w.made] = "finished"
  /\ watching' = watching \ {w}
  /\ dataLists' = Append(dataLists, DataAnswer(w.id))
  /\ UNCHANGED <<dataServer, loading, shownData, shownNotes, noteLists, chosen, upload, dropping,
                 lost, mixed, counts>>

\* Mutant: the failed dataset leaves the page but not the server.
LoadFailedLocally(w) ==
  /\ w \in watching /\ outcome[w.made] = "failed"
  /\ watching' = watching \ {w}
  /\ ShowData(shownData \ {w.id})
  /\ chosenData' = 0 /\ UNCHANGED chosenNote
  /\ UNCHANGED <<dataServer, loading, shownNotes, noteLists, upload, dropping, lost, mixed, counts>>

\* Whatever dataset is selected is deselected; a notebook stays.
LoadFailed(w) ==
  /\ w \in watching /\ outcome[w.made] = "failed"
  /\ watching' = watching \ {w}
  /\ IF w.id \in shownData
     THEN /\ ShowData(shownData \ {w.id})
          /\ dropping' = dropping \cup {[kind |-> "dataset", id |-> w.id]}
     ELSE UNCHANGED <<shownData, dataLists, dropping>>
  /\ chosenData' = 0 /\ UNCHANGED chosenNote
  /\ UNCHANGED <<dataServer, loading, shownNotes, noteLists, upload, lost, mixed, counts>>

\* The end of a load selects its dataset beside the notebook that is selected.
DataListArrives ==
  /\ \E i \in DOMAIN dataLists :
       /\ shownData' = dataLists[i].rows
       /\ dataLists' = Without(dataLists, i)
       /\ mixed' = (mixed \/ dataLists[i].late)
       /\ chosenData' = IF dataLists[i].then # 0 THEN dataLists[i].then ELSE chosenData
  /\ UNCHANGED <<dataServer, loading, shownNotes, noteLists, chosenNote, upload, watching,
                 dropping, lost, counts>>

NoteListArrives ==
  /\ \E i \in DOMAIN noteLists :
       /\ shownNotes' = noteLists[i].rows
       /\ noteLists' = Without(noteLists, i)
       /\ mixed' = (mixed \/ noteLists[i].late)
       /\ IF noteLists[i].then # 0 THEN Chooses(0, noteLists[i].then) ELSE UNCHANGED chosen
  /\ UNCHANGED <<dataServer, loading, shownData, dataLists, upload, watching, dropping, lost, counts>>

-----------------------------------------------------------------------------
(* Notebooks *)

\* create_notebook looks the dataset up, and copies its folder in a thread.
CopyBegins(d) ==
  /\ copying = 0 /\ counts.notebooks < MaxNotebooks
  /\ d \in shownData /\ dataset[d].status = "finished"
  /\ counts' = [counts EXCEPT !.notebooks = @ + 1]
  /\ copying' = d
  /\ UNCHANGED <<dataset, notebook, folders, loading, shownLists, chosen, upload, watching,
                 dropping, lost, mixed>>

\* The row is committed whether or not there still is a dataset; the page
\* fetches its notebooks, and their arrival selects the new one.
CopyEnds ==
  /\ copying # 0
  /\ notebook' = [notebook EXCEPT ![NextNote] = copying]
  /\ noteLists' = Append(noteLists, [rows |-> {n \in NoteIds : notebook'[n] # 0},
                                     then |-> NextNote,
                                     late |-> dropping # {}])
  /\ copying' = 0
  /\ UNCHANGED <<dataset, folders, loading, shownData, shownNotes, dataLists, chosen, upload,
                 watching, dropping, lost, mixed, counts>>

-----------------------------------------------------------------------------
(* Clicks and deletions *)

\* A click in a list, or on the button for a new session.
ChooseDataset(d) ==
  /\ d \in shownData \cup {0}
  /\ Chooses(d, 0)
  /\ UNCHANGED <<dataServer, loading, shownLists, upload, watching, dropping, lost, mixed, counts>>

ChooseNotebook(n) ==
  /\ n \in shownNotes
  /\ Chooses(0, n)
  /\ UNCHANGED <<dataServer, loading, shownLists, upload, watching, dropping, lost, mixed, counts>>

NotesOf(d) == {n \in shownNotes : notebook[n] = d}

\* Mutant: the selected notebook is not looked up among those that go.
DeleteDatasetOnly(d) ==
  /\ d \in shownData
  /\ ShowData(shownData \ {d}) /\ ShowNotes(shownNotes \ NotesOf(d))
  /\ chosenData' = (IF chosenData = d THEN 0 ELSE chosenData) /\ UNCHANGED chosenNote
  /\ dropping' = dropping \cup {[kind |-> "dataset", id |-> d]}
  /\ lost' = (lost \/ upload.id = d \/ \E w \in watching : w.id = d)
  /\ UNCHANGED <<dataServer, loading, upload, watching, mixed, counts>>

\* The notebooks of a dataset leave the page with it.
DeleteDataset(d) ==
  /\ d \in shownData
  /\ ShowData(shownData \ {d}) /\ ShowNotes(shownNotes \ NotesOf(d))
  /\ chosenData' = IF chosenData = d THEN 0 ELSE chosenData
  /\ chosenNote' = IF chosenNote \in NotesOf(d) THEN 0 ELSE chosenNote
  /\ dropping' = dropping \cup {[kind |-> "dataset", id |-> d]}
  /\ lost' = (lost \/ upload.id = d \/ \E w \in watching : w.id = d)
  /\ UNCHANGED <<dataServer, loading, upload, watching, mixed, counts>>

DeleteNotebookOf(n) ==
  /\ n \in shownNotes
  /\ ShowNotes(shownNotes \ {n})
  /\ chosenNote' = (IF chosenNote = n THEN 0 ELSE chosenNote) /\ UNCHANGED chosenData
  /\ dropping' = dropping \cup {[kind |-> "notebook", id |-> n]}
  /\ UNCHANGED <<dataServer, loading, shownData, dataLists, upload, watching, lost, mixed, counts>>

\* The rows go, then the dataset's folder; those of its notebooks stay.
Dropped(x) ==
  /\ x \in dropping
  /\ dropping' = dropping \ {x}
  /\ IF x.kind = "dataset"
     THEN /\ dataset' = [dataset EXCEPT ![x.id] = noData]
          /\ folders' = folders \ {dataset[x.id].file}
          /\ notebook' = [n \in NoteIds |-> IF notebook[n] = x.id THEN 0 ELSE notebook[n]]
          /\ lost' = (lost \/ copying = x.id \/ upload.id = x.id \/ loader.id = x.id
                       \/ \E i \in DOMAIN loads : loads[i].id = x.id)
     ELSE /\ notebook' = [notebook EXCEPT ![x.id] = 0]
          /\ UNCHANGED <<dataset, folders, lost>>
  /\ UNCHANGED <<copying, loading, shownLists, chosen, upload, watching, mixed, counts>>

\* The page is left and mounted again: what was under way no longer reaches it.
ReturnToPage ==
  /\ counts.returns < MaxReturns /\ counts' = [counts EXCEPT !.returns = @ + 1]
  /\ upload.step \in {"none", "enqueued"} /\ copying = 0
  /\ shownData' = {} /\ shownNotes' = {} /\ Chooses(0, 0)
  /\ dataLists' = <<DataAnswer(0)>> /\ noteLists' = <<NoteAnswer(0)>>
  /\ upload' = noUpload /\ watching' = {}
  /\ mixed' = (mixed \/ upload # noUpload \/ watching # {})
  /\ UNCHANGED <<dataServer, loading, dropping, lost>>

-----------------------------------------------------------------------------
DatasetsPageNext ==
  \/ \E from \in {0} \cup NoteIds : CreateDataset(from)
  \/ DatasetListed \/ EnqueueLoad
  \/ TakeLoad \/ SaveLoad \/ LoadRaises \/ StoreLoad
  \/ \E w \in watching : LoadSucceeded(w) \/ LoadFailed(w)
  \/ DataListArrives \/ NoteListArrives
  \/ \E d \in DataIds : CopyBegins(d) \/ DeleteDataset(d)
  \/ CopyEnds
  \/ \E n \in NoteIds : DeleteNotebookOf(n) \/ ChooseNotebook(n)
  \/ \E d \in {0} \cup DataIds : ChooseDataset(d)
  \/ \E x \in dropping : Dropped(x)
  \/ ReturnToPage

DatasetsPageSpec == DatasetsPageInit /\ [][DatasetsPageNext]_datasetsPageVars

-----------------------------------------------------------------------------
\* Tables, queue and lists have the shape they should have.
DatasetsPageTypeOK ==
  /\ \A d \in DataIds :
       /\ dataset[d].status \in {"absent", "waiting", "started", "finished", "failed"}
       /\ dataset[d].made \in 0..MaxLoads /\ dataset[d].file \in 0..MaxLoads
  /\ notebook \in [NoteIds -> 0..MaxLoads] /\ folders \subseteq 1..MaxLoads
  /\ outcome \in [DataIds -> {"none", "finished", "failed"}]
  /\ shownData \subseteq DataIds /\ shownNotes \subseteq NoteIds
  /\ chosenData \in {0} \cup DataIds /\ chosenNote \in {0} \cup NoteIds
  /\ lost \in BOOLEAN /\ mixed \in BOOLEAN

PageAtRest ==
  /\ loads = <<>> /\ loader = noUpload /\ upload = noUpload /\ copying = 0
  /\ watching = {} /\ dataLists = <<>> /\ noteLists = <<>> /\ dropping = {}

\* At rest the disk holds the folders of the datasets that are there and no
\* others, however loads failed and datasets went, unless one went while it
\* was being loaded.
FoldersAreDatasets ==
  PageAtRest /\ ~lost =>
    folders = {dataset[d].file : d \in DataIds} \ {0}

\* At rest the page lists what the server has, and a dataset whose load failed
\* is on neither side, unless an answer came late.
ListsAreTables ==
  PageAtRest /\ ~lost /\ ~mixed =>
    /\ shownData = {d \in DataIds : dataset[d] # noData}
    /\ shownNotes = {n \in NoteIds : notebook[n] # 0}
    /\ \A d \in shownData : dataset[d].status = "finished"

\* At rest the dataset and the notebook that are selected are in their lists,
\* however the ends of loads and the user's clicks and deletions took turns in
\* selecting: both may be selected at once.
ChosenIsListed ==
  PageAtRest /\ ~lost /\ ~mixed =>
    chosenData \in {0} \cup shownData /\ chosenNote \in {0} \cup shownNotes
=============================================================================
