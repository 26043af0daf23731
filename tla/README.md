# A verification project for DashAI

DashAI is a machine-learning workbench that runs on one machine: a FastAPI
back end, a Huey consumer that does the slow work, and a React front end, over
two SQLite databases and a directory of files. This directory holds TLA+ models
of the parts of it whose correctness depends on the order in which things happen,
the TLC configurations that check them, and TLAPS proofs about them. Paths below
are relative to `src/DashAI/` unless they start with `src/`.

## 1. The system

    browser tab              API process                     consumer process
    -----------              -----------                     ----------------
    pages, widgets   HTTP    endpoints/*.py                  huey_consumer, 1 worker
    jobPoller.js    ------>  one event loop                  job.run()
    hooks            <-----  ComponentRegistry (a copy)      ComponentRegistry (a copy)
                                 |        |                       |       |
                                 |        +---- job_queue.db -----+       |
                                 |              task, task_copy           |
                                 +------------- db.sqlite, files ---------+

`__main__.py` starts the consumer as a child process and the API in its own, and
terminates the consumer when the API stops. Nothing is repaired on start. The
two processes share only the two databases and the files: there is no lock and
no transaction across them.

### Inventory

| Component | State | Operations | Hard behaviour | What makes it correct | Status |
|---|---|---|---|---|---|
| Job queue (`back/dependencies/job_queues`, `endpoints/jobs.py`) | tables `task` (Huey's) and `task_copy`; the status of the entity a job is for | enqueue, cancel, clear all, is_empty, status, changes; signals of the consumer | two processes, two databases, no common transaction; a cancel that races the worker; crashes | the two tables and the status tell one story; first come first served; no job lost, none run twice | modelled |
| Job classes (`back/job/*.py`) | status of Run, Dataset, Prediction, Explorer, Explainer, ConverterList, GenerativeProcess | `set_status_as_delivered`, `run`, `set_status_as_error` | stages that fail one by one, each with its own error path | an ended job leaves a final status | partly: the protocol all of them share |
| Job poller (`front/src/utils/jobPoller.js`, `hooks/useJobPolling.js`) | active flag, timers, subscribers, watchers, cursor | subscribe, startJobPolling, pollJobs, per-job interval | async functions overlap; state is tested before an `await` and used after it | a watched job's end is reported; the poller stops when there is nothing to watch, and not before | modelled |
| Component registry (`back/dependencies/registry`) | name -> class, list of relations, one copy per process | register, unregister, queries | symmetric lists kept by hand | a relation is in both lists, and only between registered components | modelled |
| Plugins (`endpoints/plugins.py`, `plugins/utils.py`, `job/sync_components_job.py`) | Plugin.status, packages installed, both registries | install, uninstall, upgrade, sync job | two copies brought together by a queued job | both registries come back to what is installed | modelled |
| Notebooks and converters (`endpoints/converters.py`, `notebook.py`, `job/converter_job.py`, `front/src/components/notebooks`) | the notebook's dataset file, ConverterList rows, the page's boxes | create, apply, delete (restore the original, replay) | files changed by the API while the worker reads and writes them; replay through the queue; three sources of a box's status | the notebook's data is the original with its finished converters applied in order; every box ends | modelled |
| Explorers (`endpoints/explorers.py`, `job/explorer_job.py`) | Explorer rows and result files | create, run, delete | reads the notebook's file at the time it runs | a result is that of the converters created before it | modelled with the notebooks |
| Runs and model sessions (`endpoints/runs.py`, `model_sessions.py`, `job/model_job.py`, `front/src/pages/models`) | Run rows, model files, the page's list, dialog and handlers | create, train, train again, reset, delete | four requests in a row; files removed before the commit; reset of a run that is being trained; late lists | a FINISHED run has its model file; its operations are of that model; the page shows what is | modelled |
| Predictions, explainers (`endpoints/predict.py`, `explainers.py`, jobs) | rows and result files | create, run, delete | several paths of `run` leave the status STARTED; explainers outlive their run | computed with the model the run has | partly: one operation of a run, and the rows explainers get |
| Datasets (`endpoints/datasets.py`, `job/dataset_job.py`, `front/src/pages/datasets`) | Dataset rows, folders, two lists and a selection on the page | create from a file or a notebook, load, delete | only JobError is turned into a status; the page deletes first and asks later | no folder without its dataset; the page lists what is; what is selected is listed | modelled but for copies |
| Generative sessions (`endpoints/generative_*.py`, `job/generative_job.py`, `front/src/components/generative`) | sessions, messages (processes) and their data rows, the chat | create, send, reply, fail, change parameters, delete | outputs committed before the final status; history read when the job is taken; lists and single messages that arrive in any order | a finished message has one reply, its own, made from what was answered before it; the chat shows the session's messages | modelled for tasks with a history |
| Pipelines (`endpoints/pipelines.py`, `pipeline/`, `job/pipeline_job.py`) | pipeline graph and results | create, validate | the job class lacks abstract methods of BaseJob and cannot be made | the validator accepts only runnable graphs | not modelled |
| Live metrics (`endpoints/metrics.py`, `models/base_model.py`, `LiveMetricsChart.jsx`) | Metric rows, step counters, the cursor of a websocket, the chart's data | log, poll and push | cursor is a timestamp over rows ordered by step; two queries without a snapshot | no row is passed over; a closed socket has sent all | modelled |
| Splits of a dataset (`back/dataloaders/classes/dashai_dataset.py`, `job/model_job.py`, `job/explainer_job.py`) | the session's split, the run's lists, the merged table | split, merge, take apart | lists of positions that outlive the table they were made for; rounding | a run and its explainers get the rows that were recorded, each part its own | modelled |
| Models, optimizers, metrics, tasks, converters, explorers, explainers, parsing of files | none between calls | numerical code of libraries | numerical | outside TLA+ | not modelled |
| Bootstrap (`__main__.py`, `runner.py`, `back/app.py`, `back/container.py`) | processes | start, stop | a restart is a crash of whatever was running | covered by the crashes of the other models | modelled as crashes |
| Other UI components (`front/src/components`, `pages`) | React state | forms, tours, drawing | - | - | not modelled |

## 2. Modules

| Module | Models |
|---|---|
| `JobLifecycle` | what a job queue promises: an abstract server that runs one task at a time, in order of arrival, each at most once |
| `JobQueue` | `HueyJobQueue`, the enqueue / cancel / clear handlers, the consumer, the entity status |
| `JobQueueProofs` | theorems about `JobQueue`, among them that it implements `JobLifecycle` |
| `JobPoller` | the front end's poller, the widgets and the handlers of the API it asks |
| `JobPollerProofs` | theorems about `JobPoller` |
| `ComponentRegistry` | `ComponentRegistry` and `RelationshipManager` as operators on one value, a registry |
| `Plugins` | the plugin handlers, pip's packages, the rows, both registries, the sync jobs |
| `PluginsProofs` | theorems about `Plugins` |
| `Notebook` | a notebook's dataset, its converters and explorers, their jobs, and the deletion that restores and replays |
| `NotebookPage` | the boxes of the notebook's page: their own requests, the callbacks of watched jobs, the lists |
| `ModelsPage` | sessions, runs and what is computed with their models: the page, the handlers, the jobs |
| `DatasetsPage` | datasets and the notebooks made of them: the page, the handlers, `DatasetJob` |
| `LiveMetrics` | the trainer's rows, the websocket and the chart |
| `GenerativeChat` | generative sessions and their messages: the chat, the handlers, `GenerativeJob` |
| `Splits` | which rows of a dataset a run is trained and tested with, and which its explainers get |
| `DataFacts` | lemmas about largest elements and sequences, for the modules below |
| `NotebookProofs` | theorems about `Notebook` and `NotebookPage` |
| `ModelsPageProofs` | theorems about `ModelsPage` |
| `PartsProofs` | theorems about `DatasetsPage`, `GenerativeChat`, `LiveMetrics` and `Splits` |
| `MCJobQueue`, `MCPlugins` | symmetry and small instances for TLC |
| `MCPages` | `Notebook` and `ModelsPage` in one run |
| `MCParts` | `DatasetsPage`, `LiveMetrics`, `GenerativeChat`, `Splits`, and `Plugins` with conflicting names, in one run |
| `RunsProofs` | theorems that `MCPages` and `MCParts` implement what they are made of, and hence have all its invariants |

`JobPoller` takes the queue as its handlers present it: a job is queued, started,
ended well or badly, or removed, which are the rows of `JobQueue`.
`Plugins` takes it as a number of sync jobs that wait: they are all alike, and
that the queue runs each once and in order is what `JobQueue` shows. The
modules of the pages take it as a sequence, first come first served, each job
run once, which is `JobLifecycle` and its `OneLine`, and the end of a watched job as something
the page is told once, which is `JobPoller`'s `WatchTold`.

### JobQueue

State. `rowid` is Huey's table `task` (0: not there; a new key is the largest
one plus one, as SQLite hands out integer keys without AUTOINCREMENT, so keys
come back); `task_copy` the table the UI reads; `status` the status column of
the entities; `target` which entity a task's job is for. `apiPc` ... is the one
handler in progress in the API process (no handler modelled awaits between two
database calls, so the event loop never interleaves two of them), and `workPc`,
`workTask` the worker of the consumer. Each database statement that another
process can see is one action.

| Code | Actions |
|---|---|
| `enqueue_job`, `put`, Huey's enqueue | `EnqueueDeliver`, `SignalEnqueued`, `StorageEnqueue`, `PutFails` |
| `cancel_job`, `delete_from_db` | `CancelRead` (the SELECT, outside any transaction), `CancelMark` (the first DELETE takes the write lock, then `set_status_as_error` writes the other database), `CancelCommit` |
| `cancel_all_jobs`, `delete_all_jobs` | `ClearRead`, `ClearMark` once per job, `ClearCommit` |
| DELETE of an entity | `DeleteEntity` |
| consumer | `Dequeue`, `SignalExecuting`, `RunStart`, `RunFinish`, `RunRaises`, `SignalComplete`, `SignalError` |
| process death and start | `ApiCrash`, `WorkerCrash`, `WorkerRestart` |

`Careful` is the set of entities whose job writes ERROR on every failing path of
`run()` (ModelJob, ExplorerJob and ExplainerJob once their entity is loaded);
DatasetJob, PredictJob and GenerativeJob let some exceptions through with the
status unchanged, and `RunRaises` has that outcome for the rest. Code that is
not called in production (`get`, `async_get`) has no action. `peek`, `status`,
`to_list` and `changes_since` read and change nothing; `is_empty` is the
operator `IsEmpty`. Two statements of `is_empty` are one step: its first query
answers "not empty" at once when a task waits, and when none does only the
worker can write between the two.

Properties.

- `QueuedShown`: a waiting task is shown as queued, and is not also being run.
  SIGNAL_ENQUEUED comes before the row is visible to the worker, and this is
  what that order is for.
- `EmptyIsIdle`: when `is_empty` says yes, the worker has nothing in hand but in
  two windows, both named in the property: between the removal from `task` and
  the EXECUTING signal, and after the row of a running job was deleted.
- `StartedRowsLive`: a row says "started" for the task in hand only, plus at most
  one row for each crash. (Such a row makes `is_empty` false for ever.)
- `DeliveredHasTask`: while nothing fails, an entity shown as delivered has a
  task that will run for it, whatever cancels race with the worker.
- `RowAgreesWithEntity`: the row of an ended task and the entity's status agree,
  across crashes too; the exceptions are the ones the property lists.
- `ImplementsLifecycle`: refinement of `JobLifecycle`.
  It inherits `ServesOneLine`: of any two waiting tasks one joined before the other, and one task runs at
  a time, although Huey's keys are handed out again (`OneLine` of `JobLifecycle`; a theorem, see section 5).
- `RowSettles`, `StatusSettles`, `QueueDrains`: liveness.

### JobPoller

State. `job` is a job's row in `task_copy`; `active` is `state.active`, `watchers`
the jobs in `state.jobWatchers`, `cursor` and `recent` are `state.lastCursor` and
`state.lastCompletionTime`; `widget`
which widgets are mounted. `polls`, `statuses` and `replies` are what is between the
browser and the API: a `pollJobs` waiting at its first or second `await`, the status
requests of the per-job intervals, the answers to an enqueue. JavaScript runs one
callback at a time, so a function is one action up to its next `await`, and another
from there: `PollJobs`, `IsEmptyArrives`, `ChangesArrive`. An answer is what the server
had when it was asked, and may arrive after later ones. `faults` counts requests
that fail.

| Code | Actions |
|---|---|
| `subscribeJobs`, its unsubscribe, `forceRefreshNow` | `Subscribe`, `Unsubscribe`, `Refresh` |
| `startJobPolling` after an enqueue | `Enqueue`, `StartJobPolling` |
| the two `setInterval`s and the `setTimeout` | `PollTick`, `StatusTick`, `FiveSeconds` |
| `pollJobs` after each `await` | `IsEmptyArrives`, `ChangesArrive`, `PollFails` |
| the interval of one job after its `await` | `StatusArrives`, `StatusFails` |
| the server | `JobMoves`, `JobRuns`, `JobRemoved` |

A job's interval has one status request under way at a time, and the requests are
answered in the state in which they are sent; only the answers are delayed. Rows
that a widget draws are not kept. `cleanupJobPoller`, `useJobTracker` and
`checkQueueAndMaybeStartPolling` are called by nothing.

Properties.

- `WatchEndsTold`: a job stops being watched only by a step that calls its
  `onSuccess` or `onError`. Two answers race for that step.
- `ToldTruth`: what a callback was told is how the job ended, however old
  the answer.
- `WatchTold`: a watched job that ends is reported, though polls fail
  and the poller is stopped and started around it.
- `PollerRests`: with nothing to watch and nobody subscribed, the poller stops.

That the poller is active while a job is watched does not hold: `pollJobs` tests that nobody watches, awaits
`isQueueEmpty`, and stops on the answer, and a `startJobPolling` in between found it active. The
job's own interval still reports the end, which is why `WatchTold` does not need it.

### ComponentRegistry and Plugins

State. A registry has the class under each name, and for each two names how often
the list of the first has the second. (The type a component is kept under is
left out: classes of one name are taken to be of one type.) `registry` has the API's
and the consumer's; `pip` the version of each package that is installed, `published` the
one on PyPI; `status` and `installed_version` are the Plugin row; `syncs` is how many sync
jobs wait. A handler waits for pip with the event loop blocked, so there is one in
progress at a time (`apiPc`), while the consumer runs on (`workPc`). A handler is cut where
the consumer can see a difference: after pip, and at its end. `SyncComponentsJob.run`
reads the installed packages twice, which are two actions. pip itself is atomic,
and a package has the same entry points in all its versions. `unsynced` is
a history variable: a sync job was cancelled by Clear All, or could not be put, and none has
started since.

| Code | Actions |
|---|---|
| `refresh_plugins_record`, `delete_plugin` | `RefreshPluginsRecord`, `DeletePlugin` |
| `update_plugin` to INSTALLED | `Install`, then `InstallEnds`, which aborts on a conflict |
| `update_plugin` to REGISTERED | `Uninstall`, `UninstallEnds` |
| `upgrade_plugin` | `UpgradeInstalled`, `UpgradeUnregisters` (or `UpgradeRegistered`), `UpgradeInstalls`, `UpgradeRegisters` |
| `SyncComponentsJob.run` | `SyncStarts`, `SyncRuns` |
| Clear All, start and stop | `CancelSyncs`, `Restart` |

A handler that raises ends where it is, with what it has done done: out of the
registry (`UnregisterRaises`), of `put` (`PutFails`), of the commit (`PutAndRecord`), of PyPI or
pip (`UpgradeInstalls`).

Properties.

- `RelationsConsistent`: "hopefully, consistent between them", says the class; each
  of two components has the other as often, after any sequence of registering twice,
  replacing, and unregistering half-way.
- `UnregisterFinds`: `remove_relationship` is not asked for what is not there. Its
  `list.remove` would raise a ValueError that nothing catches.
- `ApiUpToDate`, `ConsumerUpToDate`: between requests the API has what DashAI brings
  and what is installed, and so has the consumer once the sync jobs are through.
  Names are distinct here; with names that conflict see section 6.
- `InstalledIsInstalled`: relates the row to pip.

### Notebook

State. `rows` are the tables `converter_list` and `explorer`; a row's `made` is its place
in the order of `created`. `file` and `applied` are the notebook's dataset: whether it is
whole, and which converters are in it. `jobs` waits, `work` is in the consumer's
hands; `api` and `erase` are where `delete_converter_list` is and what it has read. The
handler blocks the event loop, so other requests wait for it; the consumer does
not. Keys are SQLite's, which hands out that of a deleted last row again.

| Code | Actions |
|---|---|
| the POST of a converter or explorer, then `enqueue_job` | `Post`, `Enqueue` (or `NeverEnqueued`: the page was left, the request was lost) |
| `delete_converter_list` | `DeleteBegins` (rows selected, `copytree` begins), `RestoreEnds`, `PutAgain` per earlier converter, `DeleteCommits` or `DeleteFails` |
| `delete_explorer`, `delete_notebook` | `DeleteExplorer`, `DeleteNotebook` |
| `ConverterListJob.run`, `ExplorerJob.run` | `TakeJob`, `LoadFile` or `LoadFails`, `JobFails` or `ConvertSaves`, `JobEnds` |

While `copytree` runs the file is torn: a job reads it as it was, as it will
be, or not at all, and when a converter saves meanwhile what is left is either
version or neither. The history variable `met` says that a deletion began while
other work was waiting or in hand, or that rows were enqueued in another order than they were
created in. The code has nothing to keep that from happening, and then promises
nothing, so the two properties about data except it; what happens in it is `DeletedIsUndone`
(section 6).

- `NotebookIsReplay`: at rest, the dataset is the original with the FINISHED converters in it,
  each once, in order, after any deletions and replays.
- `ExplorerSawItsData`: a result is that of the converters created before the explorer,
  also when it ran while they were being replayed.
- `ProcessingHasJob`: a row that is not final is on its way.

### NotebookPage

State. `rowStatus`, `created` and `queued` are what the page can see of the server. `boxes` is
`explorersAndConverters`; `asked` are the boxes' own requests, each with the status the
box had when it asked, for the answer is compared with that and not with what the
box shows by then; `stopped` the boxes whose interval an error has cleared. A
render makes `handleStatusChange` anew (it depends on nothing stable), which restarts every interval:
`Render`. `lists` are fetched lists on their way. `BaseJob` has no attribute
`id`, so the `jobId` of a deletion is always null and the page always takes the branch
that fetches at once. A single request of the page that fails is modelled for the boxes
only (a row that is gone answers 404).

- `BoxesAreRows`: with no answer under way, the boxes are those of the rows.
- `BoxesSettle`: a box in work comes to show an end, or goes. Excepted are the
  states after a list arrived that was read before a row came or went (`spoiled`): a box it brought back
  may be of a row that never ends.

### ModelsPage

State. `runs` has a run's session, status and model (the training that made its
file, 0 for no file), `op` the latest explanation or prediction of a run and the model
it was computed with; `modelJobs` and `inHand` are the queue and the consumer. `flows` are
handlers of the page between two requests: creating, deleting, training. A flow keeps the
step it is at, and `live` is whether the page that began it is still there. `shown` is
what the page lists, `answers` and `callbacks` the lists and runs on their way to it,
`watched` its calls of `startJobPolling`. `forsaken` are the runs of which the page will be told
nothing more: it was left while they were trained, or an answer about their training was
lost. A run leaves it when the page starts to watch a training of it.

| Code | Actions |
|---|---|
| `handleTrainRun` | `TrainRun`, `OperationsCounted` or `CountFails` |
| `RetrainConfirmDialog` | `ConfirmRetrain`, `CancelRetrain` |
| `executeTraining` | `DeleteOperations`, `ResetBegins`, `ResetEnds`, `EnqueueRun`, `TrainingStarted`; a request that fails: `FlowFails`, at the enqueue also `EnqueueBreaks`; the answer to it is lost: `StartUnheard` |
| `delete_run` | `DeleteRun`, `RemoveBegins` (the file), `RemoveEnds` (the commit), `RunRemoved` |
| sessions | `SelectSession`, `CreateSession`, `DeleteSession`, `SessionDeleted`, `ListOfRunsArrives` |
| a list, or the answer to a creation or deletion, is lost | `AnswerLost` |
| end of a watched job | `JobTold` (whose `getRunById` may fail), `RunArrives` |
| leaving the page or reloading it | `Remount` |
| `ModelJob.run`, `PredictJob.run`, `ExplainerJob.run` | `TakeModelJob`, `SaveModel`, `TrainingEnds`, `OperationEnds` |

Three history variables. `collided` says that work on a run met other work on it, that a
key was handed out again while something still hung on it, or that a count or
a commit failed, that of `reset_run` after the files were removed included. `crossed` says that an answer reached a
page that had moved on, was about a training of the run before the newest one, or was a list or a
creation or deletion that never arrived; and that the page was left while a session's deletion
was under way. `unaware` says that a training was under way of which the page was
not, or no longer, told. Nothing in the code prevents any of them, and the properties say what holds while they have not
happened.

- `FinishedHasModel`: relates the row to the file, but for the window between the two
  in the handlers that take the file away.
- `OpsBelongToModel`: what explains a FINISHED run, or was predicted with it, was computed with
  the model it has now. A page that is `unaware` can show an old status, and then trains without asking for operations.
- `ShownIsSelected`: at rest the page shows the runs of the selected session as they are.
- `RunShownIsFollowed`: a run shown in work has something under way that will tell
  the page how it ended, unless it is forsaken. Spinners do stay in this code, and the property says in which
  cases only: `getRunById` fails in the callback of a watched job (`ModelsContent.jsx:629` and `641`); the answer to the enqueue is
  lost, or `put` raises when the row says DELIVERED already; the page is left during a training and mounted again, after which
  nothing calls `startJobPolling` for the run. These are per run: the other runs are still covered, the same page included. Beyond
  them it claims nothing once work has collided or an answer was late or lost.

### DatasetsPage

State. `dataset` and `notebook` are the tables, `folders` what is on the disk; `loads` and `loader` the
queue of DatasetJobs and the one in hand; `shownData` and `shownNotes` what the page lists, and
`chosenData` and `chosenNote` its two selections, `selectedDatasetId` and `selectedNotebookId` (together `chosen`): a click sets one and
clears the other, but the end of a load touches only the dataset's, so that both may be set. `create_notebook`
is a plain `def`, so it runs in a thread and other requests are handled between
its look-up and its commit (`CopyBegins`, `CopyEnds`). Deletion is optimistic: `DeleteDataset`
changes the page, `Dropped` is the server. The end of a load is `LoadSucceeded`, which fetches
and then selects, or `LoadFailed`, which deletes the dataset and deselects whichever dataset is selected. `LoadRaises` is
every failure of a load: what was saved is removed, and the row says so or, when the error is no JobError or the
failure could not be committed, stays STARTED.
`lost` says that a dataset was deleted while its load or its notebook's copy was under way, `mixed` that
a list was read before a deletion or a creation and arrived after it.

- `FoldersAreDatasets`: at rest there is a folder for each dataset loaded, and no other.
- `ListsAreTables`: at rest the page lists what the server has, and nothing that failed to load.
- `ChosenIsListed`: at rest the dataset that is selected and the notebook that is selected are each in their list, also when
  both are.

### LiveMetrics

State. `metrics` are the rows of one run, with level, step and timestamp; `counters` the
trainer's `_metric_step_counters`; `socket` the newest websocket with its cursor and what its last
query read; `chart` the rows that reached the chart. `TrainAgain` is the reset with the next
enqueue, which may come while the trainer is at work (ModelsPage has it in
steps). `torn` says that rows were logged between a socket's two queries.

- `CursorCovers`: between queries the socket has sent every row that is not newer than its cursor.
  The cursor is that of the last row by step, which need not be the newest. A query reads all that is newer
  than the old cursor, so whichever row the new one is taken from nothing is passed over; rows are sent again.
- `ClosedHasAll`: a socket closed by the server has sent all there was.
- `OneRowPerStep`: later rows of a level have later steps, a reset under the trainer included.

### GenerativeChat

State. `chats` is the table of sessions; `message` a row of `generative_process` (its session, which message
it is, its status, when it was enqueued), `replies` its output rows in `process_data`. `chatJobs` and `writer`
are the queue and the job in hand. `openChat`, `shownChat` and `sending` are the page: the session that is selected,
the messages shown, the input disabled. `sends` are calls of `handleSendMessage` under way, `fetches` and
`polls` the lists and single messages on their way to the chat, `drops` the deletions of messages that failed,
`removing` the deletions of sessions. A chat that is unmounted gets no more answers, but what it
sent is handled, and a failed message it had asked for is deleted all the same.

| Code | Actions |
|---|---|
| `handleSessionClick`, `SelectModelMenu`, `handleNewSessionButton` | `ChooseChat`, `NewChat`, `LeaveChat`; a load of the page: `ReloadChats` |
| `handleUpdateParameters` | `UpdateParameters` (the chat is fetched again) |
| `handleSessionDelete`, `delete_generative_session` | `DeleteChat`, `ChatDeleted` |
| the effect on the session and the version of its parameters, `getMessages` | `Fetch` in each of these, `FetchArrives` |
| `handleSendMessage` | `SendMessage`, `MessageArrives`, `EnqueueMessage` or `SendFails` |
| the interval | `ChatAsks`, `PollArrives`, `DropHandled`, `DropArrives` |
| `GenerativeJob.run` | `TakeMessage` (the history is read, STARTED), `MessageFails` or `Generate`, `SaveReply` (the outputs), `FinishMessage` (the status) |

The answer of `enqueue_job` is taken together with its handling: all that waits for it is the input.
`confused` says that a key was handed out again while something of its last holder remained (its
job, its output, a request, a box of the chat); `astray` that an answer reached a chat that had moved on, or that a
message was left half sent. States after either are checked and not gone on from. What is known to happen there: a second answer with
ERROR deletes whatever message has the key by then; a reply written after its message was
deleted is the next holder's; a failed enqueue leaves the message without a job and the input disabled.

- `RepliesAreOwn`: a FINISHED message has one reply, made from itself and from exactly the messages of its
  session that were enqueued before it and answered. (The job reads them when it is taken; that it
  misses none is because jobs run one at a time and in order.)
- `ChatIsCurrent`: at rest the chat takes input and shows its session's messages, all of which have ended;
  what it shows as ended did so and, if FINISHED, is shown with its reply. A failure that came with a fetch and not
  with the interval is left on the screen, shown as waiting.

### Splits

State. A row is known by its number in the dataset's file, and a table is the sequence of its rows; an index is a
position in a table. `tableRows` is the length of the session's dataset, `sessionSplit` what the form made of it
(proportions, or lists of indexes), `splitIndexes` is `run.split_indexes`. `modelData` has the parts that a FINISHED run was
trained, validated and tested with; `explainerData` those that the last explainer got, and `instanceData` what
the last local explanation is of. Each job is one action, for nothing else touches what it reads; what is modelled is how the
rows go from one table to the next.

| Code | Definitions |
|---|---|
| `updateExperiment`, `handleRowsChange`, `parseRangeToIndex` | `ConfigureSession`, `RandomSplits`, `ListSplits` |
| `split_indexes`, `train_test_split` | `ForTraining`, `ForTesting`, `TrainTestSplit`, `Taken` |
| `split_dataset` with lists, a filter by masks | `RowsAt`, `SplitDataset` |
| `merge_splits_with_metadata`, then `get_split` | `MergeSplits`, `FirstOf`, `GetSplit` |
| `ModelJob.run` | `TrainModel`, `TrainingRaises` |
| `ExplainerJob.run`, `_generate_local_explanation` | `ExplainGlobally`, `ExplainLocally` |

Which rows a shuffle takes is any choice of the right number, and stratifying restricts it. The product of a proportion and a
number of rows is one of floats, so `Taken` allows what the exact product rounds to, and one less where
it is a whole number. A split that takes nothing raises.

- `SplitIsKept` has three parts. `TrainedAsRecorded`: the parts a run gets are the dataset's rows at the indexes it
  recorded, although `select_columns` merges them and they are taken apart again by other positions. `EachRowOnce`: a random
  split has every row of the dataset in one part and no row in two. `InstanceOfPart`: a local explanation is of the first rows of
  the part it names. Lists that were typed in may overlap and leave rows out, and the form promises nothing else.
- `ExplainersSeeTheSplit` does not hold; see section 6.

## 3. Runs

| Run | Bounds | Shows |
|---|---|---|
| `queue_safety` | 3 tasks, 2 entities (one careful), 1 fault | the safety properties and the refinement over every interleaving of the API with the worker. Three tasks give a queue of two while a third runs; two tasks for one entity give re-submission; one fault puts a crash or a failed write at every point |
| `queue_live` | 2 tasks, 2 entities, 2 faults | while nothing fails every row and every careful status settles; crashes of either process never block the line |
| `queue_clear` | expects a violation | see section 6 |
| `poller` | 1 job, 2 widgets, 2 overlapping polls, 1 failed request | the safety and the liveness of the poller. Two polls are what it takes for an old answer to arrive last; two widgets for one to leave while another is there |
| `plugins_safety` | 2 plugins, one a model for DashAI's task and for the other's task; 2 versions, 3 requests, 1 failure | both registries come back to what is installed. Three requests are an install, an uninstall or upgrade, and another install with the sync jobs of all three around them |
| `plugins_upgrade`, `plugins_race` | expect violations | see section 6 |
| `notebook_page` | 2 rows, 1 list and 1 box request under way, 1 visit or reload | two rows are a converter and an earlier one that is replayed, or an explorer that goes with it; an answer can be overtaken by a callback and a list |
| `notebook_undo` | 2 rows; expects a violation | see section 6 |
| `pages` | notebook: 3 rows, 1 failure; models: 1 session, 1 run, 1 operation, 2 trainings, 1 handler, 1 list, 1 mishap | the properties of `Notebook` and `ModelsPage`. Three rows of a notebook are a deleted converter with one before it and one after it; two trainings of a run with an operation in between are what `OpsBelongToModel` is about |
| `splits_explained` | 3 rows, quarters; expects a violation | see section 6 |
| `parts` | datasets: 2 loads, 1 notebook, 1 return; metrics: 3 rows, indices 0 to 2, 2 trainings, 2 sockets; chat: 2 sessions, 2 messages, 1 event (a switch, a change of parameters, a deletion, a reload or a lost request), 1 list and 1 single message under way; plugins: the second plugin also brings a component with the name of DashAI's task, 1 version, 3 requests, 1 failure; splits: up to 3 rows, proportions in quarters, all lists | the properties of `DatasetsPage`, `LiveMetrics`, `GenerativeChat` and `Splits`, and `RelationsConsistent` where components replace and remove each other. Two loads of datasets are one key handed out twice, or a load in hand while another dataset goes; three rows of metrics are two of one level with a reset or another level between; two messages are one with the other for history, or of two sessions, or one that gets the key of one that failed; three rows and quarters are what it takes for all three parts to have a row, or a part to be empty by its proportion or by rounding |

Tasks are symmetric (they differ only by identity); symmetry is used in the runs
that check no liveness property.

`pages` and `parts` are runs of modules that share no state: `component` (in `MCPages`) or `part` (in `MCParts`) is chosen at the start,
and a behaviour is one of that component while the others rest, so the states are the sum of theirs and not the
product. `PagesTypeOK` and `PartsTypeOK` are the type invariant of whichever it is. (That of `JobPoller` is proved and not checked.) In its part of `ModelsPage` a state after
`collided` is checked but not gone on from (the guard of `ModelsStep`): but for the types, nothing is claimed there.
The same is so of `GenerativeChat` after `confused` or `astray` (`ChatStep`).
With one session and one handler at a time the run does not reach an answer
for another session or a second click (nor a second run beside a forsaken one, which the theorem covers); with two of either, `ModelsPage` has
several million states, and the properties except those cases through `crossed` and `collided`.
The chat has close to a million with two events instead of one.

Deadlock is not looked for where the bounds let a behaviour stop: with the tasks, jobs, rows, visits
or messages used up, nobody has anything left to do. `plugins_safety` and `plugins_upgrade`
do look for it, as the program can always be started again.

## 4. Fairness

`FairSpec` assumes weak fairness of the API's handler in progress and of the
consumer. The handler is straight-line code; the consumer is a loop that polls
the table (`--delay 0.1`), and `run()` returns or raises. Requests, crashes and
failures have no fairness: they may never happen. A consumer that is down is
started again with the program.

For the poller it is weak fairness of the timers (`setInterval` fires again and
again), of the answers (a request is answered or fails) and of the jobs taken up by the
consumer, which end. What a person does (mounting, posting, removing a job) and failures have
none. `Plugins`, `Notebook`, `ModelsPage`, `DatasetsPage`, `LiveMetrics`, `GenerativeChat` and `Splits` state safety only.

For the notebook's page it is weak fairness of the answers, the callbacks and the jobs, and for each
box strong fairness of its interval: `BoxAsks` is disabled while as many requests as the bound
allows are under way, and an interval of a second and a half comes round again when they are
answered. A box out of sight asks nothing (the list is virtual): the property is about boxes in view.

## 5. Proofs

`JobQueueProofs` proves, for any sets of tasks and entities and any number of
faults, `TypeOK`, `QueuedShown`, `EmptyIsIdle`, `DeliveredHasTask`,
`RowAgreesWithEntity`, and the refinement `Spec => Lifecycle!LifecycleSpec`. They
rest on `JobQueueAssumption` only. `ServesOneLine` is proved of the abstract server and
inherited through the refinement: `IsLine` says that `ahead` orders the waiting tasks strictly and
completely, a task that joins goes after all of them (`LineJoined`), and one that
leaves takes nothing but itself (`LineLeft`).

The safety invariants are not inductive as they stand. `IInv` adds what each
control state of the handler and of the worker knows: which task it holds and
that the task was issued, what its row can be, that the rows and the tasks a
cancel holds were read together, that keys in `task` differ, and what the status
of an entity can be while its only task is in each phase. The refinement proof
takes the steps of `JobQueue` one at a time: every action is a step of
`JobLifecycle` or leaves `phase` and `ahead` as they are. `StartedRowsLive` counts,
and has an invariant of its own, `StaleInv`: the rows that say STARTED and are not of the task in hand
are finitely many and no more than the faults. A crash adds one row and one fault; every other
step leaves that set as it is or smaller, as the signal that ends a task is written before the worker lets go of it.

`JobPollerProofs` proves `TypeOK`, `WatchEndsTold` and `ToldTruth` for any jobs, widgets, number
of overlapping polls and failures. `ToldTruth` needs to know of the answers that
are under way: the inductive invariant says that every row in one of them is
truthful, that is, one that says "finished" or "error" is about a job that ended so,
which stays true as an end is never undone.

`PluginsProofs` proves `TypeOK` and `RelationsConsistent` for any packages and components,
conflicting names included. The inductive invariant is the property with the types
(`Sound`), and the argument is in the lemmas about the registry: a relation enters two lists,
once each (`EntriesSymmetric`), so registering keeps the lists alike
(`RegisterSound`), and so does any part of unregistering that does not raise (`UnregisterSound`).
The last is why the type of the lists, no entry less than none, has to be in it. They rest on
`RegistryAssumption` and `PluginsAssumption`: finitely many names and classes.

`ApiUpToDate`, `ConsumerUpToDate`, `UnregisterFinds` and `InstalledIsInstalled` are proved under one more condition, `DistinctNames`:
no plugin brings a component of the name of another's, or of DashAI's. The code sees to that only
when a plugin is installed first, not when it is upgraded, so it is a hypothesis of these theorems and
not an assumption of the module. `UpToDateInv` says what the register of each process holds: the API's the classes of the
installed packages, but for those that the request under way has found and is still to
add or remove (`ApiHolds`); the consumer's DashAI's own and some of the plugins', and, when no sync job is queued, none was lost and
the API is between two changes, what it has, or what the sync job in progress will end with (`Aim`), is what is installed.
Registering what is there already makes more entries of a relation, so all that is said of relations is that a register
has at least those of its classes (`Holds`); that is enough for every removal to find what it removes (`RemovalFinds`).

Of `LiveMetrics`, `PartsProofs` proves `CursorCovers`, `ClosedHasAll` and `OneRowPerStep` for any bounds. The invariant adds that no
row is newer than the clock, nor any cursor; that the rows of the last query are those
newer than the cursor before it, so that with what the chart had they cover everything up to
the new cursor; and, for a socket that was closed, that what it lacks came
between its two queries or after the end. The trainer's side only adds newer rows or takes
rows away (`FewerRows`). `OneRowPerStep` needs that the trainer's counters lead the table, so that the next
row of a level has a later step than all that are there (`NextStepLater`).

`NotebookProofs` proves `NotebookTypeOK` and `ProcessingHasJob` for any number of rows and failures. `ProcessingHasJob`
is an implication: it claims nothing once a deletion has met other work, and what it claims before that holds
because of what else holds before that. `RowsKept` says it: a notebook that is gone has no
rows, so a job of it finds none; and the file is whole unless the deletion is restoring it, during which
nothing else is under way, so no job fails to load it and leaves its row STARTED. The types are part of the induction
because the next key of a table is one more than the largest in use: `NextIdBound` is that it is no
larger than the number of rows made. That needs the largest element of a set to exist,
which `DataFacts` takes from the well-foundedness of the numbers.

`ModelsPageProofs` proves `FinishedHasModel` for any number of sessions, runs, trainings and handlers at a time. `Exclusive`
is what it rests on: while no work on a run has met other work on it, a run has at most one
handler that goes on to change it, and none while a job trains it, and a job that has saved its model finds it there
when it writes FINISHED. So nobody takes the file away under the trainer, and
what takes it away at other times writes the status in the same handler. The instance that TLC checks has one handler at a time;
the theorem has any number, of the same run or of different ones.

The same module proves `OpsBelongToModel`, `RunShownIsFollowed` and `ShownIsSelected`. Their invariant, `PageInv`, claims something only
while no work has met other work and no answer was late or lost (`Clean`), and then says of every run on its own:

- `Alone`, `Phase`: it has at most one handler, and the handler, the job and the row agree on how far its training is. A job that trains
  it is queued or in hand exactly while the row says DELIVERED or STARTED, and the only handler there can be then
  is the one that is told so. `OneJob` is that no run has two such jobs.
- `FreshBefore`, `Own`: where the row is being reset, or does not say FINISHED, nothing computed with an old model is left, nor is
  being computed; and what there is was computed with the model in the row.
- `Claims`: whoever tells the page that a run is idle or has failed (what is shown, a list or an answer under way
  that is not late) says the truth, unless the answer to the start of a training is still to come or the run is forsaken. This is why a click on
  such a run need not ask for operations.
- `Numbers`, `FollowedJob`, `InWorkFollowed`: the last training of a run has the largest number and is watched, or about to be, unless the run is
  forsaken; answers are about smaller numbers. Who was told that a run is in work will be told how it ends, with the same exception.
- `Gone`, `OfSession`, `Exact`, `Real`: what is shown, and every list under way that is not late, has the runs of the selected session, with
  the statuses of the table unless the change is on its way; and a run that the page asks about is there.

A list that is under way is the future of what is shown: every clause about what is shown allows for `Unanswered`, and no clause about the
lists does. And `Exact` claims nothing after a failure, where the others still do: a lost request leaves a run idle
that is shown as finished; where it leaves a spinner the run is in `forsaken`. `Aware` ties the history to the state: while the page was
never `unaware`, every handler is of the page that is there, and without failures no run is forsaken, which is why
`OpsBelongToModel` and `ShownIsSelected` need not speak of `forsaken`. A step is argued for the one run it touches (`RunKept`, `OneRunKept`, `ConsumerKept`);
of the others everything stays (`ServedStays`, `PagedStays`).

Its third part proves `ModelsPageTypeOK`, for any bounds. That no more trainings are enqueued than `MaxTrained` needs a count: those
enqueued and the handlers that will still enqueue one (`Trainers`, `WillTrain`) are together never more (`FlowsCounted`), because `Room`
is asked for when such a handler begins; and a page that is left keeps its handlers and their numbers. `ModelsKnown` is that
no row, job or operation speaks of a training that was not enqueued.

`NotebookProofs` also proves `NotebookIsReplay` and `ExplorerSawItsData`, for any number of rows, failures, deletions and
replays. The right-hand sides of both filter the rows by their order of creation, so what the proof speaks of is that order:
while no deletion has met other work, whatever is done or still to be done is in it. `KeysInOrder` says so of the keys, `JobsInOrder`
and `WorkInOrder` of the queue and the job in hand, `LaterInOrder` and `EraseInOrder` of what a deletion will take away and put
again; `EndsAsItShould` and `AppliedSoFar` say what is in the file: the original and exactly the converters that are FINISHED, but for
the one in hand that has saved, and for those a deletion has still to replay; `ResultsInOrder` is the same of what an explorer saw.
A notebook that is gone has nothing of all this (`NothingLeft`). Together they are `ReplayInv`.

For the notebook's page it proves `NotebookPageTypeOK` and `BoxesAreRows`. The invariant, `BoxInv`, says that the row under creation
exists, that the one under deletion does not, and that only rows that exist wait for the consumer; and that, but for those two, and until the
list that follows a converter's deletion, every row has its box and every box its row. It says the last with no list under way only, since a list
replaces all boxes and is compared with the rows when it arrives: one that differs from them makes the page `spoiled`.

`PartsProofs` proves, of `GenerativeChat`, the types, `RepliesAreOwn` and `ChatIsCurrent`, for any number of sessions, messages,
lists and requests under way. `ReplyInv` holds while no key was handed out too early (`~confused`): a message is in one place at a time (`JobsApart`),
its status says in which (`Placed`), messages are worked on in the order in which they were enqueued (`InTurn`), and so what the writer took for
history when it began is still the history when it saves (`WriterKnows`, `Answered`): nothing before it in turn can become FINISHED meanwhile, as
only the writer writes that. `CurrentInv` holds while no answer went astray either, and says that what is shown, when no list is on its way, and
every list that is not late, has the messages of its session (`Follows`), but for one whose POST is not answered yet and one whose deletion was
answered and is still to be shown; that an end is never undone, so that what is told of one stays true however long it is under way (`Truthful`,
`EndsStay`); and that while the input is disabled something will enable it (`InputReturns`). That a list which was overtaken is no longer spoken of, and that each
list replaces all that is shown, is why nothing need be said of what is shown while one is under way.

Of `DatasetsPage` it proves the types, `FoldersAreDatasets`, `ListsAreTables` and `ChosenIsListed`, for any number of datasets, notebooks,
lists and returns to the page. `LoadInv` holds while no dataset went while it was loaded or copied (`~lost`): each row agrees with the job
that loads it, but that a load which failed may leave it STARTED (`RowsAgree`; so whether a load is over, `LoadOver`, goes by its outcome), each job with its row (`LoadsAgree`), and the folders are those of the rows and of the job that has
saved and not yet written its status. `DatasetsInv` adds the page, while no list was overtaken (`~mixed`): what is shown exists and is not about to be deleted; with no list on
its way what exists is shown, is under creation, or is about to be deleted; a list that is not late misses nothing that is shown, nor that
an earlier list has; and each of the two selections is shown, or is in the list with whose arrival it is selected.

Of `Splits` it proves the types and `SplitIsKept`, for any number of rows, any proportions and any lists. `Ascending` is a CHOOSE,
so that there is such a sequence comes first: `OrderExists` takes the least size of a set that has none, and the order
of such a set without its largest element; that the sequence has all of the set (`AscendingHasAll`) is because no sequence of that
length without repetitions has fewer elements. Then `RowsOfDataset` says what a filter leaves of the dataset, and `TakenApart` that what is taken
from the merged table at the recorded places is the part that went in, whichever parts are empty. `ListsPrepared` is that a random split's
lists have each row once, whatever the rounding. `SplitsInv` adds only that nothing is said of a run before its session was made.

`RunsProofs` puts these together. A behaviour of `MCPages` is one of `Notebook` and one of `ModelsPage`, as a step of one
component leaves the other as it was (`PagesImplement`), and likewise for `MCParts` (`PartsImplement`). So all the invariants
that the runs `pages` and `parts` check hold in them for any bounds (`PagesHold`, `PartsHold`), `PagesTypeOK` and
`PartsTypeOK` included (`PagesTypeHolds`, `PartsTypeHolds`), and that a component is checked by TLC beside others loses nothing.

Checked by TLC only: liveness, which is out of the provers' reach (`RowSettles`, `StatusSettles`, `QueueDrains`, `WatchTold`,
`PollerRests`, `BoxesSettle`). Every other property of a passing run is the subject of a theorem.

## 6. Disagreements found

- **Clear All does not cancel every job** (`queue_clear`). `delete_all_jobs`
  selects the waiting rows in autocommit mode
  (`back/dependencies/job_queues/huey_job_queue.py:445`), marks each job's entity
  ERROR, and only then deletes. A job the worker takes in between is marked ERROR,
  runs to its end and is FINISHED, with no row left to show it. The dialog says
  "This will cancel all jobs in the queue."
  (`front/src/components/jobs/JobQueueWidget.jsx:520`).
- **An upgrade never reaches the row** (`plugins_upgrade`). `upgrade_plugin_info_in_db`
  (`back/dependencies/database/utils.py:108`) lacks the `@inject` of its neighbour: its session
  factory is a `Depends` object, and calling it is a TypeError. The package is
  upgraded, the answer is 500.
- **An aborted install can stay in the consumer** (`plugins_race`). A sync job of an
  earlier request that runs between pip install and pip uninstall
  (`plugins.py:259-269`) registers the components in the consumer over DashAI's; no sync
  job follows, and the next one removes DashAI's component with the plugin's.
- **A deleted converter can stay applied** (`notebook_undo`). `delete_converter_list` restores the
  original dataset (`endpoints/converters.py:218`) while the job of a converter created later waits or is in the
  consumer's hands. That job has read the dataset, or reads it before the rows are deleted, and saves it after the restore: the
  notebook's dataset then has the effect of a converter whose row is gone. The dialog says "Deleting this
  converter will also remove all subsequent converters and explorers applied after it."
  (`front/src/utils/i18n/locales/en/datasets.json:123`).
- **Explainers get other rows than the split's** (`splits_explained`). `ExplainerJob.run` splits the dataset by the lists of the
  run (`back/job/explainer_job.py:403`); `prepare_for_task` merges the parts, in the order test, train, validation
  (`back/dataloaders/classes/dashai_dataset.py:655`), and lines 422 to 433 split the merged table by the same lists, which are of the
  dataset's own order. A global explainer then explains rows the model was trained with: `permutation_feature_importance.py:80`
  says "Fraction of samples to draw from the test set to calculate feature importance at each
  repetition." A local one is fitted on rows of all parts: `kernel_shap.py:54` says "otherwise the entire training set is used."
  What a local explanation is of is taken from the dataset itself and is right (`InstanceOfPart`). Two rows,
  one of them for training, are enough.

## 7. Not modelled

- What a job computes; the numerical libraries; the parsing of files; HTTP parsing;
  rendering.
- `HueyJobQueue.get` and `async_get`: no production caller.
- SQLite's own failures other than as a failed write (`Fault`).
- The embedded consumer of the packaged executable (a thread): same steps, and
  it dies with the API.

- Of the plugins: a registration that raises half-way inside a handler (an unregistration that does is), the columns of a row that say nothing of what is installed, pip as
  several steps, two classes of one name and different types.
- Of the poller: the rows a widget draws. Of the registry: the queries, among them
  `get_related_components`, which raises KeyError for a relation to a component that is not registered.
- Of the notebook: what a converter computes, descriptions and names, single requests of the page that
  fail (after a passing error on a row that is there the box's interval stops, and its spinner stays). Of the models: a failing commit of the failure of a training, crashes of the
  consumer and cancelled jobs, which are those of `JobQueue` and `JobPoller`, the dataset list of the page, edits of a run, plots, an operation's own status and
  deletion. Of the datasets: copies, edits, exports, single fetches of the page that fail. Of the splits: a local
  explanation of another dataset than the run's, which is split anew, and which rows stratifying takes. Of the metrics: TRIAL rows, the LAST row that is updated
  in place, and the drawing.
- Of generative sessions: the history of parameters and the form they are edited in, images, tasks without a history, the output row "Error details" of
  a failed process (history and replies are read of FINISHED messages only).
  That a waiting message is cancelled is `JobQueue`'s (the message is marked ERROR).
- Pipelines: `PipelineJob` lacks abstract methods of `BaseJob`, so no pipeline can run, and its rows are only stored.
- Component and download queries, which change nothing that is kept.

## 8. Plan

1. `JobLifecycle`, `JobQueue`, `JobQueueProofs`: the core (done).
2. `JobPoller`, `JobPollerProofs`: the front end's view of the queue (done).
3. `ComponentRegistry`, `Plugins`, `PluginsProofs`: two registries brought together by
   queued sync jobs (done).
4. `Notebook`, `NotebookPage`: a notebook's dataset, and its page (done).
5. `ModelsPage`, `DatasetsPage`: runs and datasets with their pages (done).
6. `LiveMetrics`: the websocket against the trainer (done).
7. `GenerativeChat`: generative sessions and their chat (done).
8. `NotebookProofs`, `ModelsPageProofs`: `ProcessingHasJob` and `FinishedHasModel` (done).
9. Theorems of the other safety properties that the runs check: `OneRowPerStep`, those of `Plugins` where names are distinct, of
   `ModelsPage`, `Notebook`, `NotebookPage`, and in `PartsProofs` of `DatasetsPage` and `GenerativeChat` (done).
10. `Splits`: dataset splits and the rows that runs and explainers get (done).
11. Left: the history of parameters of generative sessions; the rows a widget draws; copies of datasets.
