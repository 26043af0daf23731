------------------------------ MODULE LiveMetrics ------------------------------
(***************************************************************************)
(* The live metrics of a run: the trainer inserts a row for every step,    *)
(* epoch or trial it measures (BaseModel._save_metrics), a websocket sends *)
(* the rows that are newer than its cursor until the run has ended, and    *)
(* LiveMetricsChart appends what it receives.                              *)
(*                                                                         *)
(* The cursor is the timestamp of the last row in the order of steps, which *)
(* are counted per level, and the rows and the run are read by two queries *)
(* that share no snapshot.                                                 *)
(***************************************************************************)
EXTENDS Integers, FiniteSetsExt

CONSTANTS
  MaxRows,       \* bound on the rows that are ever logged
  MaxIndex,      \* bound on the indices a model logs with
  MaxTrainings,  \* bound on the trainings of the run
  MaxSockets     \* bound on the websockets that are ever opened

ASSUME LiveMetricsAssumption == {MaxRows, MaxIndex, MaxTrainings, MaxSockets} \subseteq Nat \ {0}

VARIABLES
  metrics,   \* the table metric: level, step and timestamp of each row
  now,       \* the clock, which every row advances
  run,       \* the run's status, "none" when it is deleted
  trainings, \* how many were enqueued
  taken,     \* how many of those the consumer has taken
  trainer,   \* it has one in its hands
  counters,  \* _metric_step_counters of the model that is trained
  socket,    \* the newest websocket; read: the rows of its last query
  chart,     \* the rows in the chart's data
  sockets,
  torn       \* history: rows were logged between a socket's two queries

training == <<run, trainings, taken, trainer, counters>>
browser == <<socket, chart, sockets, torn>>
liveMetricsVars == <<metrics, now, training, browser>>

Levels == {"STEP", "EPOCH"}
unset == [current |-> -1, previous |-> -1]
noSocket == [step |-> "none", cursor |-> 0, read |-> {}, closed |-> 0]

LiveMetricsInit ==
  /\ metrics = {} /\ now = 0 /\ run = "delivered"
  /\ trainings = 1 /\ taken = 0 /\ trainer = FALSE
  /\ counters = [l \in Levels |-> unset]
  /\ socket = noSocket /\ chart = {} /\ sockets = 0 /\ torn = FALSE

-----------------------------------------------------------------------------
(* The trainer *)

\* A job whose run is gone fails.
StartTraining ==
  /\ taken < trainings /\ ~trainer
  /\ taken' = taken + 1
  /\ IF run = "none" THEN UNCHANGED <<run, trainer>> ELSE run' = "started" /\ trainer' = TRUE
  /\ counters' = [l \in Levels |-> unset]
  /\ UNCHANGED <<metrics, now, trainings, browser>>

\* A model's first row of a level goes on from the two last ones in the table.
StepsOf(l) == {m.step : m \in {r \in metrics : r.level = l}}
CounterOf(l) ==
  IF counters[l] # unset THEN counters[l]
  ELSE LET last == Max({0} \cup StepsOf(l))
       IN [current |-> last, previous |-> Max({0} \cup (StepsOf(l) \ {last}))]

\* Mutant: an index that repeats the last one is taken.
NextStepRepeats(c, index) ==
  IF index >= c.current THEN index ELSE c.current + Max({1, c.current - c.previous})

\* An index that does not advance (None is 0 here) keeps the last spacing.
NextStep(c, index) ==
  IF index > c.current THEN index ELSE c.current + Max({1, c.current - c.previous})

\* SQLite checks no foreign key: the trainer of a run that is gone goes on.
LogMetric(l, index) ==
  /\ trainer /\ now < MaxRows
  /\ now' = now + 1
  /\ LET step == NextStep(CounterOf(l), index)
     IN /\ counters' = [counters EXCEPT ![l] =
                          [current |-> step, previous |-> CounterOf(l).current]]
        /\ metrics' = metrics \cup {[level |-> l, step |-> step, at |-> now']}
  /\ torn' = (torn \/ socket.step = "read")
  /\ UNCHANGED <<run, trainings, taken, trainer, socket, chart, sockets>>

TrainingStops ==
  /\ trainer
  /\ trainer' = FALSE
  /\ run' \in IF run = "none" THEN {"none"} ELSE {"finished", "error"}
  /\ UNCHANGED <<metrics, now, trainings, taken, counters, browser>>

\* reset_run and the next enqueue (ModelsPage has them in steps).  Nothing
\* asks whether the trainer still works on the run.
TrainAgain ==
  /\ run \notin {"none", "delivered"} /\ trainings < MaxTrainings
  /\ trainings' = trainings + 1
  /\ run' = "delivered" /\ metrics' = {}
  /\ UNCHANGED <<now, taken, trainer, counters, browser>>

DeleteTheRun ==
  /\ run # "none"
  /\ run' = "none" /\ metrics' = {}
  /\ UNCHANGED <<now, trainings, taken, trainer, counters, browser>>

-----------------------------------------------------------------------------
(* The websocket and the chart *)

\* The chart is mounted, or its run changes: what it has stays in it.
OpenSocket ==
  /\ sockets < MaxSockets /\ sockets' = sockets + 1
  /\ socket' = [noSocket EXCEPT !.step = "open"]
  /\ chart' \in {chart, {}}
  /\ UNCHANGED <<metrics, now, training, torn>>

\* The last one in the order of steps.
LastOf(m, rows) ==
  \A n \in rows : n.step < m.step \/ (n.step = m.step /\ n.at <= m.at)

Reads(rows) ==
  \E cursor \in 0..now :
    /\ IF rows = {} THEN cursor = socket.cursor ELSE \E m \in rows : LastOf(m, rows) /\ cursor = m.at
    /\ socket' = [socket EXCEPT !.step = "read", !.read = rows, !.cursor = cursor]

\* Mutant: newer is what has a later step.
QueryMetricsByStep ==
  /\ socket.step = "open"
  /\ Reads({m \in metrics : \A n \in chart : n.at = socket.cursor => m.step > n.step})
  /\ UNCHANGED <<metrics, now, training, chart, sockets, torn>>

\* A cursor of 0 is None.
QueryMetrics ==
  /\ socket.step = "open"
  /\ Reads({m \in metrics : m.at > socket.cursor})
  /\ UNCHANGED <<metrics, now, training, chart, sockets, torn>>

Ended == run \in {"finished", "error"}

\* Mutant: what was read of a run that has ended is not sent.
SendRowsUnlessEnded ==
  /\ socket.step = "read"
  /\ chart' = IF Ended THEN chart ELSE chart \cup socket.read
  /\ socket' = [socket EXCEPT !.step = IF Ended THEN "closed" ELSE "open",
                  !.read = {}, !.closed = IF Ended THEN now ELSE 0]
  /\ UNCHANGED <<metrics, now, training, sockets, torn>>

\* The run is read, the rows are sent, and the socket is closed if the run has
\* ended; one that was deleted never has.
SendRows ==
  /\ socket.step = "read"
  /\ chart' = chart \cup socket.read
  /\ socket' = [socket EXCEPT !.step = IF Ended THEN "closed" ELSE "open",
                  !.read = {}, !.closed = IF Ended THEN now ELSE 0]
  /\ UNCHANGED <<metrics, now, training, sockets, torn>>

-----------------------------------------------------------------------------
LiveMetricsNext ==
  \/ StartTraining \/ TrainingStops \/ TrainAgain \/ DeleteTheRun
  \/ \E l \in Levels, index \in 0..MaxIndex : LogMetric(l, index)
  \/ OpenSocket \/ QueryMetrics \/ SendRows

LiveMetricsSpec == LiveMetricsInit /\ [][LiveMetricsNext]_liveMetricsVars

-----------------------------------------------------------------------------
\* Between its queries the socket has sent every row that is not newer than its
\* cursor: in order of steps none is left behind, whatever the levels count.
CursorCovers ==
  socket.step = "open" => {m \in metrics : m.at <= socket.cursor} \subseteq chart

\* A socket that the server closed has sent all rows the run had then, unless
\* some came between its last two queries.
ClosedHasAll ==
  socket.step = "closed" /\ ~torn => {m \in metrics : m.at <= socket.closed} \subseteq chart

\* Later rows of a level have later steps, though a reset may take the table
\* from under the trainer: the chart shows one value for a step.
OneRowPerStep ==
  \A m, n \in metrics : (m.level = n.level /\ m.at < n.at) => m.step < n.step
=============================================================================
