-------------------------------- MODULE Splits --------------------------------
(***************************************************************************)
(* Which rows of a dataset a run is trained, validated and tested with,    *)
(* and which of them its explainers get (dashai_dataset.py, model_job.py,  *)
(* explainer_job.py).  A row is known by its number in the file, from 0; a *)
(* table is the sequence of its rows; an index is a position in a table,   *)
(* from 0.                                                                 *)
(***************************************************************************)
EXTENDS Integers, Sequences, FiniteSets

CONSTANTS MaxTableRows,   \* bound on the rows of the dataset
          Shares          \* the proportions of a random split are multiples of 1 / Shares

ASSUME SplitsAssumption == MaxTableRows \in Nat /\ Shares \in Nat \ {0}

VARIABLES
  tableRows,       \* how many rows the session's dataset has, 0 with no session
  sessionSplit,    \* model_session.splits
  splitIndexes,    \* run.split_indexes
  modelData,       \* the parts a FINISHED run was trained and tested with, {} if there is none
  explainerData,   \* the parts the last explainer was fitted on and explained, or {}
  instanceData     \* the rows the last local explanation is of, with their scope, or {}

splitsVars == <<tableRows, sessionSplit, splitIndexes, modelData, explainerData, instanceData>>

PartNames == {"train", "test", "validation"}

Table(n) == [k \in 1..n |-> k - 1]

NoLists == [p \in PartNames |-> {}]
NoSplit == [splitType |-> "none", sizes |-> [p \in PartNames |-> 0], shuffle |-> FALSE,
            lists |-> NoLists]

-----------------------------------------------------------------------------
\* The elements of a finite set of numbers, in order.
Ascending(S) ==
  CHOOSE s \in [1..Cardinality(S) -> S] :
    \A i, j \in 1..Cardinality(S) : i < j => s[i] < s[j]

\* A table filtered by the mask of some indexes: its order is kept, indexes that
\* it does not have and repetitions are passed over.
RowsAt(table, indexes) ==
  LET masked == {k \in 1..Len(table) : k - 1 \in indexes}
  IN [i \in 1..Cardinality(masked) |-> table[Ascending(masked)[i]]]

SplitDataset(table, lists) == [p \in PartNames |-> RowsAt(table, lists[p])]

\* The parts in the order of their names, and where each of them then begins.
MergeSplits(parts) == parts["test"] \o parts["train"] \o parts["validation"]

\* Mutant: in the order in which split_dataset names them.
FirstOfAsNamed(parts, p) ==
  CASE p = "train" -> 0
    [] p = "test" -> Len(parts["train"])
    [] p = "validation" -> Len(parts["train"]) + Len(parts["test"])

FirstOf(parts, p) ==
  CASE p = "test" -> 0
    [] p = "train" -> Len(parts["test"])
    [] p = "validation" -> Len(parts["test"]) + Len(parts["train"])

\* select_columns merges the parts, and split_dataset without lists takes them apart
\* again by the positions that were recorded.
GetSplit(parts, p) ==
  SubSeq(MergeSplits(parts), FirstOf(parts, p) + 1, FirstOf(parts, p) + Len(parts[p]))

ModelJobData(table, lists) ==
  LET prepared == SplitDataset(table, lists)
  IN [p \in PartNames |-> GetSplit(prepared, p)]

\* The explainer's job splits, merges (prepare_for_task), and splits the merged table
\* by the lists of the run, which are those of the dataset's own order.
ExplainerJobData(table, lists) ==
  SplitDataset(MergeSplits(SplitDataset(table, lists)), lists)

-----------------------------------------------------------------------------
\* How many of n elements a proportion of a / b takes: the product is one of floats,
\* and where the exact one is a whole number theirs may fall short of it (0.29 * 100).
Taken(a, b, n) == {k \in 0..n : k * b <= a * n /\ a * n <= (k + 1) * b}

\* train_test_split raises if it would take nothing.  Stratifying only restricts
\* which rows are taken.
TrainTestSplit(S, a, b, shuffle) ==
  {T \in SUBSET S :
     /\ T # {} /\ Cardinality(T) \in Taken(a, b, Cardinality(S))
     /\ shuffle \/ \A i \in T, j \in S \ T : i < j}

ForTraining(S, split) ==
  IF split.sizes["train"] = Shares THEN {S}
  ELSE TrainTestSplit(S, split.sizes["train"], Shares, split.shuffle)

ForTesting(S, split) ==
  CASE split.sizes["test"] = 0 -> {{}}
    [] split.sizes["test"] # 0 /\ split.sizes["validation"] = 0 -> {S}
    [] OTHER -> TrainTestSplit(S, split.sizes["test"],
                               split.sizes["test"] + split.sizes["validation"], split.shuffle)

\* prepare_for_model_session: lists given by hand or by the dataset are taken as they are.
PrepareForModelSession(n, split) ==
  IF split.splitType = "random"
  THEN UNION {{[train |-> T, test |-> U, validation |-> ((0..(n - 1)) \ T) \ U] :
                 U \in ForTesting((0..(n - 1)) \ T, split)} :
                 T \in ForTraining(0..(n - 1), split)}
  ELSE {split.lists}

-----------------------------------------------------------------------------
SplitsInit ==
  /\ tableRows = 0 /\ sessionSplit = NoSplit /\ splitIndexes = NoLists
  /\ modelData = {} /\ explainerData = {} /\ instanceData = {}

\* The form: proportions that sum to one, or lists of indexes, typed in (some of them
\* for training) or those that came with the dataset.  An index may be as large as the
\* number of rows, and in several lists.
RandomSplits ==
  {[splitType |-> "random", sizes |-> z, shuffle |-> b, lists |-> NoLists] :
     b \in BOOLEAN,
     z \in {z \in [PartNames -> 0..Shares] :
              z["train"] > 0 /\ z["train"] + z["test"] + z["validation"] = Shares}}

ListSplits(n) ==
  {[NoSplit EXCEPT !.splitType = "lists", !.lists = l] :
     l \in {l \in [PartNames -> SUBSET (0..n)] : l # NoLists}}

ConfigureSession ==
  /\ sessionSplit = NoSplit
  /\ tableRows' \in 1..MaxTableRows
  /\ sessionSplit' \in RandomSplits \cup ListSplits(tableRows')
  /\ UNCHANGED <<splitIndexes, modelData, explainerData, instanceData>>

\* A training, the first or another one: what explained the last was deleted.
TrainModel ==
  /\ sessionSplit # NoSplit
  /\ splitIndexes' \in PrepareForModelSession(tableRows, sessionSplit)
  /\ modelData' = {ModelJobData(Table(tableRows), splitIndexes')}
  /\ explainerData' = {} /\ instanceData' = {}
  /\ UNCHANGED <<tableRows, sessionSplit>>

\* The split raises, or the training does after it was recorded.
TrainingRaises ==
  /\ sessionSplit # NoSplit
  /\ splitIndexes' \in {splitIndexes} \cup PrepareForModelSession(tableRows, sessionSplit)
  /\ modelData' = {} /\ explainerData' = {} /\ instanceData' = {}
  /\ UNCHANGED <<tableRows, sessionSplit>>

ExplainRun ==
  /\ modelData # {}
  /\ explainerData' = {ExplainerJobData(Table(tableRows), splitIndexes)}
  /\ UNCHANGED <<tableRows, sessionSplit, splitIndexes, modelData>>

ExplainGlobally == ExplainRun /\ UNCHANGED instanceData

\* A percentage of the rows in the scope is explained, but at least one if there is one.
Beginnings(rows) == {SubSeq(rows, 1, k) : k \in {k \in 0..Len(rows) : k = 0 => Len(rows) = 0}}

ExplainLocally(scope) ==
  /\ ExplainRun
  /\ \E rows \in Beginnings(IF scope = "all" THEN Table(tableRows)
                            ELSE SplitDataset(Table(tableRows), splitIndexes)[scope]) :
       instanceData' = {[scope |-> scope, rows |-> rows]}

SplitsNext ==
  \/ ConfigureSession \/ TrainModel \/ TrainingRaises \/ ExplainGlobally
  \/ \E scope \in PartNames \cup {"all"} : ExplainLocally(scope)

SplitsSpec == SplitsInit /\ [][SplitsNext]_splitsVars

-----------------------------------------------------------------------------
\* Splits, lists and parts have the shape they should have.
SplitsTypeOK ==
  /\ tableRows \in 0..MaxTableRows
  /\ sessionSplit \in [splitType : {"none", "random", "lists"}, sizes : [PartNames -> 0..Shares],
                       shuffle : BOOLEAN, lists : [PartNames -> SUBSET (0..tableRows)]]
  /\ splitIndexes \in [PartNames -> SUBSET (0..tableRows)]
  /\ modelData \cup explainerData \subseteq [PartNames -> Seq(0..tableRows)]
  /\ Cardinality(modelData) <= 1 /\ Cardinality(explainerData) <= 1

\* The parts a run gets are the dataset's rows at the indexes it recorded, although
\* they were merged and taken apart in between.
TrainedAsRecorded ==
  \A data \in modelData : data = SplitDataset(Table(tableRows), splitIndexes)

\* A random split gives every row of the dataset to one part only: nothing that a model
\* is tested with was it trained with.
Has(part, row) == \E i \in 1..Len(part) : part[i] = row
EachRowOnce ==
  sessionSplit.splitType = "random" =>
    \A data \in modelData : \A row \in 0..(tableRows - 1) :
      \E p \in PartNames : \A q \in PartNames : Has(data[q], row) = (q = p)

\* What a local explanation is of is the beginning of the part the run had by that name.
InstanceOfPart ==
  \A data \in modelData, x \in instanceData : x.scope # "all" =>
    x.rows = SubSeq(data[x.scope], 1, Len(x.rows))

SplitIsKept == TrainedAsRecorded /\ EachRowOnce /\ InstanceOfPart

\* Of a random split, explainers are fitted on the rows the run was trained with and
\* explain those it was tested with.
ExplainersSeeTheSplit ==
  sessionSplit.splitType = "random" =>
    \A data \in modelData, x \in explainerData :
      x["train"] = data["train"] /\ x["test"] = data["test"]
=============================================================================
