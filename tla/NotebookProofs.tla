---------------------------- MODULE NotebookProofs ----------------------------
(***************************************************************************)
(* Proofs about Notebook, for any number of rows: its types, that no row   *)
(* is left in progress with nobody to work on it, and what the notebook's  *)
(* file and its explorers' results hold; and about NotebookPage: its       *)
(* types, and that the boxes are the rows.                                 *)
(***************************************************************************)
EXTENDS Notebook, NotebookPage, DataFacts

Row(n) == [made : 0..n, status : Processing \cup Final \cup {"absent"}, sound : BOOLEAN,
           result : Seq(1..n)]

\* A key is not larger than the number of rows made so far.
RowsTyped ==
  /\ made \in 0..MaxMade /\ exists \in BOOLEAN /\ met \in BOOLEAN /\ broken \in 0..MaxBroken
  /\ rows \in [Items -> Row(made)]
  /\ \A x \in Items : There(x) => rows[x].made # 0 /\ rows[x].status # "absent" /\ x.id <= made

DiskTyped == file \in {"whole", "torn", "gone"} /\ applied \in Seq(1..made)

Jobs == [item : Items, post : BOOLEAN]

WorkTyped ==
  /\ jobs \in Seq(Jobs)
  /\ work \in [item : Items, step : {"idle", "started", "loaded", "saved"}, post : BOOLEAN,
               made : 0..made, seen : Seq(1..made)]
  /\ work.step = "idle" => work = idle
  /\ work.step # "idle" => work.made # 0

HandlerTyped ==
  /\ posted \subseteq Items
  /\ api \in {"idle", "restoring", "putting"}
  /\ erase \in [again : SUBSET Items, gone : SUBSET Items]

RowsAllTyped == RowsTyped /\ DiskTyped /\ WorkTyped /\ HandlerTyped

\* A notebook that is gone has no rows; the file of one that is there is whole,
\* unless a deletion is restoring it, which then finds nothing else under way.
RowsKept ==
  /\ exists \/ \A x \in Items : ~There(x)
  /\ Careful /\ exists => file = "whole" \/ api = "restoring"
  /\ Careful /\ api = "restoring" => file = "torn" /\ ~Overlap

JobQueued(x) == \E i \in DOMAIN jobs : jobs[i].item = x
OnItsWay(x) == x \in posted \/ (work # idle /\ work.item = x) \/ JobQueued(x)
NobodyLeft == \A x \in Items : rows[x].status \in Processing => OnItsWay(x)

NotebookInv == RowsAllTyped /\ RowsKept /\ ProcessingHasJob

USE NotebookAssumption, NotebookPageAssumption

-----------------------------------------------------------------------------
\* The next key of a table is at most one more than the number of rows made.
LEMMA NextIdBound ==
  ASSUME RowsTyped, NEW kind \in Kinds
  PROVE  NextId(kind) \in 1..(made + 1)
<1> DEFINE S == {0} \cup {x.id : x \in {y \in Items : There(y) /\ y.kind = kind}}
<1>1. made \in Nat /\ S \in SUBSET (0..made) /\ S # {}
  BY DEF RowsTyped, Items
<1>2. Max(S) \in S
  <2> HIDE DEF S
  <2> QED
    BY <1>1, MaxIsMax
<1>3. NextId(kind) = 1 + Max(S)
  BY DEF NextId
<1>4. Max(S) \in 0..made
  BY <1>1, <1>2
<1> HIDE DEF S
<1> QED
  BY <1>1, <1>3, <1>4

\* Another row takes nothing from the types.
LEMMA RowGrows == \A n \in Nat : Row(n) \subseteq Row(n + 1) /\ Seq(1..n) \subseteq Seq(1..(n + 1))
  BY DEF Row

\* In the initial state there are no rows, and the file is whole.
LEMMA TypedInit == NotebookInit => RowsAllTyped
<1> SUFFICES ASSUME NotebookInit  PROVE RowsAllTyped
  OBVIOUS
<1>1. NoRow \in Row(0)
  BY DEF NoRow, Row
<1>2. RowsTyped
  <2>1. rows \in [Items -> Row(made)] /\ \A x \in Items : ~There(x)
    BY <1>1 DEF NotebookInit, There
  <2>2. made \in 0..MaxMade /\ broken \in 0..MaxBroken
    BY DEF NotebookInit
  <2>3. exists \in BOOLEAN /\ met \in BOOLEAN
    BY DEF NotebookInit
  <2> QED
    BY <2>1, <2>2, <2>3 DEF RowsTyped
<1>3. [kind |-> "converter", id |-> 1] \in Items
  BY DEF Items, Kinds
<1>4. WorkTyped
  BY <1>3 DEF NotebookInit, WorkTyped, idle
<1>5. DiskTyped /\ HandlerTyped
  BY DEF NotebookInit, DiskTyped, HandlerTyped, nothing
<1> QED
  BY <1>2, <1>4, <1>5 DEF RowsAllTyped

\* POST makes a row, of the next key and the next number.
LEMMA TypedPost ==
  ASSUME RowsAllTyped, NEW kind \in Kinds, NEW sound \in BOOLEAN, Post(kind, sound)
  PROVE  RowsAllTyped'
<1> DEFINE x == [kind |-> kind, id |-> NextId(kind)]
<1> DEFINE row == [made |-> made', status |-> "not_started", sound |-> sound, result |-> <<>>]
<1>1. x \in Items /\ x.id <= made'
  BY NextIdBound DEF RowsAllTyped, RowsTyped, Post, Items
<1>2. /\ made' = made + 1 /\ made' \in 1..MaxMade
      /\ rows' = [rows EXCEPT ![x] = row] /\ posted' = posted \cup {x}
      /\ UNCHANGED <<exists, disk, queue, handler, met, broken>>
  BY DEF Post, RowsAllTyped, RowsTyped
<1>3. row \in Row(made') /\ row.made # 0 /\ row.status # "absent"
  BY <1>2 DEF Row, Processing
<1>4. RowsTyped'
  <2> HIDE DEF x, row
  <2>1. rows' \in [Items -> Row(made')]
    BY <1>1, <1>2, <1>3, RowGrows DEF RowsAllTyped, RowsTyped
  <2>2. \A y \in Items : rows'[y] = IF y = x THEN row ELSE rows[y]
    BY <1>1, <1>2 DEF RowsAllTyped, RowsTyped
  <2>3. \A y \in Items : There(y)' =>
          rows'[y].made # 0 /\ rows'[y].status # "absent" /\ y.id <= made'
    <3> SUFFICES ASSUME NEW y \in Items, There(y)'
                 PROVE  rows'[y].made # 0 /\ rows'[y].status # "absent" /\ y.id <= made'
      OBVIOUS
    <3>1. CASE y = x
      BY <3>1, <2>2, <1>1, <1>3
    <3>2. CASE y # x
      <4>1. There(y) /\ rows'[y] = rows[y]
        BY <3>2, <2>2 DEF There
      <4>2. y.id <= made /\ y.id \in Int
        BY <4>1 DEF RowsAllTyped, RowsTyped, Items
      <4> QED
        BY <4>1, <4>2, <1>2 DEF RowsAllTyped, RowsTyped
    <3> QED
      BY <3>1, <3>2
  <2> QED
    BY <2>1, <2>3, <1>2 DEF RowsAllTyped, RowsTyped
<1>5. DiskTyped'
  BY <1>2, RowGrows DEF RowsAllTyped, RowsTyped, DiskTyped, disk
<1>6. WorkTyped'
  BY <1>2, RowGrows DEF RowsAllTyped, RowsTyped, WorkTyped, queue
<1>7. HandlerTyped'
  BY <1>1, <1>2 DEF RowsAllTyped, HandlerTyped, handler
<1> QED
  BY <1>4, <1>5, <1>6, <1>7 DEF RowsAllTyped

\* A step that makes no row.
LEMMA RowsStay ==
  ASSUME RowsTyped, made' = made, exists' \in BOOLEAN, met' \in BOOLEAN,
         broken' \in 0..MaxBroken, rows' \in [Items -> Row(made)],
         \A y \in Items : There(y)' =>
           There(y) /\ rows'[y].made = rows[y].made /\ rows'[y].status # "absent"
  PROVE  RowsTyped'
  BY DEF RowsTyped

\* A row is written; its status is one that a job has.
LEMMA RowWritten ==
  ASSUME RowsTyped, NEW x \in Items, There(x), NEW row \in Row(made),
         row.made = rows[x].made, row.status \in Processing \cup Final,
         rows' = [rows EXCEPT ![x] = row],
         UNCHANGED <<made, exists, broken>>, met' \in BOOLEAN
  PROVE  /\ RowsTyped' /\ rows'[x] = row
         /\ \A y \in Items : (y # x => rows'[y] = rows[y]) /\ (There(y)' => There(y))
<1>1. rows' \in [Items -> Row(made)]
  BY DEF RowsTyped
<1>2. \A y \in Items : rows'[y] = IF y = x THEN row ELSE rows[y]
  BY DEF RowsTyped
<1>3. row.status # "absent"
  BY DEF Processing, Final
<1>4. \A y \in Items : There(y)' =>
        There(y) /\ rows'[y].made = rows[y].made /\ rows'[y].status # "absent"
  BY <1>2, <1>3 DEF RowsTyped, There
<1>5. exists' \in BOOLEAN /\ broken' \in 0..MaxBroken /\ made' = made
  BY DEF RowsTyped
<1> QED
  BY <1>1, <1>2, <1>4, <1>5, RowsStay

\* The status of a row is written.
LEMMA RowStatusWritten ==
  ASSUME RowsTyped, NEW x \in Items, There(x), NEW status \in Processing \cup Final,
         rows' = [rows EXCEPT ![x].status = status],
         UNCHANGED <<made, exists, broken>>, met' \in BOOLEAN
  PROVE  /\ RowsTyped' /\ rows'[x].status = status
         /\ \A y \in Items : (y # x => rows'[y] = rows[y]) /\ (There(y)' => There(y))
<1> DEFINE row == [made |-> rows[x].made, status |-> status, sound |-> rows[x].sound,
                   result |-> rows[x].result]
<1>1. rows \in [Items -> Row(made)]
  BY DEF RowsTyped
<1>2. row \in Row(made) /\ [rows[x] EXCEPT !.status = status] = row
  BY <1>1 DEF Row
<1>3. rows' = [rows EXCEPT ![x] = row]
  BY <1>1, <1>2
<1>4. row.made = rows[x].made /\ row.status = status
  OBVIOUS
<1> HIDE DEF row
<1> QED
  BY <1>2, <1>3, <1>4, RowWritten

\* Rows go.
LEMMA RowsGo ==
  ASSUME RowsTyped, rows' \in [Items -> Row(made) \cup {NoRow}],
         \A y \in Items : rows'[y] = NoRow \/ rows'[y] = rows[y],
         made' = made, exists' \in BOOLEAN, met' \in BOOLEAN, broken' \in 0..MaxBroken
  PROVE  RowsTyped' /\ \A y \in Items : There(y)' => There(y)
<1>1. NoRow \in Row(made)
  BY DEF NoRow, Row, RowsTyped
<1>2. rows' \in [Items -> Row(made)]
  BY <1>1
<1>3. \A y \in Items : There(y)' => rows'[y] = rows[y] /\ There(y)
  BY DEF There
<1>4. \A y \in Items : There(y)' =>
        There(y) /\ rows'[y].made = rows[y].made /\ rows'[y].status # "absent"
  BY <1>3 DEF RowsTyped
<1> QED
  BY <1>2, <1>3, <1>4, RowsStay

\* The consumer at rest is a value of its type.
LEMMA IdleTyped ==
  ASSUME made' = made, RowsTyped
  PROVE  /\ idle \in [item : Items, step : {"idle", "started", "loaded", "saved"}, post : BOOLEAN,
                      made : 0..made, seen : Seq(1..made)]
         /\ idle.step = "idle"
  BY DEF idle, Items, Kinds, RowsTyped

\* What JobEnds changes: the row and the hands of the consumer.
LEMMA TypedJobEnds ==
  ASSUME RowsAllTyped, JobEnds
  PROVE  /\ RowsAllTyped' /\ work' = idle
         /\ UNCHANGED <<made, exists, disk, jobs, posted, handler, met, broken>>
         /\ There(work.item) => rows'[work.item].status = "finished"
         /\ \A y \in Items : (y # work.item => rows'[y] = rows[y]) /\ (There(y)' => There(y))
<1> DEFINE x == work.item
<1>1. UNCHANGED <<made, exists, disk, jobs, posted, handler, met, broken>> /\ work' = idle
  BY DEF JobEnds
<1>2. x \in Items /\ work.seen \in Seq(1..made)
  BY DEF RowsAllTyped, WorkTyped
<1>3. CASE There(x)
  <2> DEFINE result == IF work.step = "loaded" THEN work.seen ELSE rows[x].result
  <2> DEFINE row == [made |-> rows[x].made, status |-> "finished", sound |-> rows[x].sound,
                     result |-> result]
  <2> DEFINE marked == [rows EXCEPT ![x].status = "finished"]
  <2>1. rows \in [Items -> Row(made)]
    BY DEF RowsAllTyped, RowsTyped
  <2>2. rows' = [marked EXCEPT ![x].result = IF work.step = "loaded" THEN work.seen ELSE @]
    BY <1>3 DEF JobEnds
  <2>3. marked[x] = [made |-> rows[x].made, status |-> "finished", sound |-> rows[x].sound,
                     result |-> rows[x].result]
    BY <1>2, <2>1 DEF Row
  <2>4. row \in Row(made)
    BY <1>2, <2>1 DEF Row, Final
  <2>5. rows' = [rows EXCEPT ![x] = row]
    <3>1. marked \in [Items -> Row(made)] \/ DOMAIN marked = Items
      BY <2>1
    <3>2. rows' = [marked EXCEPT ![x] = [marked[x] EXCEPT !.result = result]]
      BY <1>2, <2>1, <2>2, <2>3
    <3>3. [marked[x] EXCEPT !.result = result] = row
      BY <2>3
    <3>4. \A row1 : [marked EXCEPT ![x] = row1] = [rows EXCEPT ![x] = row1]
      BY <2>1
    <3> HIDE DEF row, marked
    <3> QED
      BY <3>2, <3>3, <3>4
  <2>6. row.made = rows[x].made /\ row.status = "finished"
    OBVIOUS
  <2>7. RowsTyped /\ met' \in BOOLEAN
    BY <1>1 DEF RowsAllTyped, RowsTyped
  <2>8. /\ RowsTyped' /\ rows'[x] = row
        /\ \A y \in Items : (y # x => rows'[y] = rows[y]) /\ (There(y)' => There(y))
    <3> HIDE DEF row, x
    <3> QED
      BY <1>1, <1>2, <1>3, <2>4, <2>5, <2>6, <2>7, RowWritten DEF Final
  <2> QED
    BY <1>1, <2>6, <2>8, IdleTyped DEF RowsAllTyped, DiskTyped, WorkTyped, HandlerTyped, disk, handler
<1>4. CASE ~There(x)
  <2>1. rows' = rows
    BY <1>4 DEF JobEnds
  <2> QED
    BY <1>1, <1>4, <2>1, IdleTyped
       DEF RowsAllTyped, RowsTyped, There, DiskTyped, WorkTyped, HandlerTyped, disk, handler
<1> QED
  BY <1>3, <1>4

-----------------------------------------------------------------------------
\* Every step keeps the types.
LEMMA TypedStep == RowsAllTyped /\ [NotebookNext]_notebookVars => RowsAllTyped'
<1> SUFFICES ASSUME RowsAllTyped, [NotebookNext]_notebookVars  PROVE RowsAllTyped'
  OBVIOUS
<1> USE DEF RowsAllTyped
<1>1. ASSUME NEW kind \in Kinds, NEW sound \in BOOLEAN, Post(kind, sound)  PROVE RowsAllTyped'
  BY <1>1, TypedPost
<1>2. ASSUME NEW x \in Items, Enqueue(x)  PROVE RowsAllTyped'
  <2>1. met' \in BOOLEAN /\ UNCHANGED <<made, exists, disk, work, handler, broken>>
    BY <1>2 DEF Enqueue
  <2>2. CASE There(x)
    <3>1. rows' = [rows EXCEPT ![x].status = "delivered"]
      BY <1>2, <2>2 DEF Enqueue
    <3>2. RowsTyped'
      BY <2>1, <2>2, <3>1, RowStatusWritten DEF Processing
    <3>3. jobs' \in Seq(Jobs)
      <4>1. jobs' = Append(jobs, [item |-> x, post |-> TRUE])
        BY <1>2, <2>2 DEF Enqueue
      <4>2. [item |-> x, post |-> TRUE] \in Jobs
        BY DEF Jobs
      <4> QED
        BY <4>1, <4>2 DEF WorkTyped
    <3> QED
      BY <1>2, <2>1, <3>2, <3>3 DEF Enqueue, DiskTyped, WorkTyped, HandlerTyped, disk, handler
  <2>3. CASE ~There(x)
    <3>1. UNCHANGED <<rows, jobs>>
      BY <1>2, <2>3 DEF Enqueue
    <3> QED
      BY <1>2, <2>1, <3>1 DEF Enqueue, RowsTyped, There, DiskTyped, WorkTyped, HandlerTyped, disk,
         handler
  <2> QED
    BY <2>2, <2>3
<1>3. ASSUME NEW x \in Items, NeverEnqueued(x)  PROVE RowsAllTyped'
  <2>1. broken' \in 0..MaxBroken
    BY <1>3 DEF NeverEnqueued, Break, RowsTyped
  <2> QED
    BY <1>3, <2>1 DEF NeverEnqueued, RowsTyped, There, DiskTyped, WorkTyped, HandlerTyped,
       table, disk, queue, handler
<1>4. ASSUME NEW x \in Items, DeleteBegins(x)  PROVE RowsAllTyped'
  <2>1. erase' \in [again : SUBSET Items, gone : SUBSET Items]
    BY <1>4 DEF DeleteBegins, CreatedBefore, CreatedSince, Converters
  <2> QED
    BY <1>4, <2>1 DEF DeleteBegins, RowsTyped, There, DiskTyped, WorkTyped, HandlerTyped,
       table, disk, queue
<1>5. ASSUME NEW x \in Items, DeleteExplorer(x)  PROVE RowsAllTyped'
  <2>1. RowsTyped'
    BY <1>5, RowsGo DEF DeleteExplorer, RowsTyped
  <2> QED
    BY <1>5, <2>1 DEF DeleteExplorer, DiskTyped, WorkTyped, HandlerTyped, disk, queue, handler
<1>6. CASE DeleteNotebook
  <2>1. RowsTyped'
    BY <1>6, RowsGo DEF DeleteNotebook, RowsTyped
  <2> QED
    BY <1>6, <2>1 DEF DeleteNotebook, DiskTyped, WorkTyped, HandlerTyped, queue, handler
<1>7. CASE DeleteFails
  <2>1. broken' \in 0..MaxBroken
    BY <1>7 DEF DeleteFails, Break, RowsTyped
  <2> QED
    BY <1>7, <2>1 DEF DeleteFails, RowsTyped, There, DiskTyped, WorkTyped, HandlerTyped,
       table, disk, queue, nothing
<1>8. CASE RestoreEnds
  <2>1. /\ UNCHANGED <<table, queue, posted, erase, met, broken>> /\ api' = "putting"
        /\ file' \in {"whole", "torn"} /\ applied' \in {applied, <<>>}
    BY <1>8 DEF RestoreEnds
  <2>2. DiskTyped'
    <3>1. made' = made /\ <<>> \in Seq(1..made)
      BY <2>1 DEF table
    <3> QED
      BY <2>1, <3>1 DEF DiskTyped
  <2> QED
    BY <2>1, <2>2 DEF RowsTyped, There, WorkTyped, HandlerTyped, table, queue
<1>9. CASE PutAgain
  <2>1. PICK x \in erase.again : /\ jobs' = Append(jobs, [item |-> x, post |-> FALSE])
                                 /\ erase' = [erase EXCEPT !.again = @ \ {x}]
    BY <1>9 DEF PutAgain
  <2>2. jobs' \in Seq(Jobs)
    <3>1. [item |-> x, post |-> FALSE] \in Jobs
      BY DEF Jobs, HandlerTyped
    <3> QED
      BY <2>1, <3>1 DEF WorkTyped
  <2>3. erase' \in [again : SUBSET Items, gone : SUBSET Items]
    BY <2>1 DEF HandlerTyped
  <2> QED
    BY <1>9, <2>2, <2>3 DEF PutAgain, RowsTyped, There, DiskTyped, WorkTyped, HandlerTyped,
       table, disk
<1>10. CASE DeleteCommits
  <2>1. RowsTyped'
    BY <1>10, RowsGo DEF DeleteCommits, RowsTyped
  <2> QED
    BY <1>10, <2>1 DEF DeleteCommits, DiskTyped, WorkTyped, HandlerTyped, disk, queue, nothing
<1>11. CASE TakeJob
  <2> DEFINE x == Head(jobs).item
  <2>1. /\ jobs' \in Seq(Jobs)
        /\ x \in Items /\ Head(jobs).post \in BOOLEAN
    <3>1. jobs \in Seq(Jobs) /\ jobs # <<>> /\ jobs' = Tail(jobs)
      BY <1>11 DEF TakeJob, WorkTyped
    <3>2. Head(jobs) \in Jobs /\ jobs' \in Seq(Jobs)
      BY <3>1
    <3> QED
      BY <3>2 DEF Jobs
  <2>2. UNCHANGED <<made, exists, disk, posted, handler, met, broken>>
    BY <1>11 DEF TakeJob
  <2>3. CASE There(x)
    <3>1. rows' = [rows EXCEPT ![x].status = "started"]
      BY <1>11, <2>3 DEF TakeJob
    <3>2. RowsTyped'
      <4> HIDE DEF x
      <4> QED
        BY <2>1, <2>2, <2>3, <3>1, RowStatusWritten DEF Processing, RowsTyped
    <3>3. work' = [item |-> x, step |-> "started", post |-> Head(jobs).post,
                   made |-> rows[x].made, seen |-> <<>>]
      BY <1>11, <2>3 DEF TakeJob
    <3>4. rows[x].made \in 0..made /\ rows[x].made # 0
      BY <2>1, <2>3 DEF RowsTyped, Row
    <3> HIDE DEF x
    <3> QED
      BY <2>1, <2>2, <3>2, <3>3, <3>4 DEF DiskTyped, WorkTyped, HandlerTyped, disk, handler
  <2>4. CASE ~There(x)
    <3>1. UNCHANGED <<rows, work>>
      BY <1>11, <2>4 DEF TakeJob
    <3> QED
      BY <2>1, <2>2, <3>1 DEF RowsTyped, There, DiskTyped, WorkTyped, HandlerTyped, disk, handler
  <2> QED
    BY <2>3, <2>4
<1>12. CASE LoadFile
  <2>1. PICK seen \in {applied, <<>>} : work' = [work EXCEPT !.step = "loaded", !.seen = seen]
    BY <1>12 DEF LoadFile
  <2>2. seen \in Seq(1..made) /\ work.made # 0
    <3>1. work.step # "idle"
      BY <1>12 DEF LoadFile
    <3>2. <<>> \in Seq(1..made)
      OBVIOUS
    <3> QED
      BY <2>1, <3>1, <3>2 DEF DiskTyped, WorkTyped
  <2>3. work' = [item |-> work.item, step |-> "loaded", post |-> work.post, made |-> work.made,
                 seen |-> seen]
    BY <2>1 DEF WorkTyped
  <2> QED
    BY <1>12, <2>2, <2>3 DEF LoadFile, RowsTyped, There, DiskTyped, WorkTyped, HandlerTyped,
       table, disk, handler
<1>13. CASE LoadFails
  <2>1. UNCHANGED <<made, exists, disk, jobs, posted, handler, met, broken>> /\ work' = idle
    BY <1>13 DEF LoadFails
  <2>2. RowsTyped'
    <3>1. CASE There(work.item) /\ work.item.kind = "explorer"
      <4>1. rows' = [rows EXCEPT ![work.item].status = "failed"] /\ work.item \in Items
        BY <1>13, <3>1 DEF LoadFails, WorkTyped
      <4> QED
        BY <2>1, <3>1, <4>1, RowStatusWritten DEF Final, RowsTyped
    <3>2. CASE ~(There(work.item) /\ work.item.kind = "explorer")
      BY <1>13, <2>1, <3>2 DEF LoadFails, RowsTyped, There
    <3> QED
      BY <3>1, <3>2
  <2> QED
    BY <2>1, <2>2, IdleTyped DEF DiskTyped, WorkTyped, HandlerTyped, disk, handler
<1>14. CASE JobFails
  <2>1. /\ UNCHANGED <<made, exists, disk, jobs, posted, handler, met, broken>> /\ work' = idle
        /\ rows' = [rows EXCEPT ![work.item].status = "failed"]
        /\ work.item \in Items /\ There(work.item)
    BY <1>14 DEF JobFails, Unsound, WorkTyped
  <2>2. RowsTyped'
    BY <2>1, RowStatusWritten DEF Final, RowsTyped
  <2> QED
    BY <2>1, <2>2, IdleTyped DEF DiskTyped, WorkTyped, HandlerTyped, disk, handler
<1>15. CASE ConvertSaves
  <2>1. work' = [work EXCEPT !.step = "saved"] /\ work.step # "idle"
    BY <1>15 DEF ConvertSaves
  <2>2. applied' \in Seq(1..made)
    BY <1>15, <2>1 DEF ConvertSaves, WorkTyped
  <2>3. WorkTyped'
    BY <1>15, <2>1 DEF ConvertSaves, WorkTyped, table
  <2> QED
    BY <1>15, <2>2, <2>3 DEF ConvertSaves, RowsTyped, There, DiskTyped, HandlerTyped, table, handler
<1>16. CASE JobEnds
  BY <1>16, TypedJobEnds
<1>17. CASE UNCHANGED notebookVars
  BY <1>17 DEF RowsTyped, There, DiskTyped, WorkTyped, HandlerTyped, notebookVars, table, disk,
     queue, handler
<1> QED
  BY <1>1, <1>2, <1>3, <1>4, <1>5, <1>6, <1>7, <1>8, <1>9, <1>10, <1>11, <1>12, <1>13, <1>14,
     <1>15, <1>16, <1>17 DEF NotebookNext, Handler, Consumer

-----------------------------------------------------------------------------
\* A user who has been careful up to now was so before.
LEMMA CarefulBefore ==
  ASSUME RowsAllTyped, [NotebookNext]_notebookVars, Careful'
  PROVE  Careful
<1>1. broken \in Nat
  BY DEF RowsAllTyped, RowsTyped
<1>2. broken' = broken \/ broken' = broken + 1
  BY DEF NotebookNext, notebookVars, Handler, Consumer, Post, Enqueue,
     NeverEnqueued, DeleteBegins, DeleteExplorer, DeleteNotebook, DeleteFails, RestoreEnds, PutAgain,
     DeleteCommits, TakeJob, LoadFile, LoadFails, JobFails, ConvertSaves, JobEnds, Break
<1>3. broken' = 0 => broken = 0
  BY <1>1, <1>2
<1>4. met => met'
  BY DEF NotebookNext, notebookVars, Handler, Consumer, Post, Enqueue,
     NeverEnqueued, DeleteBegins, DeleteExplorer, DeleteNotebook, DeleteFails, RestoreEnds, PutAgain,
     DeleteCommits, TakeJob, LoadFile, LoadFails, JobFails, ConvertSaves, JobEnds, Break
<1> QED
  BY <1>3, <1>4 DEF Careful

\* Only while the notebook exists does a row appear.
LEMMA NoNewRows ==
  ASSUME RowsAllTyped, [NotebookNext]_notebookVars, ~exists, \A x \in Items : ~There(x)
  PROVE  ~exists' /\ \A x \in Items : ~There(x)'
<1> DEFINE Gone == ~exists' /\ \A x \in Items : ~There(x)'
<1>0. work.item \in Items
  BY DEF RowsAllTyped, WorkTyped
<1>1. ASSUME NEW x \in Items, Enqueue(x) \/ NeverEnqueued(x)  PROVE Gone
  BY <1>1 DEF Enqueue, NeverEnqueued, There, table
<1>2. ASSUME NEW x \in Items, DeleteExplorer(x)  PROVE Gone
  BY <1>2 DEF DeleteExplorer, HasButton
<1>3. ASSUME NEW x \in Items, DeleteBegins(x)  PROVE Gone
  BY <1>3 DEF DeleteBegins, HasButton
<1>4. CASE Handler \/ DeleteFails
  BY <1>4 DEF Handler, DeleteFails, RestoreEnds, PutAgain, DeleteCommits, There, table
<1>5. CASE TakeJob
  <2>1. Head(jobs).item \in Items
    <3>1. jobs \in Seq(Jobs) /\ jobs # <<>>
      BY <1>5 DEF TakeJob, RowsAllTyped, WorkTyped
    <3>2. Head(jobs) \in Jobs
      BY <3>1
    <3> QED
      BY <3>2 DEF Jobs
  <2> QED
    BY <1>5, <2>1 DEF TakeJob, There
<1>6. CASE LoadFile \/ LoadFails \/ JobFails \/ ConvertSaves \/ JobEnds
  <2>1. ~There(work.item)
    BY <1>0
  <2>2. rows' = rows /\ exists' = exists
    BY <1>6, <2>1 DEF LoadFile, LoadFails, JobFails, ConvertSaves, JobEnds, Unsound, table
  <2> QED
    BY <2>2 DEF There
<1>7. CASE UNCHANGED notebookVars
  BY <1>7 DEF notebookVars, table, There
<1>8. CASE DeleteNotebook \/ \E kind \in Kinds, sound \in BOOLEAN : Post(kind, sound)
  BY <1>8 DEF DeleteNotebook, Post
<1>9. Gone
  BY <1>1, <1>2, <1>3, <1>4, <1>5, <1>6, <1>7, <1>8 DEF NotebookNext, Consumer
<1> QED
  BY <1>9 DEF Gone

\* The deletion of the notebook takes all rows with it.
LEMMA RowsGoWithNotebook ==
  ASSUME RowsAllTyped, [NotebookNext]_notebookVars, exists, ~exists'
  PROVE  \A x \in Items : ~There(x)'
<1>1. DeleteNotebook
  BY DEF NotebookNext, notebookVars, Handler, Consumer, Post, Enqueue, NeverEnqueued,
     DeleteBegins, DeleteExplorer, DeleteFails, RestoreEnds, PutAgain, DeleteCommits, TakeJob,
     LoadFile, LoadFails, JobFails, ConvertSaves, JobEnds, table
<1> QED
  BY <1>1 DEF DeleteNotebook, There

\* Every step keeps the rows within the notebook and its file whole.
LEMMA KeptStep == RowsAllTyped /\ RowsKept /\ [NotebookNext]_notebookVars => RowsKept'
<1> SUFFICES ASSUME RowsAllTyped, RowsKept, [NotebookNext]_notebookVars  PROVE RowsKept'
  OBVIOUS
<1>1. exists' \/ \A x \in Items : ~There(x)'
  <2>1. CASE exists
    BY <2>1, RowsGoWithNotebook
  <2>2. CASE ~exists
    BY <2>2, NoNewRows DEF RowsKept
  <2> QED
    BY <2>1, <2>2
<1>2. ASSUME Careful'
      PROVE  /\ exists' => file' = "whole" \/ api' = "restoring"
             /\ api' = "restoring" => file' = "torn" /\ ~Overlap'
  <2> DEFINE Good == /\ exists' => file' = "whole" \/ api' = "restoring"
                     /\ api' = "restoring" => file' = "torn" /\ ~Overlap'
  <2>1. Careful
    BY <1>2, CarefulBefore
  <2>2. /\ exists => file = "whole" \/ api = "restoring"
        /\ api = "restoring" => file = "torn" /\ jobs = <<>> /\ work = idle /\ posted = {}
    BY <2>1 DEF RowsKept, Overlap
  <2>3. work = idle => work.step = "idle"
    BY DEF idle
  <2>4. ASSUME NEW kind \in Kinds, NEW sound \in BOOLEAN, Post(kind, sound)  PROVE Good
    BY <2>2, <2>4 DEF Post, disk, handler
  <2>5. ASSUME NEW x \in Items, Enqueue(x) \/ NeverEnqueued(x) \/ DeleteExplorer(x)  PROVE Good
    BY <2>2, <2>5 DEF Enqueue, NeverEnqueued, DeleteExplorer, disk, handler, table, queue, Overlap
  <2>6. ASSUME NEW x \in Items, DeleteBegins(x)  PROVE Good
    BY <1>2, <2>6 DEF DeleteBegins, Careful, Overlap, queue
  <2>7. CASE DeleteNotebook \/ DeleteFails \/ PutAgain \/ DeleteCommits
    BY <2>2, <2>7 DEF DeleteNotebook, DeleteFails, PutAgain, DeleteCommits, table, disk, handler
  <2>8. CASE RestoreEnds
    BY <2>2, <2>8 DEF RestoreEnds
  <2>9. CASE TakeJob \/ LoadFile \/ LoadFails \/ JobFails
    <3>1. UNCHANGED <<exists, file, api>> /\ (jobs # <<>> \/ work.step # "idle")
      BY <2>9 DEF TakeJob, LoadFile, LoadFails, JobFails, table, disk, handler
    <3> QED
      BY <2>2, <2>3, <3>1
  <2>10. CASE ConvertSaves \/ JobEnds
    BY <2>2, <2>3, <2>10 DEF ConvertSaves, JobEnds, table, disk, handler
  <2>11. CASE UNCHANGED notebookVars
    BY <2>2, <2>11 DEF notebookVars, table, disk, handler, queue, Overlap
  <2>12. Good
    BY <2>4, <2>5, <2>6, <2>7, <2>8, <2>9, <2>10, <2>11 DEF NotebookNext, Handler, Consumer
  <2> QED
    BY <2>12 DEF Good
<1> QED
  BY <1>1, <1>2 DEF RowsKept

-----------------------------------------------------------------------------
\* What waits goes on to wait when a job is appended.
LEMMA WaitsLonger ==
  ASSUME jobs \in Seq(Jobs), NEW j \in Jobs, jobs' = Append(jobs, j)
  PROVE  JobQueued(j.item)' /\ \A x \in Items : JobQueued(x) => JobQueued(x)'
<1>1. /\ DOMAIN jobs = 1..Len(jobs) /\ DOMAIN jobs' = 1..(Len(jobs) + 1) /\ Len(jobs) \in Nat
      /\ jobs'[Len(jobs) + 1] = j /\ \A i \in 1..Len(jobs) : jobs'[i] = jobs[i]
  OBVIOUS
<1> QED
  BY <1>1 DEF JobQueued

\* What waits goes on to wait when another job is taken.
LEMMA WaitsOrIsTaken ==
  ASSUME jobs \in Seq(Jobs), jobs # <<>>, jobs' = Tail(jobs)
  PROVE  \A x \in Items : JobQueued(x) => x = Head(jobs).item \/ JobQueued(x)'
<1> SUFFICES ASSUME NEW x \in Items, NEW i \in DOMAIN jobs, jobs[i].item = x
             PROVE  x = Head(jobs).item \/ JobQueued(x)'
  BY DEF JobQueued
<1>1. i \in 1..Len(jobs) /\ Len(jobs) \in Nat /\ Head(jobs) = jobs[1]
  OBVIOUS
<1>2. CASE i = 1
  BY <1>1, <1>2
<1>3. CASE i # 1
  <2>1. i - 1 \in DOMAIN jobs' /\ jobs'[i - 1] = jobs[i]
    BY <1>1, <1>3
  <2> QED
    BY <2>1 DEF JobQueued
<1> QED
  BY <1>2, <1>3

\* A row in progress is there.
LEMMA IsInProgress ==
  ASSUME RowsAllTyped, NEW x \in Items, rows[x].status \in Processing
  PROVE  There(x)
  BY DEF There, NoRow, Processing

\* No step of a careful user's leaves a row in progress to nobody.
LEMMA NobodyLeftStep ==
  ASSUME RowsAllTyped, RowsAllTyped', RowsKept, Careful, Careful', NobodyLeft, [NotebookNext]_notebookVars
  PROVE  NobodyLeft'
<1>0. /\ NoRow.status \notin Processing /\ work.item \in Items /\ jobs \in Seq(Jobs)
      /\ (work.step # "idle" => work # idle)
  BY DEF NoRow, Processing, RowsAllTyped, WorkTyped, idle
<1>1. ASSUME NEW kind \in Kinds, NEW sound \in BOOLEAN, Post(kind, sound)  PROVE NobodyLeft'
  <2> DEFINE z == [kind |-> kind, id |-> NextId(kind)]
  <2>1. PICK row : rows' = [rows EXCEPT ![z] = row]
    BY <1>1 DEF Post
  <2>2. \A y \in Items : y # z => rows'[y] = rows[y]
    BY <2>1 DEF RowsAllTyped, RowsTyped
  <2>3. posted' = posted \cup {z} /\ UNCHANGED <<jobs, work>>
    BY <1>1 DEF Post, queue
  <2> HIDE DEF z
  <2> QED
    BY <2>2, <2>3 DEF NobodyLeft, OnItsWay, JobQueued
<1>2. ASSUME NEW x \in Items, Enqueue(x)  PROVE NobodyLeft'
  <2>1. posted' = posted \ {x} /\ work' = work
    BY <1>2 DEF Enqueue
  <2>2. CASE There(x)
    <3>1. \A y \in Items : y # x => rows'[y] = rows[y]
      BY <1>2, <2>2 DEF Enqueue, RowsAllTyped, RowsTyped
    <3> DEFINE j == [item |-> x, post |-> TRUE]
    <3>2. jobs' = Append(jobs, j) /\ j \in Jobs /\ j.item = x
      BY <1>2, <2>2 DEF Enqueue, Jobs
    <3>3. JobQueued(x)' /\ \A y \in Items : JobQueued(y) => JobQueued(y)'
      <4> HIDE DEF j
      <4> QED
        BY <1>0, <3>2, WaitsLonger
    <3> QED
      BY <2>1, <3>1, <3>3 DEF NobodyLeft, OnItsWay
  <2>3. CASE ~There(x)
    <3>1. UNCHANGED <<rows, jobs>>
      BY <1>2, <2>3 DEF Enqueue
    <3> QED
      BY <2>1, <2>3, <3>1, IsInProgress DEF NobodyLeft, OnItsWay, JobQueued
  <2> QED
    BY <2>2, <2>3
<1>3. ASSUME NEW x \in Items, NeverEnqueued(x)  PROVE NobodyLeft'
  BY <1>3 DEF NeverEnqueued, Break, Careful
<1>4. CASE DeleteFails
  BY <1>4 DEF DeleteFails, Break, Careful
<1>5. CASE RestoreEnds \/ \E x \in Items : DeleteBegins(x)
  BY <1>5 DEF DeleteBegins, RestoreEnds, NobodyLeft, OnItsWay, JobQueued, table, queue
<1>6. CASE DeleteCommits \/ DeleteNotebook \/ \E x \in Items : DeleteExplorer(x)
  <2>1. UNCHANGED <<jobs, work, posted>>
    BY <1>6 DEF DeleteCommits, DeleteNotebook, DeleteExplorer, queue
  <2>2. \A y \in Items : rows'[y] = NoRow \/ rows'[y] = rows[y]
    BY <1>6 DEF DeleteCommits, DeleteNotebook, DeleteExplorer, RowsAllTyped, RowsTyped
  <2> QED
    BY <1>0, <2>1, <2>2 DEF NobodyLeft, OnItsWay, JobQueued
<1>7. CASE PutAgain
  <2>1. PICK x \in erase.again : jobs' = Append(jobs, [item |-> x, post |-> FALSE])
    BY <1>7 DEF PutAgain
  <2> DEFINE j == [item |-> x, post |-> FALSE]
  <2>2. j \in Jobs
    BY DEF Jobs, RowsAllTyped, HandlerTyped
  <2>3. \A y \in Items : JobQueued(y) => JobQueued(y)'
    <3> HIDE DEF j
    <3>1. jobs' = Append(jobs, j)
      BY <2>1 DEF j
    <3> QED
      BY <1>0, <2>2, <3>1, WaitsLonger
  <2> QED
    BY <1>7, <2>3 DEF PutAgain, NobodyLeft, OnItsWay, table
<1>8. CASE TakeJob
  <2> DEFINE x == Head(jobs).item
  <2>1. jobs # <<>> /\ work = idle /\ jobs' = Tail(jobs) /\ posted' = posted
    BY <1>8 DEF TakeJob
  <2>2. \A y \in Items : JobQueued(y) => y = x \/ JobQueued(y)'
    BY <1>0, <2>1, WaitsOrIsTaken
  <2>3. CASE There(x)
    <3>1. work'.step = "started" /\ work'.item = x
      BY <1>8, <2>3 DEF TakeJob
    <3>2. work' # idle
      BY <3>1 DEF idle
    <3>3. \A y \in Items : y # x => rows'[y] = rows[y]
      BY <1>8, <2>3 DEF TakeJob, RowsAllTyped, RowsTyped
    <3> HIDE DEF x
    <3> QED
      BY <2>1, <2>2, <3>1, <3>2, <3>3 DEF NobodyLeft, OnItsWay
  <2>4. CASE ~There(x)
    <3>1. UNCHANGED <<rows, work>>
      BY <1>8, <2>4 DEF TakeJob
    <3> HIDE DEF x
    <3> QED
      BY <2>1, <2>2, <2>4, <3>1, IsInProgress DEF NobodyLeft, OnItsWay
  <2> QED
    BY <2>3, <2>4
<1>9. CASE LoadFile \/ ConvertSaves
  <2>1. UNCHANGED <<rows, jobs, posted>> /\ work'.item = work.item /\ work'.step # "idle"
    BY <1>9 DEF LoadFile, ConvertSaves, table, RowsAllTyped, WorkTyped
  <2> QED
    BY <2>1 DEF NobodyLeft, OnItsWay, JobQueued, idle
\* The file is whole, so that what is not there is the row.
<1>10. CASE LoadFails
  <2>1. ~There(work.item)
    BY <1>0, <1>10 DEF LoadFails, RowsKept, Overlap
  <2>2. UNCHANGED <<rows, jobs, posted>>
    BY <1>10, <2>1 DEF LoadFails
  <2> QED
    BY <2>1, <2>2, IsInProgress DEF NobodyLeft, OnItsWay, JobQueued
<1>11. CASE JobFails \/ JobEnds
  <2>1. /\ UNCHANGED <<jobs, posted>>
        /\ \A y \in Items : y # work.item => rows'[y] = rows[y]
        /\ rows'[work.item].status \notin Processing
    <3>1. CASE JobFails
      BY <1>0, <3>1 DEF JobFails, RowsAllTyped, RowsTyped, Processing, Row
    <3>2. CASE JobEnds
      <4>1. There(work.item) => rows'[work.item].status = "finished"
        BY <3>2, TypedJobEnds
      <4>2. ~There(work.item) => rows'[work.item].status \notin Processing
        BY <1>0, <3>2 DEF JobEnds, There
      <4> QED
        BY <3>2, <4>1, <4>2, TypedJobEnds DEF Processing
    <3> QED
      BY <1>11, <3>1, <3>2
  <2> QED
    BY <2>1 DEF NobodyLeft, OnItsWay, JobQueued
<1>12. CASE UNCHANGED notebookVars
  BY <1>12 DEF notebookVars, table, queue, NobodyLeft, OnItsWay, JobQueued
<1> QED
  BY <1>1, <1>2, <1>3, <1>4, <1>5, <1>6, <1>7, <1>8, <1>9, <1>10, <1>11, <1>12
     DEF NotebookNext, Handler, Consumer

\* The invariant holds in the initial state.
LEMMA RowsInitHolds == NotebookInit => NotebookInv
<1> SUFFICES ASSUME NotebookInit  PROVE NotebookInv
  OBVIOUS
<1>1. RowsKept
  BY DEF NotebookInit, RowsKept
<1>2. ProcessingHasJob
  BY DEF NotebookInit, ProcessingHasJob, NoRow, Processing
<1> QED
  BY <1>1, <1>2, TypedInit DEF NotebookInv

\* Every step keeps it.
LEMMA RowsStepHolds == NotebookInv /\ [NotebookNext]_notebookVars => NotebookInv'
<1> SUFFICES ASSUME NotebookInv, [NotebookNext]_notebookVars  PROVE NotebookInv'
  OBVIOUS
<1>1. RowsAllTyped' /\ RowsKept'
  BY TypedStep, KeptStep DEF NotebookInv
<1>2. ASSUME Careful'  PROVE NobodyLeft'
  <2>1. Careful
    BY <1>2, CarefulBefore DEF NotebookInv
  <2>2. NobodyLeft
    BY <2>1 DEF NotebookInv, ProcessingHasJob, NobodyLeft, OnItsWay, JobQueued
  <2> QED
    BY <1>1, <1>2, <2>1, <2>2, NobodyLeftStep DEF NotebookInv
<1> QED
  BY <1>1, <1>2 DEF NotebookInv, ProcessingHasJob, NobodyLeft, OnItsWay, JobQueued

\* So it holds throughout.
LEMMA RowsInvariance == NotebookSpec => []NotebookInv
  BY RowsInitHolds, RowsStepHolds, PTL DEF NotebookSpec

-----------------------------------------------------------------------------
\* The types of Notebook.
THEOREM NotebookTypeHolds == NotebookSpec => []NotebookTypeOK
<1>1. NotebookInv => NotebookTypeOK
  <2> SUFFICES ASSUME NotebookInv  PROVE NotebookTypeOK
    OBVIOUS
  <2>1. \A x \in Items :
          /\ rows[x].status \in Processing \cup Final \cup {"absent"}
          /\ rows[x].made \in 0..made /\ rows[x].sound \in BOOLEAN
          /\ Range(rows[x].result) \subseteq 1..made
    <3> SUFFICES ASSUME NEW x \in Items
                 PROVE  /\ rows[x].status \in Processing \cup Final \cup {"absent"}
                        /\ rows[x].made \in 0..made /\ rows[x].sound \in BOOLEAN
                        /\ Range(rows[x].result) \subseteq 1..made
      OBVIOUS
    <3>1. rows[x] \in Row(made)
      BY DEF NotebookInv, RowsAllTyped, RowsTyped
    <3>2. rows[x].result \in Seq(1..made)
      BY <3>1 DEF Row
    <3>3. Range(rows[x].result) \subseteq 1..made
      BY <3>2, SeqElements
    <3> QED
      BY <3>1, <3>3 DEF Row
  <2>2. Range(applied) \subseteq 1..made
    <3>1. applied \in Seq(1..made)
      BY DEF NotebookInv, RowsAllTyped, DiskTyped
    <3> QED
      BY <3>1, SeqElements
  <2>3. \A i \in DOMAIN jobs : jobs[i].item \in Items /\ jobs[i].post \in BOOLEAN
    <3>1. \A i \in DOMAIN jobs : jobs[i] \in Jobs
      BY DEF NotebookInv, RowsAllTyped, WorkTyped
    <3> QED
      BY <3>1 DEF Jobs
  <2>4. /\ work.item \in Items /\ work.step \in {"idle", "started", "loaded", "saved"}
        /\ posted \subseteq Items
        /\ api \in {"idle", "restoring", "putting"} /\ erase.again \cup erase.gone \subseteq Items
    BY DEF NotebookInv, RowsAllTyped, WorkTyped, HandlerTyped
  <2>5. /\ made \in 0..MaxMade /\ broken \in 0..MaxBroken
        /\ file \in {"whole", "torn", "gone"}
    BY DEF NotebookInv, RowsAllTyped, RowsTyped, DiskTyped
  <2>6. exists \in BOOLEAN /\ met \in BOOLEAN
    BY DEF NotebookInv, RowsAllTyped, RowsTyped
  <2> QED
    BY <2>1, <2>2, <2>3, <2>4, <2>5, <2>6 DEF NotebookTypeOK
<1> QED
  BY <1>1, RowsInvariance, PTL

\* While deletions meet no other work, no request is lost and no commit fails,
\* no converter and no explorer is left in progress with nobody to work on it.
THEOREM ProcessingHasJobHolds == NotebookSpec => []ProcessingHasJob
<1>1. NotebookInv => ProcessingHasJob
  BY DEF NotebookInv
<1> QED
  BY <1>1, RowsInvariance, PTL

-----------------------------------------------------------------------------
\* What is yet to be done with the dataset, or taken out of it.
Ahead(x) ==
  \/ x \in posted \cup erase.again \cup erase.gone \/ JobQueued(x)
  \/ work.item = x /\ work.step \in {"started", "loaded"}

MadeOf(S) == {rows[x].made : x \in S}
SoundBefore(n) == {x \in Converters : rows[x].sound /\ rows[x].made < n}
SoundDone == {x \in Converters : rows[x].sound /\ ~Ahead(x)}

\* Keys are in the order in which the rows were made.
KeysInOrder == \A x, y \in Items : There(x) /\ There(y) =>
  /\ rows[x].made = rows[y].made => x = y
  /\ x.kind = y.kind /\ x.id < y.id => rows[x].made < rows[y].made

\* So are the jobs, and each has its row; that of an explorer is its first.
JobsInOrder == \A i \in DOMAIN jobs :
  /\ There(jobs[i].item)
  /\ jobs[i].item.kind = "explorer" => jobs[i].post /\ rows[jobs[i].item].status = "delivered"
  /\ \A j \in DOMAIN jobs : i < j => rows[jobs[i].item].made < rows[jobs[j].item].made

\* The job in hand is before them.
WorkInOrder == work.step # "idle" =>
  /\ There(work.item) /\ work.made = rows[work.item].made
  /\ work.item.kind = "explorer" => work.post
  /\ work.step = "saved" => work.item.kind = "converter" /\ rows[work.item].sound
  /\ work.step = "loaded" => work.seen = applied
  /\ \A i \in DOMAIN jobs : work.made < rows[jobs[i].item].made

\* What is to be enqueued, put again or deleted is behind them, and what is
\* put again is before what is deleted, which is all from some row on.
LaterInOrder ==
  /\ \A x \in posted \cup erase.again \cup erase.gone :
       /\ There(x)
       /\ work.step # "idle" => work.made < rows[x].made
       /\ \A i \in DOMAIN jobs : rows[jobs[i].item].made < rows[x].made
  /\ \A x \in erase.again : x.kind = "converter" /\ \A y \in erase.gone : rows[x].made < rows[y].made
  /\ \A x \in erase.gone, y \in Items :
       There(y) /\ rows[x].made < rows[y].made => y \in erase.gone

\* What a deletion has read is there while it goes on.
EraseInOrder ==
  /\ api = "idle" => erase = nothing
  /\ api # "idle" => posted = {}
  /\ api = "restoring" => Converters \subseteq erase.again \cup erase.gone

\* A row has ended well if its component can do what it is asked.
EndsAsItShould == \A x \in Items :
  /\ rows[x].status = "finished" => rows[x].sound
  /\ rows[x].status = "failed" => ~rows[x].sound

\* The dataset has had the first of its converters, those that are sound in it.
AppliedSoFar ==
  /\ \A x \in Converters, y \in Items : ~Ahead(x) /\ Ahead(y) => rows[x].made < rows[y].made
  /\ api # "restoring" => InOrder(applied, MadeOf(SoundDone))

\* An explorer has seen those before it.
ResultsInOrder == \A x \in Items : x.kind = "explorer" /\ rows[x].status = "finished" =>
  InOrder(rows[x].result, MadeOf(SoundBefore(rows[x].made)))

InPlace ==
  /\ KeysInOrder /\ JobsInOrder /\ WorkInOrder /\ LaterInOrder /\ EraseInOrder
  /\ EndsAsItShould /\ AppliedSoFar /\ ResultsInOrder

\* A notebook that is gone has left nothing.
NothingLeft == file = "gone" /\ ~Overlap /\ api = "idle"

ReplayInv == Careful => IF exists THEN InPlace ELSE NothingLeft

\* The numbers of rows are numbers.
LEMMA MadeIsNumber ==
  ASSUME RowsAllTyped
  PROVE  /\ made \in Nat /\ work.made \in Nat /\ work.item \in Items /\ jobs \in Seq(Jobs)
         /\ \A x \in Items : rows[x].made \in 0..made /\ rows[x].sound \in BOOLEAN
         /\ \A i \in DOMAIN jobs : jobs[i].item \in Items
         /\ posted \cup erase.again \cup erase.gone \subseteq Items
<1>1. made \in Nat /\ \A x \in Items : rows[x].made \in 0..made /\ rows[x].sound \in BOOLEAN
  BY DEF RowsAllTyped, RowsTyped, Row
<1>2. work.made \in Nat /\ work.item \in Items /\ jobs \in Seq(Jobs)
  <2>1. work.made \in 0..made /\ work.item \in Items /\ jobs \in Seq(Jobs)
    BY DEF RowsAllTyped, WorkTyped
  <2> QED
    BY <1>1, <2>1
<1>3. \A i \in DOMAIN jobs : jobs[i].item \in Items
  <2>1. \A i \in DOMAIN jobs : jobs[i] \in Jobs
    BY <1>2, ElementsOfSeq
  <2> QED
    BY <2>1 DEF Jobs
<1>4. posted \cup erase.again \cup erase.gone \subseteq Items
  BY DEF RowsAllTyped, HandlerTyped
<1> QED
  BY <1>1, <1>2, <1>3, <1>4

\* The next key of a table is larger than all in use.
LEMMA NextIdIsNext ==
  ASSUME RowsTyped, NEW kind \in Kinds
  PROVE  \A y \in Items : There(y) /\ y.kind = kind => y.id < NextId(kind)
<1> DEFINE S == {0} \cup {x.id : x \in {y \in Items : There(y) /\ y.kind = kind}}
<1>1. made \in Nat /\ S \in SUBSET (0..made) /\ S # {}
  BY DEF RowsTyped, Items
<1>2. \A n \in S : n <= Max(S) /\ Max(S) \in 0..made
  <2> HIDE DEF S
  <2> QED
    BY <1>1, MaxIsMax
<1>3. NextId(kind) = 1 + Max(S)
  BY DEF NextId
<1>4. \A y \in Items : There(y) /\ y.kind = kind => y.id \in S
  OBVIOUS
<1>5. S \subseteq Nat
  BY <1>1
<1>6. made \in Nat
  BY <1>1
<1> HIDE DEF S
<1> QED
  <2> SUFFICES ASSUME NEW y \in Items, There(y), y.kind = kind  PROVE y.id < NextId(kind)
    OBVIOUS
  <2>1. y.id \in S /\ y.id \in Nat
    BY <1>4, <1>5
  <2>2. y.id <= Max(S) /\ Max(S) \in Nat
    BY <1>2, <1>6, <2>1
  <2> QED
    BY <1>3, <2>1, <2>2

\* A larger number is added at the end.
LEMMA OneMoreInOrder ==
  ASSUME NEW n \in Nat, NEW s \in Seq(1..n), NEW S, InOrder(s, S),
         NEW k \in 1..n, \A m \in S : m < k
  PROVE  InOrder(Append(s, k), S \cup {k})
<1> DEFINE t == Append(s, k)
<1>1. /\ DOMAIN t = 1..(Len(s) + 1) /\ DOMAIN s = 1..Len(s) /\ Len(s) \in Nat
      /\ \A i \in DOMAIN s : t[i] = s[i]
      /\ t[Len(s) + 1] = k
  BY AtTheEnd
<1>2. \A i \in DOMAIN s : s[i] \in S /\ s[i] < k
  BY DEF InOrder, Range
<1> HIDE DEF t
<1>3. Range(t) = S \cup {k}
  <2>1. Range(t) \subseteq S \cup {k}
    <3> SUFFICES ASSUME NEW i \in DOMAIN t  PROVE t[i] \in S \cup {k}
      BY DEF Range
    <3> QED
      BY <1>1, <1>2
  <2>2. k \in Range(t)
    <3>1. Len(s) + 1 \in DOMAIN t
      BY <1>1
    <3> QED
      BY <1>1, <3>1 DEF Range
  <2>3. ASSUME NEW m \in S  PROVE m \in Range(t)
    <3>1. PICK i \in DOMAIN s : m = s[i]
      BY DEF InOrder, Range
    <3>2. i \in DOMAIN t /\ t[i] = m
      BY <1>1, <3>1
    <3> QED
      BY <3>2 DEF Range
  <2> QED
    BY <2>1, <2>2, <2>3
<1>4. ASSUME NEW i \in DOMAIN t, NEW j \in DOMAIN t, i < j  PROVE t[i] < t[j]
  <2>1. i \in DOMAIN s
    BY <1>1, <1>4
  <2>2. CASE j \in DOMAIN s
    BY <1>1, <1>4, <2>1, <2>2 DEF InOrder
  <2>3. CASE j = Len(s) + 1
    BY <1>1, <1>2, <2>1, <2>3
  <2> QED
    BY <1>1, <2>2, <2>3
<1> QED
  BY <1>3, <1>4 DEF InOrder, t

\* What of a sequence in order is below some number is so too.
LEMMA NothingInOrder == InOrder(<<>>, {})
  BY DEF InOrder, Range

\* Where rows keep their numbers and soundness, so do sets of them.
SameRows == \A x \in Items :
  /\ There(x)' = There(x)
  /\ There(x) => rows'[x].made = rows[x].made /\ rows'[x].sound = rows[x].sound

\* What is said of the rows depends on the rows only.
LEMMA SameRowsSame ==
  ASSUME SameRows
  PROVE  /\ Converters' = Converters /\ (KeysInOrder => KeysInOrder')
         /\ \A S \in SUBSET Converters : MadeOf(S)' = MadeOf(S)
         /\ \A n : SoundBefore(n)' = SoundBefore(n)
         /\ \A n : SoundBefore(n) \subseteq Converters
<1>1. Converters' = Converters
  BY DEF SameRows, Converters
<1>2. \A x \in Converters : x \in Items /\ There(x)
  BY DEF Converters
<1>3. KeysInOrder => KeysInOrder'
  BY DEF SameRows, KeysInOrder
<1>4. \A S \in SUBSET Converters : MadeOf(S)' = MadeOf(S)
  BY <1>2 DEF SameRows, MadeOf
<1>5. \A n : SoundBefore(n)' = SoundBefore(n)
  BY <1>1, <1>2 DEF SameRows, SoundBefore
<1>6. \A n : SoundBefore(n) \subseteq Converters
  BY DEF SoundBefore
<1> QED
  BY <1>1, <1>3, <1>4, <1>5, <1>6

\* POST: the new row is behind all that there are.
LEMMA PlacedPost ==
  ASSUME RowsAllTyped, RowsAllTyped', InPlace, NEW kind \in Kinds, NEW sound \in BOOLEAN, Post(kind, sound)
  PROVE  InPlace'
<1>0. PICK x : x = [kind |-> kind, id |-> NextId(kind)]
  OBVIOUS
<1>1. /\ x \in Items /\ x.kind = kind /\ ~There(x)
      /\ \A y \in Items : There(y) /\ y.kind = x.kind => y.id < x.id
  <2>1. NextId(kind) \in 1..(made + 1) /\ made + 1 <= MaxMade
    BY NextIdBound DEF RowsAllTyped, RowsTyped, Post
  <2>2. x \in Items
    BY <1>0, <2>1 DEF RowsAllTyped, RowsTyped, Items
  <2>3. \A y \in Items : There(y) /\ y.kind = kind => y.id < NextId(kind)
    BY NextIdIsNext DEF RowsAllTyped
  <2>4. ~(NextId(kind) < NextId(kind))
    BY <2>1
  <2> QED
    BY <1>0, <2>2, <2>3, <2>4
<1>2. PICK row : /\ rows' = [rows EXCEPT ![x] = row]
                 /\ row.made = made + 1 /\ row.status = "not_started"
  <2> DEFINE r == [made |-> made + 1, status |-> "not_started", sound |-> sound, result |-> <<>>]
  <2>1. rows' = [rows EXCEPT ![x] = r]
    BY <1>0 DEF Post
  <2>2. r.made = made + 1 /\ r.status = "not_started"
    OBVIOUS
  <2> HIDE DEF r
  <2> QED
    BY <2>1, <2>2
<1>3. /\ api = "idle" /\ erase = nothing /\ posted' = posted \cup {x}
      /\ UNCHANGED <<applied, jobs, work, api, erase>>
  BY <1>0 DEF Post, disk, queue, handler, InPlace, EraseInOrder
<1>4. /\ rows'[x] = row /\ There(x)'
      /\ \A y \in Items : y # x => rows'[y] = rows[y] /\ There(y)' = There(y)
  <2>1. rows'[x] = row /\ \A y \in Items : y # x => rows'[y] = rows[y]
    BY <1>1, <1>2 DEF RowsAllTyped, RowsTyped
  <2>2. row # NoRow
    BY <1>2 DEF NoRow
  <2> QED
    BY <2>1, <2>2 DEF There
<1>5. \A y \in Items : There(y) => y # x /\ rows'[y] = rows[y] /\ rows[y].made < rows'[x].made
  BY <1>1, <1>2, <1>4, MadeIsNumber
<1>6. /\ \A i \in DOMAIN jobs : jobs[i].item \in Items /\ There(jobs[i].item)
      /\ work.step # "idle" => work.item \in Items /\ There(work.item)
      /\ \A y \in posted : y \in Items /\ There(y)
      /\ erase.again = {} /\ erase.gone = {}
  BY <1>3, MadeIsNumber DEF InPlace, JobsInOrder, WorkInOrder, LaterInOrder, nothing
<1>7. KeysInOrder'
  <2> SUFFICES ASSUME NEW y \in Items, NEW z \in Items, There(y)', There(z)'
               PROVE  /\ rows'[y].made = rows'[z].made => y = z
                      /\ y.kind = z.kind /\ y.id < z.id => rows'[y].made < rows'[z].made
    BY DEF KeysInOrder
  <2>1. y.id \in Nat /\ z.id \in Nat /\ x.id \in Nat
    BY <1>1 DEF Items
  <2>2. rows'[y].made \in Nat /\ rows'[z].made \in Nat
    BY MadeIsNumber, <1>4, <1>5, <1>2 DEF RowsAllTyped, RowsTyped
  <2>3. CASE y # x /\ z # x
    BY <1>4, <2>3 DEF InPlace, KeysInOrder
  <2>4. CASE y = x /\ z # x
    <3>1. There(z) /\ rows'[z].made < rows'[y].made
      BY <1>4, <1>5, <2>4
    <3>2. ~(y.kind = z.kind /\ y.id < z.id)
      BY <1>1, <2>1, <2>4, <3>1
    <3> QED
      BY <2>2, <3>1, <3>2
  <2>5. CASE y # x /\ z = x
    BY <1>4, <1>5, <2>2, <2>5
  <2>6. CASE y = x /\ z = x
    BY <2>1, <2>6
  <2> QED
    BY <2>3, <2>4, <2>5, <2>6
<1>8. JobsInOrder'
  BY <1>3, <1>5, <1>6, <1>4 DEF InPlace, JobsInOrder
<1>9. WorkInOrder'
  BY <1>3, <1>4, <1>5, <1>6 DEF InPlace, WorkInOrder
<1>10. LaterInOrder'
  <2>1. \A y \in posted' : /\ There(y)'
                           /\ work.step # "idle" => work.made < rows'[y].made
                           /\ \A i \in DOMAIN jobs : rows[jobs[i].item].made < rows'[y].made
    BY <1>3, <1>4, <1>5, <1>6 DEF InPlace, LaterInOrder, WorkInOrder
  <2> QED
    BY <1>3, <1>5, <1>6, <2>1 DEF LaterInOrder
<1>11. EraseInOrder'
  BY <1>3 DEF EraseInOrder
<1>12. EndsAsItShould'
  BY <1>2, <1>4 DEF InPlace, EndsAsItShould
<1>13. \A y \in Items : Ahead(y)' <=> Ahead(y) \/ y = x
  BY <1>3 DEF Ahead, JobQueued
<1>14. \A y \in Items : y # x => (y \in Converters' <=> y \in Converters)
  BY <1>4 DEF Converters
<1>15. x \notin Converters /\ \A y \in Converters : y \in Items /\ There(y)
  BY <1>1 DEF Converters
<1>16. SoundDone' = SoundDone
  BY <1>4, <1>13, <1>14, <1>15 DEF SoundDone, Converters
<1>17. MadeOf(SoundDone)' = MadeOf(SoundDone)
  BY <1>5, <1>15, <1>16 DEF MadeOf, SoundDone
<1>18. AppliedSoFar'
  <2>1. ASSUME NEW y \in Converters', NEW z \in Items, ~Ahead(y)', Ahead(z)'
        PROVE  rows'[y].made < rows'[z].made
    <3>1. y # x /\ y \in Converters /\ ~Ahead(y)
      BY <1>13, <1>14, <2>1 DEF Converters
    <3>2. CASE z = x
      BY <1>5, <1>15, <3>1, <3>2
    <3>3. CASE z # x
      <4>1. Ahead(z)
        BY <1>13, <2>1, <3>3
      <4> QED
        BY <1>4, <3>1, <3>3, <4>1 DEF InPlace, AppliedSoFar, Converters
    <3> QED
      BY <3>2, <3>3
  <2>2. api # "restoring" => InOrder(applied, MadeOf(SoundDone))
    BY DEF InPlace, AppliedSoFar
  <2> QED
    BY <1>3, <1>17, <2>1, <2>2 DEF AppliedSoFar
<1>19. ResultsInOrder'
  <2> SUFFICES ASSUME NEW y \in Items, y.kind = "explorer", rows[y]'.status = "finished"
               PROVE  InOrder(rows[y].result, MadeOf(SoundBefore(rows[y].made)))'
    BY DEF ResultsInOrder
  <2>1. y # x /\ rows'[y] = rows[y] /\ There(y)
    <3>1. y # x /\ rows'[y] = rows[y]
      BY <1>2, <1>4
    <3> QED
      BY <3>1 DEF There, NoRow
  <2>0. PICK n : n = rows[y].made
    OBVIOUS
  <2>2. n \in Nat /\ n < rows'[x].made /\ rows'[x].made \in Nat
    BY <1>2, <1>4, <1>5, <2>0, <2>1, MadeIsNumber
  <2>3. SoundBefore(n)' = SoundBefore(n)
    BY <1>4, <1>14, <1>15, <2>2 DEF SoundBefore, Converters
  <2>4. MadeOf(SoundBefore(n))' = MadeOf(SoundBefore(n))
    BY <1>5, <1>15, <2>3 DEF MadeOf, SoundBefore
  <2>5. InOrder(rows[y].result, MadeOf(SoundBefore(n)))
    BY <2>0, <2>1 DEF InPlace, ResultsInOrder
  <2>6. rows'[y].made = n
    BY <2>0, <2>1
  <2> QED
    BY <2>1, <2>4, <2>5, <2>6
<1> QED
  BY <1>7, <1>8, <1>9, <1>10, <1>11, <1>12, <1>18, <1>19 DEF InPlace

\* So do the results, and what a row says that is not written anew.
LEMMA RowsInPlace ==
  ASSUME SameRows, InPlace
  PROVE  /\ KeysInOrder'
         /\ \A x \in Items : rows'[x].made = rows[x].made /\ rows'[x].sound = rows[x].sound
         /\ \A x \in Items : rows'[x] # NoRow <=> rows[x] # NoRow
         /\ Converters' = Converters
<1>1. \A x \in Items : ~There(x) => rows'[x] = rows[x]
  BY DEF SameRows, There
<1> QED
  BY <1>1, SameRowsSame DEF SameRows, InPlace, There

\* Results stay in order where no explorer ends.
LEMMA ResultsStay ==
  ASSUME SameRows, InPlace,
         \A x \in Items : x.kind = "explorer" /\ rows'[x].status = "finished" =>
           rows[x].status = "finished" /\ rows'[x].result = rows[x].result
  PROVE  ResultsInOrder'
<1> SUFFICES ASSUME NEW x \in Items, x.kind = "explorer", rows[x]'.status = "finished"
             PROVE  InOrder(rows[x].result, MadeOf(SoundBefore(rows[x].made)))'
  BY DEF ResultsInOrder
<1>1. rows[x].status = "finished" /\ rows'[x].result = rows[x].result
  OBVIOUS
<1>2. PICK n : n = rows[x].made
  OBVIOUS
<1>3. rows'[x].made = n
  BY <1>2, RowsInPlace
<1>4. SoundBefore(n)' = SoundBefore(n) /\ SoundBefore(n) \in SUBSET Converters
  BY SameRowsSame
<1>5. MadeOf(SoundBefore(n))' = MadeOf(SoundBefore(n))
  BY <1>4, SameRowsSame DEF MadeOf
<1>6. InOrder(rows[x].result, MadeOf(SoundBefore(n)))
  BY <1>1, <1>2 DEF InPlace, ResultsInOrder
<1> QED
  BY <1>1, <1>3, <1>5, <1>6

\* What is ahead is so still, and the dataset is what it was.
LEMMA AppliedStays ==
  ASSUME SameRows, InPlace, \A x \in Items : Ahead(x)' <=> Ahead(x),
         applied' = applied, api' = "restoring" \/ api # "restoring"
  PROVE  AppliedSoFar'
<1>1. Converters' = Converters /\ \A x \in Items : rows'[x].made = rows[x].made
                                               /\ rows'[x].sound = rows[x].sound
  BY RowsInPlace
<1>2. \A x \in Converters : x \in Items
  BY DEF Converters
<1>3. SoundDone' = SoundDone /\ SoundDone \in SUBSET Converters
  BY <1>1, <1>2 DEF SoundDone
<1>4. MadeOf(SoundDone)' = MadeOf(SoundDone)
  BY <1>1, <1>2, <1>3 DEF MadeOf
<1>5. \A x \in Converters', y \in Items : ~Ahead(x)' /\ Ahead(y)' => rows'[x].made < rows'[y].made
  BY <1>1, <1>2 DEF InPlace, AppliedSoFar
<1>6. api # "restoring" => InOrder(applied, MadeOf(SoundDone))
  BY DEF InPlace, AppliedSoFar
<1> QED
  BY <1>4, <1>5, <1>6 DEF AppliedSoFar

\* The status of a row is written.
LEMMA StatusSame ==
  ASSUME RowsAllTyped, NEW x \in Items, There(x), NEW status, status # "absent",
         rows' = [rows EXCEPT ![x].status = status]
  PROVE  /\ SameRows /\ rows'[x].status = status /\ rows'[x].result = rows[x].result
         /\ \A y \in Items : y # x => rows'[y] = rows[y]
<1>1. rows[x] \in Row(made) /\ rows'[x] = [rows[x] EXCEPT !.status = status]
  BY DEF RowsAllTyped, RowsTyped
<1>2. /\ rows'[x].status = status /\ rows'[x].made = rows[x].made /\ rows'[x].sound = rows[x].sound
      /\ rows'[x].result = rows[x].result
  BY <1>1 DEF Row
<1>3. \A y \in Items : y # x => rows'[y] = rows[y]
  BY DEF RowsAllTyped, RowsTyped
<1>4. There(x)'
  BY <1>2 DEF There, NoRow
<1> QED
  BY <1>2, <1>3, <1>4 DEF SameRows, There

\* A job is appended.
LEMMA OneMoreJob ==
  ASSUME jobs \in Seq(Jobs), NEW j \in Jobs, jobs' = Append(jobs, j)
  PROVE  /\ DOMAIN jobs = 1..Len(jobs) /\ Len(jobs) \in Nat
         /\ DOMAIN jobs' = DOMAIN jobs \cup {Len(jobs) + 1}
         /\ jobs'[Len(jobs) + 1] = j
         /\ \A i \in DOMAIN jobs : jobs'[i] = jobs[i] /\ i < Len(jobs) + 1
         /\ \A x : JobQueued(x)' <=> JobQueued(x) \/ x = j.item
<1>1. /\ DOMAIN jobs = 1..Len(jobs) /\ DOMAIN jobs' = 1..(Len(jobs) + 1) /\ Len(jobs) \in Nat
      /\ jobs'[Len(jobs) + 1] = j /\ \A i \in 1..Len(jobs) : jobs'[i] = jobs[i]
  OBVIOUS
<1>2. DOMAIN jobs' = DOMAIN jobs \cup {Len(jobs) + 1}
  BY <1>1
<1>3. \A i \in DOMAIN jobs : jobs'[i] = jobs[i] /\ i < Len(jobs) + 1
  BY <1>1
<1>4. \A x : JobQueued(x)' <=> JobQueued(x) \/ x = j.item
  BY <1>1, <1>2, <1>3 DEF JobQueued
<1> QED
  BY <1>1, <1>2, <1>3, <1>4

\* The first job is taken.
LEMMA OneJobLess ==
  ASSUME jobs \in Seq(Jobs), jobs # <<>>, jobs' = Tail(jobs)
  PROVE  /\ 1 \in DOMAIN jobs /\ Head(jobs) = jobs[1] /\ DOMAIN jobs \subseteq Nat \ {0}
         /\ \A i \in DOMAIN jobs' : i + 1 \in DOMAIN jobs /\ jobs'[i] = jobs[i + 1] /\ i \in Nat /\ 1 < i + 1
         /\ \A x : JobQueued(x) <=> x = Head(jobs).item \/ JobQueued(x)'
<1>1. /\ DOMAIN jobs = 1..Len(jobs) /\ Len(jobs) \in Nat /\ Len(jobs) >= 1
      /\ DOMAIN jobs' = 1..(Len(jobs) - 1) /\ Head(jobs) = jobs[1]
      /\ \A i \in DOMAIN jobs' : jobs'[i] = jobs[i + 1]
  OBVIOUS
<1>2. \A i \in DOMAIN jobs' : i + 1 \in DOMAIN jobs /\ i \in Nat /\ 1 < i + 1
  BY <1>1
<1>3. \A i \in DOMAIN jobs : i = 1 \/ (i - 1 \in DOMAIN jobs' /\ jobs'[i - 1] = jobs[i])
  BY <1>1
<1>4. 1 \in DOMAIN jobs /\ DOMAIN jobs \subseteq Nat \ {0}
  BY <1>1
<1>5. \A x : JobQueued(x) <=> x = Head(jobs).item \/ JobQueued(x)'
  BY <1>1, <1>2, <1>3, <1>4 DEF JobQueued
<1> QED
  BY <1>1, <1>2, <1>4, <1>5

\* Jobs are enqueued in the order of their rows, or the user has not been careful.
LEMMA PlacedEnqueue ==
  ASSUME RowsAllTyped, InPlace, ~met', NEW x \in Items, Enqueue(x)
  PROVE  InPlace'
<1>1. /\ x \in posted /\ There(x) /\ api = "idle" /\ erase = nothing
      /\ posted' = posted \ {x} /\ UNCHANGED <<applied, work, api, erase>>
      /\ \A y \in posted' : ~(rows[y].made < rows[x].made)
  BY DEF Enqueue, InPlace, LaterInOrder, EraseInOrder, disk, handler
<1> DEFINE j == [item |-> x, post |-> TRUE]
<1>2. rows' = [rows EXCEPT ![x].status = "delivered"] /\ jobs' = Append(jobs, j)
  BY <1>1 DEF Enqueue
<1>3. j \in Jobs /\ j.item = x /\ j.post = TRUE
  BY DEF Jobs
<1> HIDE DEF j
<1>4. /\ SameRows /\ rows'[x].status = "delivered" /\ rows'[x].result = rows[x].result
      /\ \A y \in Items : y # x => rows'[y] = rows[y]
  BY <1>1, <1>2, StatusSame
<1>5. /\ KeysInOrder' /\ Converters' = Converters
      /\ \A y \in Items : rows'[y].made = rows[y].made /\ rows'[y].sound = rows[y].sound
      /\ \A y \in Items : rows'[y] # NoRow <=> rows[y] # NoRow
  BY <1>4, RowsInPlace
<1>6. /\ DOMAIN jobs' = DOMAIN jobs \cup {Len(jobs) + 1} /\ jobs'[Len(jobs) + 1] = j
      /\ Len(jobs) + 1 \in Nat
      /\ \A i \in DOMAIN jobs : jobs'[i] = jobs[i] /\ i < Len(jobs) + 1 /\ i \in Nat
      /\ \A y : JobQueued(y)' <=> JobQueued(y) \/ y = x
  BY <1>2, <1>3, OneMoreJob, MadeIsNumber
<1>7. \A i \in DOMAIN jobs : /\ jobs[i].item \in Items /\ There(jobs[i].item)
                             /\ rows[jobs[i].item].made < rows[x].made /\ jobs[i].item # x
  BY <1>1, MadeIsNumber DEF InPlace, JobsInOrder, LaterInOrder
<1>8. \A y \in Items : rows[y].made \in Nat
  BY MadeIsNumber
<1>9. JobsInOrder'
  <2> SUFFICES ASSUME NEW i \in DOMAIN jobs'
               PROVE  /\ rows'[jobs'[i].item] # NoRow
                      /\ jobs'[i].item.kind = "explorer" =>
                           jobs'[i].post /\ rows'[jobs'[i].item].status = "delivered"
                      /\ \A k \in DOMAIN jobs' :
                           i < k => rows'[jobs'[i].item].made < rows'[jobs'[k].item].made
    BY DEF JobsInOrder, There
  <2>1. CASE i = Len(jobs) + 1
    <3>1. jobs'[i] = j /\ rows'[x] # NoRow
      BY <1>1, <1>5, <1>6, <2>1 DEF There
    <3>2. ASSUME NEW k \in DOMAIN jobs'  PROVE ~(i < k)
      BY <1>6, <2>1, <3>2
    <3> QED
      BY <1>3, <1>4, <3>1, <3>2
  <2>2. CASE i \in DOMAIN jobs
    <3>1. /\ rows'[jobs[i].item] = rows[jobs[i].item] /\ rows'[jobs[i].item] # NoRow
          /\ jobs'[i] = jobs[i]
      BY <1>4, <1>6, <1>7, <2>2 DEF There
    <3>2. ASSUME NEW k \in DOMAIN jobs', i < k
          PROVE  rows'[jobs'[i].item].made < rows'[jobs'[k].item].made
      <4>1. CASE k = Len(jobs) + 1
        BY <1>3, <1>5, <1>6, <1>7, <2>2, <3>1, <4>1
      <4>2. CASE k \in DOMAIN jobs
        BY <1>4, <1>6, <1>7, <2>2, <3>1, <3>2, <4>2 DEF InPlace, JobsInOrder
      <4> QED
        BY <1>6, <4>1, <4>2
    <3>3. jobs[i].item.kind = "explorer" => jobs[i].post /\ rows[jobs[i].item].status = "delivered"
      BY <2>2 DEF InPlace, JobsInOrder
    <3> QED
      BY <3>1, <3>2, <3>3
  <2> QED
    BY <1>6, <2>1, <2>2
<1>10. WorkInOrder'
  <2> SUFFICES ASSUME work.step # "idle"
               PROVE  /\ rows'[work.item] # NoRow /\ work.made = rows'[work.item].made
                      /\ work.item.kind = "explorer" => work.post
                      /\ work.step = "saved" => work.item.kind = "converter" /\ rows'[work.item].sound
                      /\ work.step = "loaded" => work.seen = applied
                      /\ \A i \in DOMAIN jobs' : work.made < rows'[jobs'[i].item].made
    BY <1>1 DEF WorkInOrder, There
  <2>1. /\ There(work.item) /\ work.item \in Items /\ work.made = rows[work.item].made
        /\ work.item.kind = "explorer" => work.post
        /\ work.step = "saved" => work.item.kind = "converter" /\ rows[work.item].sound
        /\ work.step = "loaded" => work.seen = applied
        /\ \A i \in DOMAIN jobs : work.made < rows[jobs[i].item].made
        /\ work.made < rows[x].made
    BY <1>1, MadeIsNumber DEF InPlace, WorkInOrder, LaterInOrder
  <2>2. \A i \in DOMAIN jobs' : work.made < rows'[jobs'[i].item].made
    BY <1>3, <1>5, <1>6, <1>7, <2>1
  <2> QED
    BY <1>5, <2>1, <2>2 DEF There
<1>11. LaterInOrder'
  <2>1. ASSUME NEW y \in posted'
        PROVE  /\ There(y)'
               /\ work.step # "idle" => work.made < rows'[y].made
               /\ \A i \in DOMAIN jobs' : rows'[jobs'[i].item].made < rows'[y].made
    <3>1. y \in posted /\ y # x /\ y \in Items /\ There(y)
      BY <1>1, <2>1, MadeIsNumber DEF InPlace, LaterInOrder
    <3>2. rows[x].made < rows[y].made
      BY <1>1, <1>8, <2>1, <3>1 DEF InPlace, KeysInOrder
    <3>3. /\ work.step # "idle" => work.made < rows[y].made
          /\ \A i \in DOMAIN jobs : rows[jobs[i].item].made < rows[y].made
      BY <3>1 DEF InPlace, LaterInOrder
    <3> QED
      BY <1>3, <1>4, <1>5, <1>6, <1>7, <3>1, <3>2, <3>3 DEF SameRows
  <2> QED
    BY <1>1, <2>1 DEF LaterInOrder, nothing
<1>12. EraseInOrder'
  BY <1>1 DEF EraseInOrder
<1>13. EndsAsItShould'
  BY <1>4, <1>5 DEF InPlace, EndsAsItShould
<1>14. \A y \in Items : Ahead(y)' <=> Ahead(y)
  BY <1>1, <1>6 DEF Ahead
<1>15. AppliedSoFar'
  BY <1>1, <1>4, <1>14, AppliedStays
<1>16. ResultsInOrder'
  BY <1>4, ResultsStay
<1> QED
  BY <1>5, <1>9, <1>10, <1>11, <1>12, <1>13, <1>15, <1>16 DEF InPlace

\* The deletion has read all that there is: what is before the row, and what
\* is not.
LEMMA PlacedDeleteBegins ==
  ASSUME RowsAllTyped, InPlace, ~met', NEW x \in Items, DeleteBegins(x)
  PROVE  InPlace'
<1>1. /\ There(x) /\ api' = "restoring" /\ jobs = <<>> /\ work = idle /\ posted = {}
      /\ UNCHANGED <<rows, applied, jobs, work, posted>>
      /\ erase' = [again |-> CreatedBefore(x), gone |-> CreatedSince(x)]
  BY DEF DeleteBegins, HasButton, Overlap, table, queue
<1>2. work.step = "idle" /\ DOMAIN jobs = {}
  BY <1>1 DEF idle
<1>3. SameRows
  BY <1>1 DEF SameRows, There
<1>4. KeysInOrder' /\ Converters' = Converters
  BY <1>3, RowsInPlace
<1>5. \A y \in Items : rows[y].made \in Nat
  BY MadeIsNumber
<1>6. /\ \A y \in erase'.again : /\ y \in Items /\ There(y) /\ y.kind = "converter"
                                 /\ rows[y].made < rows[x].made
      /\ \A y \in Items : y \in erase'.gone <=> There(y) /\ rows[y].made >= rows[x].made
      /\ erase'.gone \subseteq Items
      /\ Converters \subseteq erase'.again \cup erase'.gone
  BY <1>1, <1>5 DEF CreatedBefore, CreatedSince, Converters
<1>7. LaterInOrder'
  BY <1>1, <1>2, <1>5, <1>6 DEF LaterInOrder, There
<1>8. EraseInOrder'
  BY <1>1, <1>4, <1>6 DEF EraseInOrder
<1>9. JobsInOrder' /\ WorkInOrder'
  BY <1>1, <1>2 DEF JobsInOrder, WorkInOrder
<1>10. EndsAsItShould'
  BY <1>1 DEF InPlace, EndsAsItShould
<1>11. AppliedSoFar'
  BY <1>1, <1>4, <1>6 DEF AppliedSoFar, Ahead
<1>12. ResultsInOrder'
  BY <1>1, <1>3, ResultsStay
<1> QED
  BY <1>4, <1>7, <1>8, <1>9, <1>10, <1>11, <1>12 DEF InPlace

\* The file is the original, and all its converters are to be put again or
\* deleted.
LEMMA PlacedRestoreEnds ==
  ASSUME RowsAllTyped, InPlace, RowsKept, Careful, RestoreEnds
  PROVE  InPlace'
<1>1. /\ file = "torn" /\ jobs = <<>> /\ work = idle /\ posted = {} /\ api = "restoring"
      /\ api' = "putting" /\ UNCHANGED <<rows, jobs, work, posted, erase>>
  BY DEF RestoreEnds, RowsKept, Overlap, table, queue
<1>2. applied' = <<>>
  BY <1>1 DEF RestoreEnds
<1>3. work.step = "idle"
  BY <1>1 DEF idle
<1>4. SameRows
  BY <1>1 DEF SameRows, There
<1>5. KeysInOrder' /\ Converters' = Converters
  BY <1>4, RowsInPlace
<1>6. JobsInOrder' /\ LaterInOrder' /\ EndsAsItShould'
  BY <1>1 DEF InPlace, JobsInOrder, LaterInOrder, EndsAsItShould, There
<1>7. WorkInOrder'
  BY <1>1, <1>3 DEF WorkInOrder
<1>8. EraseInOrder'
  BY <1>1 DEF EraseInOrder
<1>9. \A x \in Converters' : Ahead(x)'
  BY <1>1, <1>5 DEF InPlace, EraseInOrder, Ahead
<1>10. SoundDone' = {}
  BY <1>9 DEF SoundDone
<1>11. MadeOf(SoundDone)' = {}
  BY <1>10 DEF MadeOf
<1>12. AppliedSoFar'
  BY <1>2, <1>9, <1>11, NothingInOrder DEF AppliedSoFar
<1>13. ResultsInOrder'
  BY <1>1, <1>4, ResultsStay
<1> QED
  BY <1>5, <1>6, <1>7, <1>8, <1>12, <1>13 DEF InPlace

\* The converter that is put again is the first of those that are.
LEMMA PlacedPutAgain ==
  ASSUME RowsAllTyped, InPlace, PutAgain
  PROVE  InPlace'
<1>1. PICK x \in erase.again : /\ \A y \in erase.again : x.id <= y.id
                               /\ jobs' = Append(jobs, [item |-> x, post |-> FALSE])
                               /\ erase' = [erase EXCEPT !.again = @ \ {x}]
  BY DEF PutAgain
<1>2. /\ api = "putting" /\ posted = {}
      /\ UNCHANGED <<rows, applied, work, posted, api>>
  BY DEF PutAgain, InPlace, EraseInOrder, table, disk
<1>3. erase'.again = erase.again \ {x} /\ erase'.gone = erase.gone
  BY <1>1 DEF RowsAllTyped, HandlerTyped
<1>4. /\ x \in Items /\ There(x) /\ x.kind = "converter"
      /\ \A y \in erase.gone : rows[x].made < rows[y].made
      /\ work.step # "idle" => work.made < rows[x].made
      /\ \A i \in DOMAIN jobs : rows[jobs[i].item].made < rows[x].made
  BY MadeIsNumber DEF InPlace, LaterInOrder
<1> DEFINE j == [item |-> x, post |-> FALSE]
<1>5. j \in Jobs /\ j.item = x /\ jobs' = Append(jobs, j)
  BY <1>1, <1>4 DEF Jobs
<1> HIDE DEF j
<1>6. /\ DOMAIN jobs' = DOMAIN jobs \cup {Len(jobs) + 1} /\ jobs'[Len(jobs) + 1] = j
      /\ Len(jobs) + 1 \in Nat
      /\ \A i \in DOMAIN jobs : jobs'[i] = jobs[i] /\ i < Len(jobs) + 1 /\ i \in Nat
      /\ \A y : JobQueued(y)' <=> JobQueued(y) \/ y = x
  BY <1>5, OneMoreJob, MadeIsNumber
<1>7. SameRows
  BY <1>2 DEF SameRows, There
<1>8. KeysInOrder' /\ Converters' = Converters
  BY <1>7, RowsInPlace
<1>9. \A y \in Items : rows[y].made \in Nat
  BY MadeIsNumber
<1>10. \A y \in erase'.again : /\ y \in Items /\ There(y) /\ rows[x].made < rows[y].made
  <2> SUFFICES ASSUME NEW y \in erase.again, y # x
               PROVE  y \in Items /\ There(y) /\ rows[x].made < rows[y].made
    BY <1>3
  <2>1. y \in Items /\ There(y) /\ y.kind = "converter"
    BY MadeIsNumber DEF InPlace, LaterInOrder
  <2>2. x.id # y.id
    BY <1>4, <2>1 DEF Items
  <2>3. x.id < y.id
    BY <1>1, <1>4, <2>1, <2>2 DEF Items
  <2> QED
    BY <1>4, <2>1, <2>3 DEF InPlace, KeysInOrder
<1>11. \A i \in DOMAIN jobs' : jobs'[i] = j \/ (i \in DOMAIN jobs /\ jobs'[i] = jobs[i])
  BY <1>6
<1>12. JobsInOrder'
  <2> SUFFICES ASSUME NEW i \in DOMAIN jobs'
               PROVE  /\ rows[jobs'[i].item] # NoRow
                      /\ jobs'[i].item.kind = "explorer" =>
                           jobs'[i].post /\ rows[jobs'[i].item].status = "delivered"
                      /\ \A k \in DOMAIN jobs' :
                           i < k => rows[jobs'[i].item].made < rows[jobs'[k].item].made
    BY <1>2 DEF JobsInOrder, There
  <2>1. CASE i = Len(jobs) + 1
    <3>1. ASSUME NEW k \in DOMAIN jobs'  PROVE ~(i < k)
      BY <1>6, <2>1, <3>1
    <3> QED
      BY <1>4, <1>5, <1>6, <2>1, <3>1 DEF There
  <2>2. CASE i \in DOMAIN jobs
    <3>1. ASSUME NEW k \in DOMAIN jobs', i < k
          PROVE  rows[jobs'[i].item].made < rows[jobs'[k].item].made
      <4>1. CASE k = Len(jobs) + 1
        BY <1>4, <1>5, <1>6, <2>2, <4>1
      <4>2. CASE k \in DOMAIN jobs
        BY <1>6, <2>2, <3>1, <4>2 DEF InPlace, JobsInOrder
      <4> QED
        BY <1>6, <4>1, <4>2
    <3> QED
      BY <1>6, <2>2, <3>1 DEF InPlace, JobsInOrder, There
  <2> QED
    BY <1>6, <2>1, <2>2
<1>13. WorkInOrder'
  BY <1>2, <1>4, <1>5, <1>11 DEF InPlace, WorkInOrder, There
<1>14. LaterInOrder'
  <2>1. ASSUME NEW y \in posted' \cup erase'.again \cup erase'.gone
        PROVE  /\ There(y)
               /\ work.step # "idle" => work.made < rows[y].made
               /\ \A i \in DOMAIN jobs' : rows[jobs'[i].item].made < rows[y].made
    <3>1. /\ There(y) /\ rows[x].made < rows[y].made
          /\ work.step # "idle" => work.made < rows[y].made
          /\ \A i \in DOMAIN jobs : rows[jobs[i].item].made < rows[y].made
      BY <1>2, <1>3, <1>4, <1>10, <2>1 DEF InPlace, LaterInOrder
    <3> QED
      BY <1>5, <1>11, <3>1
  <2>2. \A y \in erase'.again : /\ y.kind = "converter"
                                /\ \A z \in erase'.gone : rows[y].made < rows[z].made
    BY <1>3 DEF InPlace, LaterInOrder
  <2>3. \A y \in erase'.gone, z \in Items :
          There(z) /\ rows[y].made < rows[z].made => z \in erase'.gone
    BY <1>3 DEF InPlace, LaterInOrder
  <2> QED
    BY <1>2, <2>1, <2>2, <2>3 DEF LaterInOrder, There
<1>15. EraseInOrder'
  BY <1>2 DEF EraseInOrder
<1>16. EndsAsItShould'
  BY <1>2 DEF InPlace, EndsAsItShould
<1>17. \A y \in Items : Ahead(y)' <=> Ahead(y)
  BY <1>2, <1>3, <1>6 DEF Ahead
<1>18. AppliedSoFar'
  BY <1>2, <1>7, <1>17, AppliedStays
<1>19. ResultsInOrder'
  BY <1>2, <1>7, ResultsStay
<1> QED
  BY <1>8, <1>12, <1>13, <1>14, <1>15, <1>16, <1>18, <1>19 DEF InPlace

\* Rows that stay keep their numbers.
LEMMA NumbersSame ==
  \A S : (\A x \in S : rows'[x] = rows[x]) => {rows'[x].made : x \in S} = {rows[x].made : x \in S}
  OBVIOUS

\* Rows go, from some row on or one explorer: what came before them is what it
\* was, and nobody works on them.
LEMMA PlacedRowsGo ==
  ASSUME RowsAllTyped, InPlace, NEW gone \in SUBSET Items,
         rows' = [x \in Items |-> IF x \in gone THEN NoRow ELSE rows[x]],
         UNCHANGED <<applied, jobs, work, posted>>,
         \A x \in gone : /\ x \notin posted \cup erase.again /\ ~JobQueued(x)
                         /\ ~(work.item = x /\ work.step # "idle"),
         erase.gone \subseteq gone,
         \A x \in gone, y \in Items :
           There(y) /\ rows[x].made < rows[y].made => y \in gone \/ x.kind = "explorer",
         \A x \in gone : x.kind = "converter" => Ahead(x),
         api # "restoring", api' = "idle", erase' = nothing, erase.again = {}
  PROVE  InPlace'
<1>1. /\ \A x \in gone : rows'[x] = NoRow
      /\ \A x \in Items : x \notin gone => rows'[x] = rows[x]
  OBVIOUS
<1>2. /\ NoRow.status = "absent" /\ erase'.again = {} /\ erase'.gone = {}
  BY DEF NoRow, nothing
<1>3. /\ \A i \in DOMAIN jobs : jobs[i].item \in Items /\ jobs[i].item \notin gone
      /\ work.item \in Items /\ (work.step # "idle" => work.item \notin gone)
      /\ \A x \in posted : x \in Items /\ x \notin gone
  BY MadeIsNumber DEF JobQueued
<1>4. KeysInOrder'
  BY <1>1 DEF InPlace, KeysInOrder, There
<1>5. JobsInOrder'
  BY <1>1, <1>3 DEF InPlace, JobsInOrder, There
<1>6. WorkInOrder'
  BY <1>1, <1>3 DEF InPlace, WorkInOrder, There
<1>7. LaterInOrder'
  BY <1>1, <1>2, <1>3 DEF InPlace, LaterInOrder, There
<1>8. EraseInOrder'
  BY DEF EraseInOrder
<1>9. EndsAsItShould'
  BY <1>1, <1>2 DEF InPlace, EndsAsItShould
<1>10. \A x \in Items : /\ x \notin gone => (Ahead(x)' <=> Ahead(x))
                        /\ x \in gone => ~Ahead(x)'
  BY <1>2 DEF Ahead, JobQueued
<1>11. \A x \in Items : x \in Converters' <=> x \in Converters /\ x \notin gone
  BY <1>1 DEF Converters, There
<1>12. Converters' \subseteq Items /\ \A x \in Converters : x \in Items /\ x.kind = "converter"
  BY DEF Converters
<1>13. SoundDone' = SoundDone /\ \A x \in SoundDone : x \in Items /\ x \notin gone
  BY <1>1, <1>10, <1>11, <1>12 DEF SoundDone
<1>14. MadeOf(SoundDone)' = MadeOf(SoundDone)
  BY <1>1, <1>13 DEF MadeOf
<1>15. AppliedSoFar'
  <2>1. \A x \in Converters', y \in Items :
          ~Ahead(x)' /\ Ahead(y)' => rows'[x].made < rows'[y].made
    BY <1>1, <1>10, <1>11, <1>12 DEF InPlace, AppliedSoFar
  <2>2. InOrder(applied, MadeOf(SoundDone))
    BY DEF InPlace, AppliedSoFar
  <2> QED
    BY <1>14, <2>1, <2>2 DEF AppliedSoFar
<1>16. ResultsInOrder'
  <2> SUFFICES ASSUME NEW x \in Items, x.kind = "explorer", rows[x]'.status = "finished"
               PROVE  InOrder(rows[x].result, MadeOf(SoundBefore(rows[x].made)))'
    BY DEF ResultsInOrder
  <2>1. x \notin gone /\ rows'[x] = rows[x] /\ rows[x].status = "finished" /\ There(x)
    <3>1. x \notin gone
      BY <1>1, <1>2
    <3> QED
      BY <1>1, <1>2, <3>1 DEF There
  <2>2. PICK n : n = rows[x].made
    OBVIOUS
  <2>3. \A y \in Converters : rows[y].made < n => y \notin gone
    <3> SUFFICES ASSUME NEW y \in Converters, rows[y].made < rows[x].made, y \in gone  PROVE FALSE
      BY <2>2
    <3>1. x \in gone \/ y.kind = "explorer"
      BY <2>1
    <3> QED
      BY <1>12, <2>1, <3>1
  <2>4. SoundBefore(n)' = SoundBefore(n)
    BY <1>1, <1>11, <1>12, <2>3 DEF SoundBefore
  <2>5. MadeOf(SoundBefore(n))' = MadeOf(SoundBefore(n))
    <3>1. \A y \in SoundBefore(n) : rows'[y] = rows[y]
      BY <1>1, <1>12, <2>3 DEF SoundBefore
    <3>2. PICK S : S = SoundBefore(n)
      OBVIOUS
    <3>3. {rows'[y].made : y \in S} = {rows[y].made : y \in S}
      BY <3>1, <3>2, NumbersSame
    <3> QED
      BY <2>4, <3>2, <3>3 DEF MadeOf
  <2>6. InOrder(rows[x].result, MadeOf(SoundBefore(n)))
    BY <2>1, <2>2 DEF InPlace, ResultsInOrder
  <2>7. rows'[x].made = n
    BY <2>1, <2>2
  <2> QED
    BY <2>1, <2>5, <2>6, <2>7
<1> QED
  BY <1>4, <1>5, <1>6, <1>7, <1>8, <1>9, <1>15, <1>16 DEF InPlace

\* The rows from one on go, and the dataset has had the others.
LEMMA PlacedDeleteCommits ==
  ASSUME RowsAllTyped, InPlace, DeleteCommits
  PROVE  InPlace'
<1>1. /\ api = "putting" /\ erase.again = {} /\ posted = {}
      /\ rows' = [x \in Items |-> IF x \in erase.gone THEN NoRow ELSE rows[x]]
      /\ api' = "idle" /\ erase' = nothing
      /\ UNCHANGED <<applied, jobs, work, posted>>
  BY DEF DeleteCommits, InPlace, EraseInOrder, disk, queue
<1>2. PICK gone : gone = erase.gone
  OBVIOUS
<1>3. gone \in SUBSET Items /\ \A x \in Items : rows[x].made \in Nat
  BY <1>2, MadeIsNumber
<1>4. \A x \in gone : ~JobQueued(x) /\ ~(work.item = x /\ work.step # "idle")
  BY <1>2, <1>3, MadeIsNumber DEF InPlace, LaterInOrder, WorkInOrder, JobQueued
<1>5. /\ \A x \in gone : Ahead(x)
      /\ \A x \in gone, y \in Items : There(y) /\ rows[x].made < rows[y].made => y \in gone
  BY <1>2 DEF Ahead, InPlace, LaterInOrder
<1> QED
  BY <1>1, <1>2, <1>3, <1>4, <1>5, PlacedRowsGo

\* An explorer that has a button has no job.
LEMMA PlacedDeleteExplorer ==
  ASSUME RowsAllTyped, InPlace, NEW x \in Items, DeleteExplorer(x)
  PROVE  InPlace'
<1>1. /\ api = "idle" /\ x.kind = "explorer" /\ HasButton(x) /\ erase = nothing
      /\ rows' = [rows EXCEPT ![x] = NoRow]
      /\ UNCHANGED <<applied, jobs, work, posted, api, erase>>
  BY DEF DeleteExplorer, InPlace, EraseInOrder, disk, queue, handler
<1>2. rows' = [y \in Items |-> IF y \in {x} THEN NoRow ELSE rows[y]]
  BY <1>1 DEF RowsAllTyped, RowsTyped
<1>3. x \notin posted /\ ~JobQueued(x) /\ ~(work.item = x /\ work.step # "idle")
  BY <1>1 DEF HasButton, JobQueued, InPlace, JobsInOrder, WorkInOrder
<1>4. erase.again = {} /\ erase.gone = {}
  BY <1>1 DEF nothing
<1> QED
  BY <1>1, <1>2, <1>3, <1>4, PlacedRowsGo

\* The job in hand is the first of what is ahead, so the dataset is that of its
\* row.
LEMMA BehindWork ==
  ASSUME RowsAllTyped, InPlace, work.step # "idle"
  PROVE  /\ work.item \in Items /\ There(work.item) /\ work.made = rows[work.item].made
         /\ \A y \in Items : Ahead(y) => y = work.item \/ work.made < rows[y].made
         /\ work.item \notin posted \cup erase.again \cup erase.gone /\ ~JobQueued(work.item)
<1>1. \A y \in Items : rows[y].made \in Nat
  BY MadeIsNumber
<1>2. work.item \in Items /\ There(work.item) /\ work.made = rows[work.item].made
  BY MadeIsNumber DEF InPlace, WorkInOrder
<1>3. \A y \in posted \cup erase.again \cup erase.gone : work.made < rows[y].made
  BY DEF InPlace, LaterInOrder
<1>4. \A y : JobQueued(y) => work.made < rows[y].made
  BY DEF InPlace, WorkInOrder, JobQueued
<1>5. ~(work.made < rows[work.item].made)
  BY <1>1, <1>2
<1>6. \A y \in Items : Ahead(y) => y = work.item \/ work.made < rows[y].made
  BY <1>3, <1>4 DEF Ahead
<1>7. work.item \notin posted \cup erase.again \cup erase.gone /\ ~JobQueued(work.item)
  BY <1>3, <1>4, <1>5
<1> QED
  BY <1>2, <1>6, <1>7

\* While it has not saved, what the dataset has is the sound converters before it.
LEMMA DoneIsBefore ==
  ASSUME RowsAllTyped, InPlace, work.step \in {"started", "loaded"}
  PROVE  /\ SoundDone = SoundBefore(work.made) /\ work.made \in 1..made
         /\ \A m \in MadeOf(SoundDone) : m < work.made
<1>1. work.step # "idle"
  OBVIOUS
<1>2. /\ work.item \in Items /\ work.made = rows[work.item].made
      /\ \A y \in Items : Ahead(y) => y = work.item \/ work.made < rows[y].made
  BY <1>1, BehindWork
<1>3. Ahead(work.item)
  BY DEF Ahead
<1>4. \A y \in Items : rows[y].made \in Nat
  BY MadeIsNumber
<1>5. \A y \in Converters : y \in Items /\ (~Ahead(y) <=> rows[y].made < work.made)
  <2> SUFFICES ASSUME NEW y \in Converters  PROVE ~Ahead(y) <=> rows[y].made < work.made
    BY DEF Converters
  <2>1. y \in Items
    BY DEF Converters
  <2>2. ~Ahead(y) => rows[y].made < work.made
    BY <1>2, <1>3 DEF InPlace, AppliedSoFar
  <2>3. Ahead(y) => ~(rows[y].made < work.made)
    BY <1>2, <1>4, <2>1
  <2> QED
    BY <2>2, <2>3
<1>6. SoundDone = SoundBefore(work.made)
  BY <1>5 DEF SoundDone, SoundBefore
<1>7. \A m \in MadeOf(SoundDone) : m < work.made
  BY <1>6 DEF MadeOf, SoundBefore
<1>8. work.made \in 1..made
  <2>1. work.made \in 0..made /\ work.made # 0 /\ made \in Nat
    BY <1>1, MadeIsNumber DEF RowsAllTyped, WorkTyped
  <2> QED
    BY <2>1
<1> QED
  BY <1>6, <1>7, <1>8

\* The first job is taken.
LEMMA PlacedTakeJob ==
  ASSUME RowsAllTyped, InPlace, TakeJob
  PROVE  InPlace'
<1>1. /\ jobs # <<>> /\ work = idle /\ jobs' = Tail(jobs)
      /\ UNCHANGED <<applied, posted, api, erase>>
  BY DEF TakeJob, disk, handler
<1>2. PICK x : x = Head(jobs).item
  OBVIOUS
<1>3. /\ 1 \in DOMAIN jobs /\ Head(jobs) = jobs[1]
      /\ \A i \in DOMAIN jobs' : i + 1 \in DOMAIN jobs /\ jobs'[i] = jobs[i + 1] /\ i \in Nat /\ 1 < i + 1
      /\ \A y : JobQueued(y) <=> y = x \/ JobQueued(y)'
  BY <1>1, <1>2, OneJobLess, MadeIsNumber
<1>4. /\ x \in Items /\ There(x) /\ (x.kind = "explorer" => jobs[1].post)
      /\ \A i \in DOMAIN jobs' : rows[x].made < rows[jobs'[i].item].made
  BY <1>2, <1>3, MadeIsNumber DEF InPlace, JobsInOrder
<1>5. /\ rows' = [rows EXCEPT ![x].status = "started"]
      /\ work' = [item |-> x, step |-> "started", post |-> jobs[1].post, made |-> rows[x].made,
                  seen |-> <<>>]
  BY <1>2, <1>3, <1>4 DEF TakeJob
<1>6. /\ work'.item = x /\ work'.step = "started" /\ work'.post = jobs[1].post
      /\ work'.made = rows[x].made /\ work.step = "idle"
  BY <1>1, <1>5 DEF idle
<1>7. /\ SameRows /\ rows'[x].status = "started" /\ rows'[x].result = rows[x].result
      /\ \A y \in Items : y # x => rows'[y] = rows[y]
  BY <1>4, <1>5, StatusSame
<1>8. /\ KeysInOrder' /\ Converters' = Converters
      /\ \A y \in Items : rows'[y].made = rows[y].made /\ rows'[y].sound = rows[y].sound
      /\ \A y \in Items : rows'[y] # NoRow <=> rows[y] # NoRow
  BY <1>7, RowsInPlace
<1>9. \A y \in Items : rows[y].made \in Nat
  BY MadeIsNumber
<1>10. \A i \in DOMAIN jobs' : jobs'[i].item \in Items /\ jobs'[i].item # x
  BY <1>3, <1>4, <1>9, MadeIsNumber
<1>11. JobsInOrder'
  <2> SUFFICES ASSUME NEW i \in DOMAIN jobs'
               PROVE  /\ rows'[jobs'[i].item] # NoRow
                      /\ jobs'[i].item.kind = "explorer" =>
                           jobs'[i].post /\ rows'[jobs'[i].item].status = "delivered"
                      /\ \A k \in DOMAIN jobs' :
                           i < k => rows'[jobs'[i].item].made < rows'[jobs'[k].item].made
    BY DEF JobsInOrder, There
  <2>1. i + 1 \in DOMAIN jobs /\ jobs'[i] = jobs[i + 1] /\ i \in Nat
    BY <1>3
  <2>2. /\ There(jobs[i + 1].item)
        /\ jobs[i + 1].item.kind = "explorer" =>
             jobs[i + 1].post /\ rows[jobs[i + 1].item].status = "delivered"
        /\ \A k \in DOMAIN jobs : i + 1 < k => rows[jobs[i + 1].item].made < rows[jobs[k].item].made
    BY <2>1 DEF InPlace, JobsInOrder
  <2>3. rows'[jobs'[i].item] = rows[jobs[i + 1].item]
    BY <1>7, <1>10, <2>1
  <2>4. ASSUME NEW k \in DOMAIN jobs', i < k
        PROVE  rows'[jobs'[i].item].made < rows'[jobs'[k].item].made
    <3>1. k + 1 \in DOMAIN jobs /\ jobs'[k] = jobs[k + 1] /\ i + 1 < k + 1
      BY <1>3, <2>1, <2>4
    <3>2. rows'[jobs'[k].item] = rows[jobs[k + 1].item]
      BY <1>7, <1>10, <3>1
    <3> QED
      BY <2>2, <2>3, <3>1, <3>2
  <2> QED
    BY <2>1, <2>2, <2>3, <2>4 DEF There
<1>12. WorkInOrder'
  <2>1. rows'[work'.item] # NoRow /\ work'.made = rows'[work'.item].made
    BY <1>4, <1>6, <1>8 DEF There
  <2>2. \A i \in DOMAIN jobs' : work'.made < rows'[jobs'[i].item].made
    BY <1>4, <1>6, <1>8, <1>10
  <2> QED
    BY <1>4, <1>6, <2>1, <2>2 DEF WorkInOrder, There
<1>13. LaterInOrder'
  <2>1. ASSUME NEW y \in posted \cup erase.again \cup erase.gone
        PROVE  /\ There(y)' /\ work'.made < rows'[y].made
               /\ \A i \in DOMAIN jobs' : rows'[jobs'[i].item].made < rows'[y].made
    <3>1. y \in Items /\ There(y) /\ \A i \in DOMAIN jobs : rows[jobs[i].item].made < rows[y].made
      BY MadeIsNumber DEF InPlace, LaterInOrder
    <3>2. There(y)' /\ rows'[y].made = rows[y].made
      BY <1>7, <3>1 DEF SameRows
    <3>3. rows[x].made < rows[y].made
      BY <1>2, <1>3, <3>1
    <3>4. \A i \in DOMAIN jobs' : rows'[jobs'[i].item].made < rows'[y].made
      BY <1>3, <1>8, <1>10, <3>1, <3>2
    <3> QED
      BY <1>6, <3>2, <3>3, <3>4
  <2>2. \A y \in erase.again \cup erase.gone : y \in Items
    BY MadeIsNumber
  <2> QED
    BY <1>1, <1>7, <1>8, <2>1, <2>2 DEF InPlace, LaterInOrder, SameRows
<1>14. EraseInOrder'
  BY <1>1, <1>8 DEF InPlace, EraseInOrder
<1>15. EndsAsItShould'
  BY <1>7, <1>8 DEF InPlace, EndsAsItShould
<1>16. \A y \in Items : Ahead(y)' <=> Ahead(y)
  BY <1>1, <1>3, <1>6 DEF Ahead
<1>17. AppliedSoFar'
  BY <1>1, <1>7, <1>16, AppliedStays
<1>18. ResultsInOrder'
  BY <1>7, ResultsStay
<1> QED
  BY <1>8, <1>11, <1>12, <1>13, <1>14, <1>15, <1>17, <1>18 DEF InPlace

\* The file is read as it is: nobody overwrites it while a job is in hand.
LEMMA PlacedLoadFile ==
  ASSUME RowsAllTyped, InPlace, RowsKept, Careful, exists, LoadFile
  PROVE  InPlace'
<1>1. /\ work.step = "started"
      /\ UNCHANGED <<rows, applied, jobs, posted, api, erase>>
  BY DEF LoadFile, table, disk, handler
<1>2. file = "whole"
  BY <1>1 DEF RowsKept, Overlap, idle
<1>3. work' = [work EXCEPT !.step = "loaded", !.seen = applied]
  BY <1>2 DEF LoadFile
<1>4. /\ work'.item = work.item /\ work'.post = work.post /\ work'.made = work.made
      /\ work'.step = "loaded" /\ work'.seen = applied
  BY <1>3 DEF RowsAllTyped, WorkTyped
<1>5. SameRows
  BY <1>1 DEF SameRows, There
<1>6. KeysInOrder' /\ Converters' = Converters
  BY <1>5, RowsInPlace
<1>7. JobsInOrder' /\ EndsAsItShould'
  BY <1>1 DEF InPlace, JobsInOrder, EndsAsItShould, There
<1>8. LaterInOrder'
  BY <1>1, <1>4 DEF InPlace, LaterInOrder, There
<1>9. WorkInOrder'
  BY <1>1, <1>4 DEF InPlace, WorkInOrder, There
<1>10. EraseInOrder'
  BY <1>1, <1>6 DEF InPlace, EraseInOrder
<1>11. \A y \in Items : Ahead(y)' <=> Ahead(y)
  BY <1>1, <1>4 DEF Ahead, JobQueued
<1>12. AppliedSoFar'
  BY <1>1, <1>5, <1>11, AppliedStays
<1>13. ResultsInOrder'
  BY <1>1, <1>5, ResultsStay
<1> QED
  BY <1>6, <1>7, <1>8, <1>9, <1>10, <1>12, <1>13 DEF InPlace

\* A sound converter is added to the dataset, behind those in it.
LEMMA PlacedConvertSaves ==
  ASSUME RowsAllTyped, InPlace, RowsKept, Careful, ConvertSaves
  PROVE  InPlace'
<1>1. /\ work.step = "loaded" /\ work.item.kind = "converter"
      /\ applied' = Append(work.seen, work.made)
      /\ UNCHANGED <<rows, jobs, posted, api, erase>>
      /\ work' = [work EXCEPT !.step = "saved"]
  BY DEF ConvertSaves, table, handler
<1>2. /\ work'.item = work.item /\ work'.post = work.post /\ work'.made = work.made
      /\ work'.step = "saved"
  BY <1>1 DEF RowsAllTyped, WorkTyped
<1>3. api # "restoring" /\ work.step # "idle"
  BY <1>1 DEF RowsKept, Overlap, idle
<1>4. /\ work.item \in Items /\ There(work.item) /\ work.made = rows[work.item].made
      /\ \A y \in Items : Ahead(y) => y = work.item \/ work.made < rows[y].made
      /\ work.item \notin posted \cup erase.again \cup erase.gone /\ ~JobQueued(work.item)
  BY <1>3, BehindWork
<1>5. rows[work.item].sound /\ work.seen = applied
  BY <1>1, <1>4 DEF ConvertSaves, Unsound, InPlace, WorkInOrder
<1>6. SameRows
  BY <1>1 DEF SameRows, There
<1>7. KeysInOrder' /\ Converters' = Converters
  BY <1>6, RowsInPlace
<1>8. JobsInOrder' /\ EndsAsItShould'
  BY <1>1 DEF InPlace, JobsInOrder, EndsAsItShould, There
<1>9. LaterInOrder'
  BY <1>1, <1>2 DEF InPlace, LaterInOrder, There
<1>10. WorkInOrder'
  BY <1>1, <1>2, <1>5 DEF InPlace, WorkInOrder, There
<1>11. EraseInOrder'
  BY <1>1, <1>7 DEF InPlace, EraseInOrder
<1>12. \A y \in Items : Ahead(y)' <=> Ahead(y) /\ y # work.item
  BY <1>1, <1>2, <1>4 DEF Ahead, JobQueued
<1>13. Ahead(work.item) /\ work.item \in Converters
  BY <1>1, <1>4 DEF Ahead, Converters
<1>14. SoundDone' = SoundDone \cup {work.item}
  BY <1>1, <1>5, <1>7, <1>12, <1>13 DEF SoundDone, Converters
<1>15. MadeOf(SoundDone)' = MadeOf(SoundDone) \cup {work.made}
  BY <1>1, <1>4, <1>14 DEF MadeOf
<1>16. InOrder(Append(applied, work.made), MadeOf(SoundDone) \cup {work.made})
  <2>1. work.made \in 1..made /\ \A m \in MadeOf(SoundDone) : m < work.made
    BY <1>1, DoneIsBefore
  <2>2. InOrder(applied, MadeOf(SoundDone)) /\ applied \in Seq(1..made) /\ made \in Nat
    BY <1>3, MadeIsNumber DEF InPlace, AppliedSoFar, RowsAllTyped, DiskTyped
  <2> QED
    BY <2>1, <2>2, OneMoreInOrder
<1>17. AppliedSoFar'
  <2>1. \A x \in Converters', y \in Items :
          ~Ahead(x)' /\ Ahead(y)' => rows'[x].made < rows'[y].made
    BY <1>1, <1>4, <1>7, <1>12 DEF InPlace, AppliedSoFar, Converters
  <2> QED
    BY <1>1, <1>5, <1>15, <1>16, <2>1 DEF AppliedSoFar
<1>18. ResultsInOrder'
  BY <1>1, <1>6, ResultsStay
<1> QED
  BY <1>7, <1>8, <1>9, <1>10, <1>11, <1>17, <1>18 DEF InPlace

\* The consumer lets go of a row that adds nothing more to the dataset.
LEMMA PlacedLetGo ==
  ASSUME RowsAllTyped, InPlace, work.step # "idle", work' = idle, SameRows,
         \A x \in Items : x # work.item => rows'[x] = rows[x],
         UNCHANGED <<applied, jobs, posted, api, erase>>,
         work.step = "saved" \/ work.item.kind = "explorer" \/ ~rows[work.item].sound,
         EndsAsItShould', ResultsInOrder'
  PROVE  InPlace'
<1>1. /\ work.item \in Items /\ There(work.item) /\ work.made = rows[work.item].made
      /\ \A y \in Items : Ahead(y) => y = work.item \/ work.made < rows[y].made
      /\ work.item \notin posted \cup erase.again \cup erase.gone /\ ~JobQueued(work.item)
  BY BehindWork
<1>2. work'.step = "idle"
  BY DEF idle
<1>3. /\ KeysInOrder' /\ Converters' = Converters
      /\ \A y \in Items : rows'[y].made = rows[y].made /\ rows'[y].sound = rows[y].sound
      /\ \A y \in Items : rows'[y] # NoRow <=> rows[y] # NoRow
  BY RowsInPlace
<1>4. \A i \in DOMAIN jobs : jobs[i].item \in Items /\ rows'[jobs[i].item] = rows[jobs[i].item]
  BY <1>1, MadeIsNumber DEF JobQueued
<1>5. JobsInOrder'
  BY <1>4 DEF InPlace, JobsInOrder, There
<1>6. \A x \in posted \cup erase.again \cup erase.gone : x \in Items /\ rows'[x] = rows[x]
  BY <1>1, MadeIsNumber
<1>7. LaterInOrder'
  <2>1. \A x \in posted \cup erase.again \cup erase.gone :
          /\ There(x)' /\ \A i \in DOMAIN jobs : rows'[jobs[i].item].made < rows'[x].made
    BY <1>4, <1>6 DEF InPlace, LaterInOrder, There
  <2>2. \A x \in erase.again : x.kind = "converter" /\ \A y \in erase.gone : rows'[x].made < rows'[y].made
    BY <1>6 DEF InPlace, LaterInOrder
  <2>3. \A x \in erase.gone, y \in Items :
          There(y)' /\ rows'[x].made < rows'[y].made => y \in erase.gone
    BY <1>3, <1>6 DEF InPlace, LaterInOrder, There
  <2> QED
    BY <1>2, <2>1, <2>2, <2>3 DEF LaterInOrder
<1>8. WorkInOrder' /\ EraseInOrder'
  BY <1>2, <1>3 DEF WorkInOrder, InPlace, EraseInOrder
<1>9. \A y \in Items : Ahead(y)' <=> Ahead(y) /\ y # work.item
  BY <1>1, <1>2 DEF Ahead, JobQueued, InPlace, WorkInOrder
<1>10. \A y \in Converters : y \in Items /\ y.kind = "converter"
  BY DEF Converters
<1>11. work.item \in SoundDone' <=> work.item \in SoundDone
  <2>1. CASE work.step = "saved"
    BY <1>1, <1>3, <1>9, <2>1 DEF SoundDone, Ahead
  <2>2. CASE work.item.kind = "explorer" \/ ~rows[work.item].sound
    BY <1>1, <1>3, <1>10, <2>2 DEF SoundDone
  <2> QED
    BY <2>1, <2>2
<1>12. SoundDone' = SoundDone /\ SoundDone \subseteq Items
  BY <1>3, <1>9, <1>10, <1>11 DEF SoundDone
<1>13. MadeOf(SoundDone)' = MadeOf(SoundDone)
  BY <1>3, <1>12 DEF MadeOf
<1>14. AppliedSoFar'
  <2>1. \A x \in Converters', y \in Items :
          ~Ahead(x)' /\ Ahead(y)' => rows'[x].made < rows'[y].made
    BY <1>1, <1>3, <1>9, <1>10 DEF InPlace, AppliedSoFar
  <2>2. api # "restoring" => InOrder(applied, MadeOf(SoundDone))
    BY DEF InPlace, AppliedSoFar
  <2> QED
    BY <1>13, <2>1, <2>2 DEF AppliedSoFar
<1> QED
  BY <1>3, <1>5, <1>7, <1>8, <1>14 DEF InPlace

\* A job fails on a row that is not sound.
LEMMA PlacedJobFails ==
  ASSUME RowsAllTyped, InPlace, JobFails
  PROVE  InPlace'
<1>1. /\ work.step = "loaded" /\ There(work.item) /\ ~rows[work.item].sound /\ work.item \in Items
      /\ rows' = [rows EXCEPT ![work.item].status = "failed"] /\ work' = idle
      /\ UNCHANGED <<applied, jobs, posted, api, erase>>
  BY MadeIsNumber DEF JobFails, Unsound, disk, handler
<1>2. /\ SameRows /\ rows'[work.item].status = "failed"
      /\ \A y \in Items : y # work.item => rows'[y] = rows[y]
  BY <1>1, StatusSame
<1>3. \A y \in Items : rows'[y].sound = rows[y].sound
  BY <1>2, RowsInPlace
<1>4. EndsAsItShould'
  BY <1>1, <1>2, <1>3 DEF InPlace, EndsAsItShould
<1>5. ResultsInOrder'
  BY <1>1, <1>2, ResultsStay
<1> QED
  BY <1>1, <1>2, <1>4, <1>5, PlacedLetGo

\* The row of a job that ends well.
LEMMA EndedRow ==
  ASSUME RowsAllTyped, There(work.item), JobEnds
  PROVE  /\ rows'[work.item].made = rows[work.item].made
         /\ rows'[work.item].sound = rows[work.item].sound
         /\ rows'[work.item].status = "finished"
         /\ rows'[work.item].result =
              IF work.step = "loaded" THEN work.seen ELSE rows[work.item].result
         /\ \A y \in Items : y # work.item => rows'[y] = rows[y]
<1>1. PICK x \in Items : x = work.item
  BY MadeIsNumber
<1>2. PICK result : result = IF work.step = "loaded" THEN work.seen ELSE rows[x].result
  OBVIOUS
<1> DEFINE marked == [rows EXCEPT ![x].status = "finished"]
<1>3. rows \in [Items -> Row(made)]
  BY DEF RowsAllTyped, RowsTyped
<1>4. marked[x] = [made |-> rows[x].made, status |-> "finished", sound |-> rows[x].sound,
                   result |-> rows[x].result]
  BY <1>3 DEF Row
<1>5. rows' = [marked EXCEPT ![x].result = IF work.step = "loaded" THEN work.seen ELSE @]
  BY <1>1 DEF JobEnds
<1>6. DOMAIN marked = Items /\ \A y \in Items : y # x => marked[y] = rows[y]
  BY <1>3
<1> HIDE DEF marked
<1>7. rows'[x] = [marked[x] EXCEPT !.result = result] /\ \A y \in Items : y # x => rows'[y] = marked[y]
  BY <1>2, <1>4, <1>5, <1>6
<1>8. rows'[x] = [made |-> rows[x].made, status |-> "finished", sound |-> rows[x].sound,
                  result |-> result]
  BY <1>4, <1>7
<1> QED
  BY <1>1, <1>2, <1>6, <1>7, <1>8

\* The result of an explorer is the dataset, which has what is before it.
LEMMA PlacedJobEnds ==
  ASSUME RowsAllTyped, InPlace, RowsKept, Careful, JobEnds
  PROVE  InPlace'
<1>1. /\ work.step \in {"saved", "loaded"} /\ work' = idle
      /\ work.step = "loaded" => work.item.kind = "explorer" /\ ~Unsound
      /\ UNCHANGED <<applied, jobs, posted, api, erase>>
  BY DEF JobEnds, disk, handler
<1>2. /\ There(work.item) /\ work.item \in Items /\ work.made = rows[work.item].made
      /\ work.step = "saved" => work.item.kind = "converter" /\ rows[work.item].sound
      /\ work.step = "loaded" => work.seen = applied
  BY <1>1, MadeIsNumber DEF InPlace, WorkInOrder
<1>3. rows[work.item].sound
  BY <1>1, <1>2 DEF Unsound
<1>4. /\ rows'[work.item].made = rows[work.item].made
      /\ rows'[work.item].sound = rows[work.item].sound
      /\ rows'[work.item].status = "finished"
      /\ work.step = "loaded" => rows'[work.item].result = applied
      /\ \A y \in Items : y # work.item => rows'[y] = rows[y]
  BY <1>2, EndedRow
<1>5. SameRows
  <2>1. rows'[work.item] # NoRow
    BY <1>4 DEF NoRow
  <2> QED
    BY <1>2, <1>4, <2>1 DEF SameRows, There
<1>6. EndsAsItShould'
  BY <1>3, <1>4 DEF InPlace, EndsAsItShould
<1>7. ResultsInOrder'
  <2>1. CASE work.step = "saved"
    BY <1>2, <1>4, <1>5, <2>1, ResultsStay
  <2>2. CASE work.step = "loaded"
    <3> SUFFICES ASSUME NEW x \in Items, x.kind = "explorer", rows[x]'.status = "finished"
                 PROVE  InOrder(rows[x].result, MadeOf(SoundBefore(rows[x].made)))'
      BY DEF ResultsInOrder
    <3>1. PICK n : n = rows[x].made
      OBVIOUS
    <3>2. rows'[x].made = n
      BY <1>5, <3>1, RowsInPlace
    <3>3. SoundBefore(n)' = SoundBefore(n) /\ SoundBefore(n) \in SUBSET Converters
      BY <1>5, SameRowsSame
    <3>4. MadeOf(SoundBefore(n))' = MadeOf(SoundBefore(n))
      BY <1>5, <3>3, SameRowsSame DEF MadeOf
    <3>5. InOrder(rows'[x].result, MadeOf(SoundBefore(n)))
      <4>1. CASE x = work.item
        <5>1. SoundDone = SoundBefore(work.made)
          BY <2>2, DoneIsBefore
        <5>2. work.made = n
          BY <1>2, <3>1, <4>1
        <5>3. api # "restoring"
          BY <2>2 DEF RowsKept, Overlap, idle
        <5>4. InOrder(applied, MadeOf(SoundBefore(n)))
          BY <5>1, <5>2, <5>3 DEF InPlace, AppliedSoFar
        <5> QED
          BY <1>4, <2>2, <4>1, <5>4
      <4>2. CASE x # work.item
        BY <1>4, <3>1, <4>2 DEF InPlace, ResultsInOrder
      <4> QED
        BY <4>1, <4>2
    <3> QED
      BY <3>2, <3>4, <3>5
  <2> QED
    BY <1>1, <2>1, <2>2
<1>8. work.step # "idle" /\ (work.step = "saved" \/ work.item.kind = "explorer")
  BY <1>1
<1> QED
  BY <1>1, <1>4, <1>5, <1>6, <1>7, <1>8, PlacedLetGo

-----------------------------------------------------------------------------
\* There is nothing in the initial state to be out of order.
LEMMA PlacedInit == NotebookInit => ReplayInv
<1> SUFFICES ASSUME NotebookInit  PROVE InPlace
  BY DEF NotebookInit, ReplayInv
<1>1. /\ NoRow.status = "absent" /\ idle.step = "idle" /\ \A x \in Items : rows[x] = NoRow
  BY DEF NotebookInit, NoRow, idle
<1>2. Converters = {}
  BY <1>1 DEF Converters, There
<1>3. /\ jobs = <<>> /\ work = idle /\ posted = {} /\ api = "idle" /\ erase = nothing
      /\ applied = <<>>
  BY DEF NotebookInit
<1>4. KeysInOrder /\ JobsInOrder /\ WorkInOrder /\ EraseInOrder
  BY <1>1, <1>3 DEF KeysInOrder, There, JobsInOrder, WorkInOrder, EraseInOrder
<1>5. LaterInOrder
  BY <1>3 DEF LaterInOrder, nothing
<1>6. EndsAsItShould /\ ResultsInOrder
  BY <1>1 DEF EndsAsItShould, ResultsInOrder
<1>7. MadeOf(SoundDone) = {}
  BY <1>2 DEF MadeOf, SoundDone
<1>8. AppliedSoFar
  BY <1>2, <1>3, <1>7, NothingInOrder DEF AppliedSoFar
<1> QED
  BY <1>4, <1>5, <1>6, <1>8 DEF InPlace

\* Nothing happens.
LEMMA PlacedSame ==
  ASSUME InPlace, UNCHANGED notebookVars
  PROVE  InPlace'
<1>1. UNCHANGED <<rows, applied, jobs, work, posted, api, erase>>
  BY DEF notebookVars, table, disk, queue, handler
<1>2. SameRows
  BY <1>1 DEF SameRows, There
<1>3. KeysInOrder' /\ Converters' = Converters
  BY <1>2, RowsInPlace
<1>4. JobsInOrder' /\ WorkInOrder' /\ LaterInOrder'
  BY <1>1 DEF InPlace, JobsInOrder, WorkInOrder, LaterInOrder, There
<1>5. EraseInOrder' /\ EndsAsItShould'
  BY <1>1, <1>3 DEF InPlace, EraseInOrder, EndsAsItShould
<1>6. \A x \in Items : Ahead(x)' <=> Ahead(x)
  BY <1>1 DEF Ahead, JobQueued
<1>7. AppliedSoFar' /\ ResultsInOrder'
  BY <1>1, <1>2, <1>6, AppliedStays, ResultsStay
<1> QED
  BY <1>3, <1>4, <1>5, <1>7 DEF InPlace

\* As long as the notebook is there every careful step keeps all in its place.
LEMMA PlacedStep ==
  ASSUME RowsAllTyped, RowsAllTyped', RowsKept, Careful, Careful', exists, exists', InPlace,
         [NotebookNext]_notebookVars
  PROVE  InPlace'
<1>1. ~met' /\ broken = 0 /\ broken' = 0
  BY DEF Careful
<1>2. ASSUME NEW kind \in Kinds, NEW sound \in BOOLEAN, Post(kind, sound)  PROVE InPlace'
  BY <1>2, PlacedPost
<1>3. ASSUME NEW x \in Items, Enqueue(x)  PROVE InPlace'
  BY <1>1, <1>3, PlacedEnqueue
<1>4. ASSUME NEW x \in Items, NeverEnqueued(x)  PROVE InPlace'
  BY <1>1, <1>4 DEF NeverEnqueued, Break
<1>5. ASSUME NEW x \in Items, DeleteBegins(x)  PROVE InPlace'
  BY <1>1, <1>5, PlacedDeleteBegins
<1>6. ASSUME NEW x \in Items, DeleteExplorer(x)  PROVE InPlace'
  BY <1>6, PlacedDeleteExplorer
<1>7. CASE DeleteNotebook
  BY <1>7 DEF DeleteNotebook
<1>8. CASE DeleteFails
  BY <1>1, <1>8 DEF DeleteFails, Break
<1>9. CASE RestoreEnds
  BY <1>9, PlacedRestoreEnds
<1>10. CASE PutAgain
  BY <1>10, PlacedPutAgain
<1>11. CASE DeleteCommits
  BY <1>11, PlacedDeleteCommits
<1>12. CASE TakeJob
  BY <1>12, PlacedTakeJob
<1>13. CASE LoadFile
  BY <1>13, PlacedLoadFile
<1>14. CASE LoadFails
  <2>1. work.step = "started"
    BY <1>14 DEF LoadFails
  <2>2. There(work.item)
    BY <2>1 DEF InPlace, WorkInOrder
  <2>3. file = "whole"
    BY <2>1 DEF RowsKept, Overlap, idle
  <2> QED
    BY <1>14, <2>2, <2>3 DEF LoadFails
<1>15. CASE JobFails
  BY <1>15, PlacedJobFails
<1>16. CASE ConvertSaves
  BY <1>16, PlacedConvertSaves
<1>17. CASE JobEnds
  BY <1>17, PlacedJobEnds
<1>18. CASE UNCHANGED notebookVars
  BY <1>18, PlacedSame
<1> QED
  BY <1>2, <1>3, <1>4, <1>5, <1>6, <1>7, <1>8, <1>9, <1>10, <1>11, <1>12, <1>13, <1>14, <1>15,
     <1>16, <1>17, <1>18 DEF NotebookNext, Handler, Consumer

\* Once it is gone, with nothing under way, nothing comes.
LEMMA NothingComes ==
  ASSUME RowsAllTyped, RowsKept, ~exists, NothingLeft, [NotebookNext]_notebookVars
  PROVE  UNCHANGED notebookVars
<1>1. /\ jobs = <<>> /\ work = idle /\ posted = {} /\ api = "idle" /\ work.step = "idle"
      /\ \A x \in Items : ~There(x)
  BY DEF NothingLeft, Overlap, RowsKept, idle
<1>2. ASSUME NEW x \in Items  PROVE ~(Enqueue(x) \/ NeverEnqueued(x))
  BY <1>1 DEF Enqueue, NeverEnqueued
<1>3. ASSUME NEW x \in Items  PROVE ~(DeleteBegins(x) \/ DeleteExplorer(x))
  BY <1>1 DEF DeleteBegins, DeleteExplorer, HasButton
<1>4. ~(DeleteNotebook \/ DeleteFails \/ Handler)
  BY <1>1 DEF DeleteNotebook, DeleteFails, Handler, RestoreEnds, PutAgain, DeleteCommits
<1>5. ~Consumer
  BY <1>1 DEF Consumer, TakeJob, LoadFile, LoadFails, JobFails, ConvertSaves, JobEnds
<1>6. ASSUME NEW kind \in Kinds, NEW sound \in BOOLEAN  PROVE ~Post(kind, sound)
  BY DEF Post
<1> QED
  BY <1>2, <1>3, <1>4, <1>5, <1>6 DEF NotebookNext

\* Every step keeps the order of things.
LEMMA ReplayStep ==
  ASSUME RowsAllTyped, RowsAllTyped', RowsKept, ReplayInv, [NotebookNext]_notebookVars
  PROVE  ReplayInv'
<1> SUFFICES ASSUME Careful'  PROVE IF exists' THEN InPlace' ELSE NothingLeft'
  BY DEF ReplayInv
<1>1. Careful
  BY CarefulBefore
<1>2. CASE exists /\ exists'
  BY <1>1, <1>2, PlacedStep DEF ReplayInv
<1>3. CASE exists /\ ~exists'
  <2>1. DeleteNotebook
    BY <1>3 DEF NotebookNext, notebookVars, Handler, Consumer, Post, Enqueue, NeverEnqueued,
       DeleteBegins, DeleteExplorer, DeleteFails, RestoreEnds, PutAgain, DeleteCommits, TakeJob,
       LoadFile, LoadFails, JobFails, ConvertSaves, JobEnds, table
  <2>2. ~Overlap /\ api = "idle" /\ file' = "gone" /\ UNCHANGED <<jobs, work, posted, api>>
    BY <2>1 DEF DeleteNotebook, Careful, queue, handler
  <2> QED
    BY <1>3, <2>2 DEF NothingLeft, Overlap
<1>4. CASE ~exists
  <2>1. NothingLeft
    BY <1>1, <1>4 DEF ReplayInv
  <2>2. UNCHANGED notebookVars
    BY <1>4, <2>1, NothingComes
  <2> QED
    BY <1>4, <2>1, <2>2 DEF NothingLeft, Overlap, notebookVars, table, disk, queue, handler
<1> QED
  BY <1>2, <1>3, <1>4

\* Rows, jobs and file are in their places at all times.
LEMMA ReplayInvariance == NotebookSpec => [](NotebookInv /\ ReplayInv)
<1>1. NotebookInit => NotebookInv /\ ReplayInv
  BY RowsInitHolds, PlacedInit
<1>2. NotebookInv /\ ReplayInv /\ [NotebookNext]_notebookVars => (NotebookInv /\ ReplayInv)'
  BY RowsStepHolds, ReplayStep DEF NotebookInv
<1> QED
  BY <1>1, <1>2, PTL DEF NotebookSpec

\* At rest nothing is ahead, and every converter has ended.
LEMMA NothingAhead ==
  ASSUME NotebookInv, ReplayInv, Settled, Careful, exists
  PROVE  /\ \A x \in Items : ~Ahead(x)
         /\ \A x \in Converters : rows[x].sound <=> rows[x].status = "finished"
         /\ InOrder(applied, MadeOf(SoundDone)) /\ InPlace
<1>1. /\ InPlace /\ jobs = <<>> /\ work = idle /\ posted = {} /\ api = "idle"
      /\ work.step = "idle"
  BY DEF ReplayInv, Settled, Overlap, idle
<1>2. erase.again = {} /\ erase.gone = {}
  BY <1>1 DEF InPlace, EraseInOrder, nothing
<1>3. \A x \in Items : ~Ahead(x)
  BY <1>1, <1>2 DEF Ahead, JobQueued
<1>4. ASSUME NEW x \in Converters  PROVE rows[x].sound <=> rows[x].status = "finished"
  <2>1. x \in Items /\ There(x)
    BY DEF Converters
  <2>2. rows[x].status \notin Processing
    BY <1>1, <2>1 DEF NotebookInv, ProcessingHasJob
  <2>3. rows[x].status \in {"finished", "failed"}
    BY <2>1, <2>2 DEF NotebookInv, RowsAllTyped, RowsTyped, Row, Final
  <2> QED
    BY <1>1, <2>1, <2>3 DEF InPlace, EndsAsItShould
<1> QED
  BY <1>1, <1>3, <1>4 DEF InPlace, AppliedSoFar

\* Once everything has come to rest the notebook's dataset is the original
\* with the FINISHED converters in it, each once, in the order in which they
\* were created, however many deletions restored and replayed it; and a deleted
\* notebook has left no folder.
THEOREM NotebookIsReplayHolds == NotebookSpec => []NotebookIsReplay
<1>1. NotebookInv /\ ReplayInv => NotebookIsReplay
  <2> SUFFICES ASSUME NotebookInv, ReplayInv, Settled, Careful
               PROVE  IF exists
                      THEN /\ file = "whole"
                           /\ InOrder(applied, {rows[x].made :
                                x \in {y \in Converters : rows[y].status = "finished"}})
                      ELSE file = "gone"
    BY DEF NotebookIsReplay
  <2>1. CASE exists
    <3>1. SoundDone = {y \in Converters : rows[y].status = "finished"}
      BY <2>1, NothingAhead DEF SoundDone, Converters
    <3>2. InOrder(applied, {rows[x].made : x \in {y \in Converters : rows[y].status = "finished"}})
      BY <2>1, <3>1, NothingAhead DEF MadeOf
    <3>3. file = "whole"
      BY <2>1 DEF NotebookInv, RowsKept, Settled
    <3> QED
      BY <2>1, <3>2, <3>3
  <2>2. CASE ~exists
    BY <2>2 DEF ReplayInv, NothingLeft
  <2> QED
    BY <2>1, <2>2
<1> QED
  BY <1>1, ReplayInvariance, PTL

\* The result an explorer shows is that of the dataset as the converters
\* created before it leave it, also after later ones came and went.
THEOREM ExplorerSawItsDataHolds == NotebookSpec => []ExplorerSawItsData
<1>1. NotebookInv /\ ReplayInv => ExplorerSawItsData
  <2> SUFFICES ASSUME NotebookInv, ReplayInv, Settled, Careful,
                      NEW x \in Items, x.kind = "explorer", rows[x].status = "finished"
               PROVE  InOrder(rows[x].result, {n \in Range(applied) : n < rows[x].made})
    BY DEF ExplorerSawItsData
  <2>1. exists
    BY DEF NotebookInv, RowsKept, There, NoRow
  <2>2. /\ \A y \in Items : ~Ahead(y)
        /\ Range(applied) = MadeOf(SoundDone) /\ InPlace
    BY <2>1, NothingAhead DEF InOrder
  <2>3. InOrder(rows[x].result, MadeOf(SoundBefore(rows[x].made)))
    BY <2>2 DEF InPlace, ResultsInOrder
  <2>4. SoundBefore(rows[x].made) = {y \in SoundDone : rows[y].made < rows[x].made}
    BY <2>2 DEF SoundBefore, SoundDone, Converters
  <2>5. MadeOf(SoundBefore(rows[x].made)) = {n \in Range(applied) : n < rows[x].made}
    BY <2>2, <2>4 DEF MadeOf
  <2> QED
    BY <2>3, <2>5
<1> QED
  BY <1>1, ReplayInvariance, PTL

-----------------------------------------------------------------------------
(* NotebookPage: its types, and its boxes against the rows *)

RowStatuses == InWork \cup Over \cup {"absent"}
BoxList == [BoxIds -> RowStatuses]

\* No key is larger than the number of rows made, and a row that is there was
\* created some time.
PageRowsTyped ==
  /\ rowStatus \in BoxList /\ created \in [BoxIds -> 0..born] /\ queued \subseteq BoxIds
  /\ born \in 0..MaxBoxes
  /\ \A x \in BoxIds : (created[x] # 0) = Exists(x) /\ (Exists(x) => x.id <= born)

PageBoxesTyped ==
  /\ boxes \in BoxList /\ stopped \subseteq BoxIds
  /\ asked \subseteq [item : BoxIds, was : InWork, got : RowStatuses, current : BOOLEAN]

PageSavesTyped ==
  /\ saving \in BoxIds \cup {noBox} /\ deleting \in BoxIds \cup {noBox}
  /\ sent \cup polled \subseteq BoxIds /\ jobEnds \subseteq [item : BoxIds, status : Over]

PageListsTyped ==
  /\ lists \in Seq(BoxList) /\ Len(lists) <= MaxLists
  /\ visits \in 0..MaxVisits /\ spoiled \in BOOLEAN

BoxPageTyped == PageRowsTyped /\ PageBoxesTyped /\ PageSavesTyped /\ PageListsTyped

\* What is being saved is there and what is being deleted is not, one at a
\* time; what waits is there; and but for those two, and until the list that
\* follows the deletion of a converter, each row has its box.
BoxInv ==
  /\ saving # noBox => Exists(saving) /\ deleting = noBox
  /\ deleting # noBox => ~Exists(deleting)
  /\ \A x \in queued : Exists(x)
  /\ ~spoiled /\ lists = <<>> /\ deleting.kind # "converter" =>
       \A x \in BoxIds \ {saving, deleting} : (boxes[x] # "absent") = Exists(x)

\* The next key of a kind is larger than all in use.
LEMMA NextKeyBound ==
  ASSUME PageRowsTyped, NEW kind \in BoxKinds
  PROVE  /\ NextKey(kind) \in 1..(born + 1)
         /\ \A y \in BoxIds : Exists(y) /\ y.kind = kind => y.id < NextKey(kind)
<1> DEFINE S == {0} \cup {x.id : x \in {y \in BoxIds : Exists(y) /\ y.kind = kind}}
<1>1. S \in SUBSET (0..born) /\ S # {}
  BY DEF PageRowsTyped, BoxIds
<1>2. born \in Nat
  BY DEF PageRowsTyped
<1>3. Max(S) \in S /\ \A n \in S : n <= Max(S)
  <2> HIDE DEF S
  <2> QED
    BY <1>1, <1>2, MaxIsMax
<1>4. NextKey(kind) = 1 + Max(S)
  BY DEF NextKey
<1>5. \A y \in BoxIds : Exists(y) /\ y.kind = kind => y.id \in S /\ y.id \in Nat
  BY DEF BoxIds
<1> HIDE DEF S
<1>6. Max(S) \in 0..born
  BY <1>1, <1>3
<1> QED
  <2>1. NextKey(kind) \in 1..(born + 1)
    BY <1>2, <1>4, <1>6
  <2> SUFFICES ASSUME NEW y \in BoxIds, Exists(y), y.kind = kind  PROVE y.id < NextKey(kind)
    BY <2>1
  <2>2. y.id <= Max(S) /\ y.id \in Nat
    BY <1>3, <1>5
  <2> QED
    BY <1>2, <1>4, <1>6, <2>2

\* POST makes a row that was not there.
LEMMA BoxPosted ==
  ASSUME BoxPageTyped, NEW kind \in BoxKinds, PostBox(kind)
  PROVE  /\ saving = noBox /\ deleting = noBox /\ saving' \in BoxIds /\ ~Exists(saving')
         /\ saving' # noBox /\ born' = born + 1 /\ born' \in 0..MaxBoxes /\ saving'.id <= born'
         /\ rowStatus' = [rowStatus EXCEPT ![saving'] = "waiting"]
         /\ created' = [created EXCEPT ![saving'] = born']
         /\ UNCHANGED <<queued, sent, polled, jobEnds, boxVars, lists, deleting, spoiled, visits>>
<1>1. /\ saving = noBox /\ deleting = noBox /\ born < MaxBoxes /\ born' = born + 1
      /\ saving' = [kind |-> kind, id |-> NextKey(kind)]
      /\ rowStatus' = [rowStatus EXCEPT ![saving'] = "waiting"]
      /\ created' = [created EXCEPT ![saving'] = born']
      /\ UNCHANGED <<queued, sent, polled, jobEnds, boxVars, lists, deleting, spoiled, visits>>
  BY DEF PostBox
<1>2. born \in 0..MaxBoxes /\ MaxBoxes \in Nat
  BY DEF BoxPageTyped, PageRowsTyped
<1>3. /\ NextKey(kind) \in 1..(born + 1)
      /\ \A y \in BoxIds : Exists(y) /\ y.kind = kind => y.id < NextKey(kind)
  BY NextKeyBound DEF BoxPageTyped
<1>4. saving' \in BoxIds /\ saving'.kind = kind /\ saving'.id = NextKey(kind)
  BY <1>1, <1>2, <1>3 DEF BoxIds
<1>5. ~Exists(saving')
  BY <1>2, <1>3, <1>4
<1>6. saving' # noBox
  BY <1>4 DEF noBox, BoxIds, BoxKinds
<1> QED
  BY <1>1, <1>2, <1>3, <1>4, <1>5, <1>6

\* A row is created.
LEMMA PageRowCreated ==
  ASSUME BoxPageTyped, NEW x \in BoxIds, x.id <= born + 1, born + 1 <= MaxBoxes, born' = born + 1,
         rowStatus' = [rowStatus EXCEPT ![x] = "waiting"],
         created' = [created EXCEPT ![x] = born'], queued' = queued
  PROVE  PageRowsTyped'
<1>1. born \in Nat /\ born' \in 0..MaxBoxes /\ born' # 0
  BY DEF BoxPageTyped, PageRowsTyped
<1>2. /\ rowStatus' \in BoxList /\ rowStatus'[x] = "waiting"
      /\ \A y \in BoxIds : y # x => rowStatus'[y] = rowStatus[y]
  BY DEF BoxPageTyped, PageRowsTyped, BoxList, RowStatuses, InWork
<1>3. \A n \in 0..born : n \in 0..born'
  BY <1>1
<1>4. /\ created' \in [BoxIds -> 0..born'] /\ created'[x] = born'
      /\ \A y \in BoxIds : y # x => created'[y] = created[y]
  BY <1>1, <1>3 DEF BoxPageTyped, PageRowsTyped
<1>5. ASSUME NEW y \in BoxIds
      PROVE  (created'[y] # 0) = (rowStatus'[y] # "absent") /\ (rowStatus'[y] # "absent" => y.id <= born')
  <2>1. CASE y = x
    BY <1>1, <1>2, <1>4, <2>1
  <2>2. CASE y # x
    <3>1. y.id \in Nat /\ (created[y] # 0) = (rowStatus[y] # "absent")
      BY DEF BoxPageTyped, PageRowsTyped, Exists, BoxIds
    <3>2. rowStatus[y] # "absent" => y.id <= born
      BY DEF BoxPageTyped, PageRowsTyped, Exists
    <3> QED
      BY <1>1, <1>2, <1>4, <2>2, <3>1, <3>2
  <2> QED
    BY <2>1, <2>2
<1> QED
  BY <1>1, <1>2, <1>4, <1>5 DEF BoxPageTyped, PageRowsTyped, Exists

\* A row that is there has its status written.
LEMMA PageRowWritten ==
  ASSUME BoxPageTyped, NEW x \in BoxIds, Exists(x), NEW status \in InWork \cup Over,
         rowStatus' = [rowStatus EXCEPT ![x] = status], created' = created, born' = born,
         queued' \subseteq BoxIds
  PROVE  /\ PageRowsTyped' /\ \A y \in BoxIds : (rowStatus'[y] # "absent") = Exists(y)
<1>1. /\ rowStatus' \in BoxList /\ rowStatus'[x] = status
      /\ \A y \in BoxIds : y # x => rowStatus'[y] = rowStatus[y]
  BY DEF BoxPageTyped, PageRowsTyped, BoxList, RowStatuses
<1>2. status # "absent"
  BY DEF InWork, Over
<1>3. \A y \in BoxIds : (rowStatus'[y] # "absent") = Exists(y)
  BY <1>1, <1>2 DEF Exists
<1> QED
  BY <1>1, <1>3 DEF BoxPageTyped, PageRowsTyped, Exists

\* Rows are deleted.
LEMMA PageRowsDropped ==
  ASSUME BoxPageTyped, NEW gone \in SUBSET BoxIds, DropRows(gone), born' = born,
         queued' \subseteq BoxIds
  PROVE  /\ PageRowsTyped'
         /\ \A y \in BoxIds : (rowStatus'[y] # "absent") = (Exists(y) /\ y \notin gone)
         /\ polled' \subseteq BoxIds /\ jobEnds' \subseteq [item : BoxIds, status : Over]
<1>1. /\ rowStatus' = [x \in BoxIds |-> IF x \in gone THEN "absent" ELSE rowStatus[x]]
      /\ created' = [x \in BoxIds |-> IF x \in gone THEN 0 ELSE created[x]]
  BY DEF DropRows
<1>2. rowStatus' \in BoxList
  BY <1>1 DEF BoxPageTyped, PageRowsTyped, BoxList, RowStatuses
<1>3. created' \in [BoxIds -> 0..born]
  BY <1>1 DEF BoxPageTyped, PageRowsTyped
<1>4. \A y \in BoxIds : (rowStatus'[y] # "absent") = (Exists(y) /\ y \notin gone)
  BY <1>1 DEF Exists
<1>5. \A y \in BoxIds : (created'[y] # 0) = (rowStatus'[y] # "absent")
                        /\ (rowStatus'[y] # "absent" => y.id <= born)
  BY <1>1, <1>4 DEF BoxPageTyped, PageRowsTyped, Exists
<1>6. polled' \subseteq BoxIds /\ jobEnds' \subseteq [item : BoxIds, status : Over]
  BY DEF DropRows, BoxPageTyped, PageSavesTyped, Over
<1> QED
  BY <1>2, <1>3, <1>4, <1>5, <1>6 DEF BoxPageTyped, PageRowsTyped, Exists

\* One list less is on its way.
LEMMA BoxListTaken ==
  ASSUME BoxPageTyped, NEW i \in DOMAIN lists, lists' = RemoveAt(lists, i),
         visits' = visits, spoiled' \in BOOLEAN
  PROVE  PageListsTyped' /\ lists[i] \in BoxList
<1>1. lists \in Seq(BoxList) /\ Len(lists) <= MaxLists /\ MaxLists \in Nat
  BY DEF BoxPageTyped, PageListsTyped
<1>2. /\ lists' \in Seq(BoxList) /\ DOMAIN lists' = 1..(Len(lists) - 1) /\ Len(lists) \in Nat
      /\ i \in 1..Len(lists)
  BY <1>1, Removed
<1>3. Len(lists') = Len(lists) - 1
  BY <1>1, <1>2
<1> QED
  BY <1>1, <1>2, <1>3, ElementsOfSeq DEF BoxPageTyped, PageListsTyped

\* One more.
LEMMA BoxListAsked ==
  ASSUME BoxPageTyped, lists' = Append(lists, rowStatus), Len(lists) < MaxLists,
         visits' \in 0..MaxVisits, spoiled' = spoiled
  PROVE  PageListsTyped' /\ lists' # <<>>
<1>1. /\ lists \in Seq(BoxList) /\ rowStatus \in BoxList /\ MaxLists \in Nat /\ spoiled \in BOOLEAN
  BY DEF BoxPageTyped, PageListsTyped, PageRowsTyped
<1>2. /\ lists' \in Seq(BoxList) /\ lists' # <<>> /\ Len(lists') = Len(lists) + 1 /\ Len(lists) \in Nat
  BY <1>1, AppendProperties
<1> QED
  BY <1>1, <1>2 DEF PageListsTyped

\* A box is shown anew only where there is one.
LEMMA BoxShown ==
  ASSUME boxes \in BoxList, NEW x \in BoxIds, NEW status \in InWork \cup Over, Show(x, status)
  PROVE  boxes' \in BoxList /\ \A y \in BoxIds : (boxes'[y] # "absent") = (boxes[y] # "absent")
<1>1. CASE boxes[x] = "absent"
  BY <1>1 DEF Show
<1>2. CASE boxes[x] # "absent"
  <2>1. boxes' = [boxes EXCEPT ![x] = status]
    BY <1>2 DEF Show
  <2>2. boxes' \in BoxList
    BY <2>1 DEF BoxList, RowStatuses
  <2>3. status # "absent"
    BY DEF InWork, Over
  <2> QED
    BY <1>2, <2>1, <2>2, <2>3 DEF BoxList
<1> QED
  BY <1>1, <1>2

\* A render leaves requests what they were.
LEMMA BoxesRendered ==
  ASSUME BoxPageTyped, NEW R \in SUBSET asked, Render(R), boxes' \in BoxList
  PROVE  PageBoxesTyped'
<1>1. stopped' = {} /\ asked' = {[a EXCEPT !.current = FALSE] : a \in R}
  BY DEF Render
<1>2. asked' \subseteq [item : BoxIds, was : InWork, got : RowStatuses, current : BOOLEAN]
  <2> SUFFICES ASSUME NEW a \in R
               PROVE  [a EXCEPT !.current = FALSE]
                        \in [item : BoxIds, was : InWork, got : RowStatuses, current : BOOLEAN]
    BY <1>1
  <2>1. a \in [item : BoxIds, was : InWork, got : RowStatuses, current : BOOLEAN]
    BY DEF BoxPageTyped, PageBoxesTyped
  <2> QED
    BY <2>1
<1> QED
  BY <1>1, <1>2 DEF PageBoxesTyped

\* Nothing is there yet.
LEMMA BoxInitTyped == NotebookPageInit => BoxPageTyped /\ BoxInv
<1> SUFFICES ASSUME NotebookPageInit  PROVE BoxPageTyped /\ BoxInv
  OBVIOUS
<1>1. /\ rowStatus = [x \in BoxIds |-> "absent"] /\ created = [x \in BoxIds |-> 0] /\ queued = {}
      /\ boxes = [x \in BoxIds |-> "absent"]
      /\ saving = noBox /\ sent = {} /\ polled = {} /\ jobEnds = {} /\ asked = {} /\ stopped = {}
      /\ lists = <<>> /\ deleting = noBox /\ spoiled = FALSE /\ born = 0 /\ visits = 0
  BY DEF NotebookPageInit
<1>2. MaxBoxes \in Nat /\ MaxLists \in Nat /\ MaxVisits \in Nat
  BY DEF NotebookPageAssumption
<1>3. rowStatus \in BoxList /\ boxes \in BoxList
  BY <1>1 DEF BoxList, RowStatuses
<1>4. PageRowsTyped
  BY <1>1, <1>2, <1>3 DEF PageRowsTyped, Exists
<1>5. PageBoxesTyped /\ PageSavesTyped
  BY <1>1, <1>3 DEF PageBoxesTyped, PageSavesTyped
<1>6. PageListsTyped
  <2>1. lists \in Seq(BoxList) /\ Len(lists) = 0
    BY <1>1, EmptySeq
  <2>2. 0 <= MaxLists /\ 0 \in 0..MaxVisits
    BY <1>2
  <2>3. Len(lists) <= MaxLists /\ visits \in 0..MaxVisits
    BY <1>1, <2>1, <2>2
  <2>4. spoiled \in BOOLEAN
    BY <1>1
  <2> QED
    BY <2>1, <2>3, <2>4 DEF PageListsTyped
<1>7. BoxInv
  BY <1>1 DEF BoxInv, Exists
<1> QED
  BY <1>4, <1>5, <1>6, <1>7 DEF BoxPageTyped

\* A step that leaves alone which rows and which boxes there are, and what is
\* under way.
LEMMA BoxesStay ==
  ASSUME BoxInv, BoxPageTyped,
         \A x \in BoxIds : (rowStatus'[x] # "absent") = Exists(x),
         \A x \in BoxIds : (boxes'[x] # "absent") = (boxes[x] # "absent"),
         UNCHANGED <<saving, deleting, spoiled>>,
         lists' = <<>> => lists = <<>>,
         queued' \subseteq {x \in BoxIds : Exists(x)}
  PROVE  BoxInv'
<1>1. saving \in BoxIds \cup {noBox} /\ deleting \in BoxIds \cup {noBox}
  BY DEF BoxPageTyped, PageSavesTyped
<1> QED
  BY <1>1 DEF BoxInv, Exists

\* What waits is there.
LEMMA QueuedExist ==
  ASSUME BoxInv, BoxPageTyped
  PROVE  queued \subseteq {x \in BoxIds : Exists(x)}
BY DEF BoxInv, BoxPageTyped, PageRowsTyped

\* The form is sent: the row is there before its box.
LEMMA BoxPostKept ==
  ASSUME BoxInv, BoxPageTyped, NEW kind \in BoxKinds, PostBox(kind)
  PROVE  BoxPageTyped' /\ BoxInv'
<1>1. PICK x : x = saving'
  OBVIOUS
<1>2. /\ saving = noBox /\ deleting = noBox /\ x \in BoxIds /\ ~Exists(x) /\ x # noBox
      /\ born' = born + 1 /\ born' \in 0..MaxBoxes /\ x.id <= born'
      /\ rowStatus' = [rowStatus EXCEPT ![x] = "waiting"]
      /\ created' = [created EXCEPT ![x] = born']
      /\ UNCHANGED <<queued, sent, polled, jobEnds, boxVars, lists, deleting, spoiled, visits>>
  BY <1>1, BoxPosted
<1>3. PageRowsTyped'
  <2>1. x.id <= born + 1 /\ born + 1 <= MaxBoxes
    BY <1>2
  <2> QED
    BY <1>2, <2>1, PageRowCreated
<1>4. PageBoxesTyped' /\ PageSavesTyped' /\ PageListsTyped'
  BY <1>1, <1>2 DEF BoxPageTyped, PageBoxesTyped, PageSavesTyped, PageListsTyped, boxVars
<1>5. /\ rowStatus'[x] = "waiting" /\ \A y \in BoxIds : y # x => rowStatus'[y] = rowStatus[y]
  BY <1>2 DEF BoxPageTyped, PageRowsTyped, BoxList
<1>6. BoxInv'
  BY <1>1, <1>2, <1>5, QueuedExist DEF BoxInv, Exists, boxVars
<1> QED
  BY <1>3, <1>4, <1>6 DEF BoxPageTyped

\* The answer brings the box.
LEMMA BoxSaveKept ==
  ASSUME BoxInv, BoxPageTyped, SaveArrives
  PROVE  BoxPageTyped' /\ BoxInv'
<1>1. PICK x : x = saving
  OBVIOUS
<1>2. /\ x # noBox /\ boxes' = [boxes EXCEPT ![x] = "waiting"] /\ Render(asked) /\ saving' = noBox
      /\ sent' = sent \cup {x} /\ polled' \subseteq polled \cup {x}
      /\ UNCHANGED <<rowStatus, created, queued, born, jobEnds, lists, deleting, spoiled, visits>>
  BY <1>1 DEF SaveArrives, serverRows
<1>3. x \in BoxIds
  BY <1>1, <1>2 DEF BoxPageTyped, PageSavesTyped
<1>4. /\ boxes' \in BoxList /\ boxes'[x] = "waiting"
      /\ \A y \in BoxIds : y # x => boxes'[y] = boxes[y]
  BY <1>2, <1>3 DEF BoxPageTyped, PageBoxesTyped, BoxList, RowStatuses, InWork
<1>5. PageBoxesTyped'
  BY <1>2, <1>4, BoxesRendered
<1>6. PageRowsTyped' /\ PageSavesTyped' /\ PageListsTyped'
  BY <1>2, <1>3 DEF BoxPageTyped, PageRowsTyped, PageSavesTyped, PageListsTyped, Exists
<1>7. Exists(x) /\ deleting = noBox
  BY <1>1, <1>2 DEF BoxInv
<1>8. BoxInv'
  BY <1>1, <1>2, <1>3, <1>4, <1>7 DEF BoxInv, Exists
<1> QED
  BY <1>5, <1>6, <1>8 DEF BoxPageTyped

\* What is enqueued is there.
LEMMA BoxEnqueueKept ==
  ASSUME BoxInv, BoxPageTyped, NEW x \in BoxIds, EnqueueArrives(x)
  PROVE  BoxPageTyped' /\ BoxInv'
<1>1. /\ sent' = sent \ {x} /\ queued' \subseteq {y \in BoxIds : Exists(y)}
      /\ UNCHANGED <<rowStatus, created, born, saving, polled, jobEnds, boxVars, lists, deleting,
                     spoiled, visits>>
  BY QueuedExist DEF EnqueueArrives
<1>2. PageRowsTyped' /\ PageBoxesTyped' /\ PageSavesTyped' /\ PageListsTyped'
  BY <1>1 DEF BoxPageTyped, PageRowsTyped, PageBoxesTyped, PageSavesTyped, PageListsTyped, Exists, boxVars
<1>3. BoxInv'
  BY <1>1, BoxesStay DEF Exists, boxVars
<1> QED
  BY <1>2, <1>3 DEF BoxPageTyped

\* A job starts on a row that is there.
LEMMA BoxStartKept ==
  ASSUME BoxInv, BoxPageTyped, NEW x \in BoxIds, RowStarts(x)
  PROVE  BoxPageTyped' /\ BoxInv'
<1>1. /\ x \in queued /\ rowStatus' = [rowStatus EXCEPT ![x] = "started"] /\ queued' = queued \ {x}
      /\ UNCHANGED <<created, born, savingVars, boxVars, lists, deleting, spoiled, visits>>
  BY DEF RowStarts
<1>2. Exists(x) /\ queued' \subseteq {y \in BoxIds : Exists(y)} /\ queued' \subseteq BoxIds
  BY <1>1, QueuedExist
<1>3. "started" \in InWork \cup Over
  BY DEF InWork
<1>4. PageRowsTyped' /\ \A y \in BoxIds : (rowStatus'[y] # "absent") = Exists(y)
  BY <1>1, <1>2, <1>3, PageRowWritten
<1>5. PageBoxesTyped' /\ PageSavesTyped' /\ PageListsTyped'
  BY <1>1 DEF BoxPageTyped, PageBoxesTyped, PageSavesTyped, PageListsTyped, boxVars, savingVars
<1>6. BoxInv'
  BY <1>1, <1>2, <1>4, BoxesStay DEF boxVars, savingVars
<1> QED
  BY <1>4, <1>5, <1>6 DEF BoxPageTyped

\* The end of a job leaves the row there, and tells who watches.
LEMMA BoxEndKept ==
  ASSUME BoxInv, BoxPageTyped, NEW x \in BoxIds, RowEnds(x)
  PROVE  BoxPageTyped' /\ BoxInv'
<1>1. PICK status \in Over :
        /\ rowStatus' = [rowStatus EXCEPT ![x] = status]
        /\ jobEnds' = jobEnds \cup {[item |-> y, status |-> status] : y \in {x} \cap polled}
  BY DEF RowEnds
<1>2. /\ rowStatus[x] = "started" /\ polled' = polled \ {x}
      /\ UNCHANGED <<created, queued, born, saving, sent, boxVars, lists, deleting, spoiled, visits>>
  BY DEF RowEnds
<1>3. Exists(x) /\ queued' \subseteq {y \in BoxIds : Exists(y)} /\ queued' \subseteq BoxIds
  BY <1>2, QueuedExist DEF Exists
<1>4. PageRowsTyped' /\ \A y \in BoxIds : (rowStatus'[y] # "absent") = Exists(y)
  BY <1>1, <1>2, <1>3, PageRowWritten
<1>5. PageBoxesTyped' /\ PageSavesTyped' /\ PageListsTyped'
  BY <1>1, <1>2 DEF BoxPageTyped, PageBoxesTyped, PageSavesTyped, PageListsTyped, boxVars
<1>6. BoxInv'
  BY <1>2, <1>3, <1>4, BoxesStay DEF boxVars
<1> QED
  BY <1>4, <1>5, <1>6 DEF BoxPageTyped

\* A deletion that is confirmed has its rows gone, and has only rows that stay
\* run again.
LEMMA BoxConfirmKept ==
  ASSUME BoxInv, BoxPageTyped, NEW x \in BoxIds, Confirm(x)
  PROVE  BoxPageTyped' /\ BoxInv'
<1>1. /\ deleting = noBox /\ saving = noBox /\ Exists(x) /\ deleting' = x
      /\ UNCHANGED <<born, saving, sent, boxVars, lists, spoiled, visits>>
  BY DEF Confirm
<1>2. x # noBox
  BY DEF noBox, BoxIds, BoxKinds
<1>3. PICK gone \in SUBSET BoxIds :
        /\ x \in gone /\ DropRows(gone)
        /\ queued' \subseteq {y \in BoxIds : Exists(y) /\ y \notin gone}
        /\ x.kind # "converter" => gone = {x}
  <2>1. CASE x.kind = "converter"
    <3>1. DropRows(Since(x)) /\ queued' = (queued \cup ConvertersBefore(x)) \ Since(x)
      BY <2>1 DEF Confirm
    <3>2. x \in Since(x) /\ Since(x) \subseteq BoxIds
      BY <1>1 DEF Since, BoxPageTyped, PageRowsTyped
    <3>3. ConvertersBefore(x) \subseteq {y \in BoxIds : Exists(y)}
      BY DEF ConvertersBefore
    <3>4. PICK gone : gone = Since(x)
      OBVIOUS
    <3>5. DropRows(gone)
      BY <3>1, <3>4
    <3> QED
      BY <2>1, <3>1, <3>2, <3>3, <3>4, <3>5, QueuedExist
  <2>2. CASE x.kind # "converter"
    <3>1. DropRows({x}) /\ queued' = queued \ {x}
      BY <2>2 DEF Confirm
    <3> QED
      BY <2>2, <3>1, QueuedExist
  <2> QED
    BY <2>1, <2>2
<1>4. /\ PageRowsTyped'
      /\ \A y \in BoxIds : (rowStatus'[y] # "absent") = (Exists(y) /\ y \notin gone)
      /\ polled' \subseteq BoxIds /\ jobEnds' \subseteq [item : BoxIds, status : Over]
  BY <1>1, <1>3, PageRowsDropped
<1>5. PageBoxesTyped' /\ PageSavesTyped' /\ PageListsTyped'
  BY <1>1, <1>4 DEF BoxPageTyped, PageBoxesTyped, PageSavesTyped, PageListsTyped, boxVars
<1>6. noBox.kind # "converter"
  BY DEF noBox
<1>7. BoxInv'
  <2>1. saving' = noBox /\ ~Exists(deleting)'
    BY <1>1, <1>3, <1>4 DEF Exists
  <2>2. \A y \in queued' : Exists(y)'
    BY <1>3, <1>4 DEF Exists
  <2>3. ASSUME ~spoiled', lists' = <<>>, deleting'.kind # "converter",
               NEW y \in BoxIds \ {saving', deleting'}
        PROVE  (boxes'[y] # "absent") = (rowStatus'[y] # "absent")
    <3>1. gone = {x} /\ y # x
      BY <1>1, <1>3, <2>3
    <3>2. y \in BoxIds \ {saving, deleting}
      BY <1>1, <1>2, <2>3 DEF BoxIds, BoxKinds, noBox
    <3>3. (boxes[y] # "absent") = Exists(y)
      BY <1>1, <1>6, <2>3, <3>2 DEF BoxInv
    <3> QED
      BY <1>1, <1>4, <3>1, <3>3 DEF boxVars
  <2> QED
    BY <2>1, <2>2, <2>3 DEF BoxInv, Exists
<1> QED
  BY <1>4, <1>5, <1>7 DEF BoxPageTyped

\* The answer to an explorer's deletion takes its box out.
LEMMA BoxExplorerKept ==
  ASSUME BoxInv, BoxPageTyped, ExplorerDeleted
  PROVE  BoxPageTyped' /\ BoxInv'
<1>1. PICK x : x = deleting
  OBVIOUS
<1>2. /\ x.kind = "explorer" /\ boxes' = [boxes EXCEPT ![x] = "absent"] /\ Render(asked)
      /\ deleting' = noBox
      /\ UNCHANGED <<serverRows, savingVars, lists, spoiled, visits>>
  BY <1>1 DEF ExplorerDeleted
<1>3. x \in BoxIds /\ x # noBox
  BY <1>1, <1>2 DEF BoxPageTyped, PageSavesTyped, noBox
<1>4. /\ boxes' \in BoxList /\ boxes'[x] = "absent"
      /\ \A y \in BoxIds : y # x => boxes'[y] = boxes[y]
  BY <1>2, <1>3 DEF BoxPageTyped, PageBoxesTyped, BoxList, RowStatuses
<1>5. PageBoxesTyped'
  BY <1>2, <1>4, BoxesRendered
<1>6. PageRowsTyped' /\ PageSavesTyped' /\ PageListsTyped'
  BY <1>2 DEF BoxPageTyped, PageRowsTyped, PageSavesTyped, PageListsTyped, Exists, serverRows, savingVars
<1>7. ~Exists(x) /\ saving = noBox
  BY <1>1, <1>3 DEF BoxInv
<1>8. BoxInv'
  BY <1>1, <1>2, <1>3, <1>4, <1>7 DEF BoxInv, Exists, serverRows, savingVars
<1> QED
  BY <1>5, <1>6, <1>8 DEF BoxPageTyped

\* Once the page asks for the list, the boxes are compared with the rows only
\* when it arrives.
LEMMA BoxConverterKept ==
  ASSUME BoxInv, BoxPageTyped, ConverterDeleted
  PROVE  BoxPageTyped' /\ BoxInv'
<1>1. /\ deleting.kind = "converter" /\ Len(lists) < MaxLists /\ lists' = Append(lists, rowStatus)
      /\ deleting' = noBox
      /\ UNCHANGED <<serverRows, savingVars, boxVars, spoiled, visits>>
  BY DEF ConverterDeleted
<1>2. PageListsTyped' /\ lists' # <<>>
  BY <1>1, BoxListAsked DEF BoxPageTyped, PageListsTyped
<1>3. PageRowsTyped' /\ PageBoxesTyped' /\ PageSavesTyped'
  BY <1>1 DEF BoxPageTyped, PageRowsTyped, PageBoxesTyped, PageSavesTyped, Exists, serverRows,
              savingVars, boxVars
<1>4. BoxInv'
  BY <1>1, <1>2 DEF BoxInv, Exists, serverRows, savingVars
<1> QED
  BY <1>2, <1>3, <1>4 DEF BoxPageTyped

\* Coming back keeps the boxes until the list arrives.
LEMMA BoxRevisitKept ==
  ASSUME BoxInv, BoxPageTyped, Revisit
  PROVE  BoxPageTyped' /\ BoxInv'
<1>1. /\ visits' \in 0..MaxVisits /\ Len(lists) < MaxLists /\ lists' = Append(lists, rowStatus)
      /\ UNCHANGED <<serverRows, savingVars, boxVars, deleting, spoiled>>
  BY DEF Revisit, Visit, BoxPageTyped, PageListsTyped, NotebookPageAssumption
<1>2. PageListsTyped' /\ lists' # <<>>
  BY <1>1, BoxListAsked
<1>3. PageRowsTyped' /\ PageBoxesTyped' /\ PageSavesTyped'
  BY <1>1 DEF BoxPageTyped, PageRowsTyped, PageBoxesTyped, PageSavesTyped, Exists, serverRows,
              savingVars, boxVars
<1>4. BoxInv'
  BY <1>1, <1>2 DEF BoxInv, Exists, serverRows, savingVars
<1> QED
  BY <1>2, <1>3, <1>4 DEF BoxPageTyped

\* After a reload there are no boxes until the list arrives.
LEMMA BoxReloadKept ==
  ASSUME BoxInv, BoxPageTyped, Reload
  PROVE  BoxPageTyped' /\ BoxInv'
<1>1. /\ visits' \in 0..MaxVisits /\ saving' = noBox /\ polled' = {} /\ jobEnds' = {}
      /\ boxes' = [x \in BoxIds |-> "absent"] /\ asked' = {} /\ stopped' = {}
      /\ lists' = <<rowStatus>> /\ deleting' = noBox
      /\ UNCHANGED <<serverRows, sent>>
  BY DEF Reload, Visit, BoxPageTyped, PageListsTyped, NotebookPageAssumption
<1>2. spoiled' \in BOOLEAN
  <2>1. spoiled \in BOOLEAN /\ spoiled' = (spoiled \/ saving # noBox)
    BY DEF Reload, BoxPageTyped, PageListsTyped
  <2> QED
    BY <2>1
<1>3. PageListsTyped' /\ lists' # <<>>
  <2>1. rowStatus \in BoxList /\ 1 <= MaxLists
    BY DEF BoxPageTyped, PageRowsTyped, NotebookPageAssumption
  <2>2. lists' \in Seq(BoxList) /\ Len(lists') = 1 /\ lists' # <<>>
    BY <1>1, <2>1
  <2> QED
    BY <1>1, <1>2, <2>1, <2>2 DEF PageListsTyped
<1>4. PageRowsTyped' /\ PageSavesTyped'
  BY <1>1 DEF BoxPageTyped, PageRowsTyped, PageSavesTyped, Exists, serverRows
<1>5. PageBoxesTyped'
  BY <1>1 DEF PageBoxesTyped, BoxList, RowStatuses
<1>6. BoxInv'
  BY <1>1, <1>3 DEF BoxInv, Exists, serverRows
<1> QED
  BY <1>3, <1>4, <1>5, <1>6 DEF BoxPageTyped

\* A box asks.
LEMMA BoxAskKept ==
  ASSUME BoxInv, BoxPageTyped, NEW x \in BoxIds, BoxAsks(x)
  PROVE  BoxPageTyped' /\ BoxInv'
<1>1. /\ boxes[x] \in InWork
      /\ asked' = asked \cup {[item |-> x, was |-> boxes[x], got |-> rowStatus[x], current |-> TRUE]}
      /\ UNCHANGED <<serverRows, savingVars, boxes, stopped, lists, deleting, spoiled, visits>>
  BY DEF BoxAsks
<1>2. rowStatus[x] \in RowStatuses
  BY DEF BoxPageTyped, PageRowsTyped, BoxList
<1>3. PageBoxesTyped'
  <2>1. [item |-> x, was |-> boxes[x], got |-> rowStatus[x], current |-> TRUE]
          \in [item : BoxIds, was : InWork, got : RowStatuses, current : BOOLEAN]
    BY <1>1, <1>2
  <2>2. asked \subseteq [item : BoxIds, was : InWork, got : RowStatuses, current : BOOLEAN]
    BY DEF BoxPageTyped, PageBoxesTyped
  <2>3. asked' \subseteq [item : BoxIds, was : InWork, got : RowStatuses, current : BOOLEAN]
    BY <1>1, <2>1, <2>2
  <2>4. boxes' \in BoxList /\ stopped' \subseteq BoxIds
    BY <1>1 DEF BoxPageTyped, PageBoxesTyped
  <2> QED
    BY <2>3, <2>4 DEF PageBoxesTyped
<1>4. PageRowsTyped' /\ PageSavesTyped' /\ PageListsTyped'
  BY <1>1 DEF BoxPageTyped, PageRowsTyped, PageSavesTyped, PageListsTyped, Exists, serverRows, savingVars
<1>5. BoxInv'
  BY <1>1 DEF BoxInv, Exists, serverRows, savingVars
<1> QED
  BY <1>3, <1>4, <1>5 DEF BoxPageTyped

\* Its answer shows something only where there is a box.
LEMMA BoxAnswerKept ==
  ASSUME BoxInv, BoxPageTyped, NEW a \in asked, BoxArrives(a)
  PROVE  BoxPageTyped' /\ BoxInv'
<1>1. /\ UNCHANGED <<serverRows, savingVars, lists, deleting, spoiled, visits>>
      /\ CASE a.got = "absent" -> Clear(a) /\ asked' = asked \ {a} /\ UNCHANGED boxes
           [] a.got = a.was -> asked' = asked \ {a} /\ UNCHANGED <<boxes, stopped>>
           [] OTHER -> Show(a.item, a.got) /\ Render(asked \ {a})
  BY DEF BoxArrives
<1>2. a.item \in BoxIds /\ a.got \in RowStatuses
  BY DEF BoxPageTyped, PageBoxesTyped
<1>3. boxes \in BoxList
  BY DEF BoxPageTyped, PageBoxesTyped
<1>4. PageBoxesTyped' /\ \A y \in BoxIds : (boxes'[y] # "absent") = (boxes[y] # "absent")
  <2>1. CASE a.got = "absent"
    BY <1>1, <1>2, <2>1 DEF Clear, BoxPageTyped, PageBoxesTyped
  <2>2. CASE a.got # "absent" /\ a.got = a.was
    BY <1>1, <2>2 DEF BoxPageTyped, PageBoxesTyped
  <2>3. CASE a.got # "absent" /\ a.got # a.was
    <3>1. Show(a.item, a.got) /\ Render(asked \ {a})
      BY <1>1, <2>3
    <3>2. a.got \in InWork \cup Over
      BY <1>2, <2>3 DEF RowStatuses
    <3>3. boxes' \in BoxList /\ \A y \in BoxIds : (boxes'[y] # "absent") = (boxes[y] # "absent")
      BY <1>2, <1>3, <3>1, <3>2, BoxShown
    <3>4. asked \ {a} \in SUBSET asked
      OBVIOUS
    <3>5. PICK R \in SUBSET asked : R = asked \ {a}
      BY <3>4
    <3> QED
      BY <3>1, <3>3, <3>5, BoxesRendered
  <2> QED
    BY <2>1, <2>2, <2>3
<1>5. PageRowsTyped' /\ PageSavesTyped' /\ PageListsTyped'
  BY <1>1 DEF BoxPageTyped, PageRowsTyped, PageSavesTyped, PageListsTyped, Exists, serverRows, savingVars
<1>6. BoxInv'
  BY <1>1, <1>4, QueuedExist, BoxesStay DEF Exists, serverRows, savingVars
<1> QED
  BY <1>4, <1>5, <1>6 DEF BoxPageTyped

\* So does the end of a watched job.
LEMMA BoxCallbackKept ==
  ASSUME BoxInv, BoxPageTyped, NEW c \in jobEnds, CallbackArrives(c)
  PROVE  BoxPageTyped' /\ BoxInv'
<1>1. /\ jobEnds' = jobEnds \ {c} /\ Show(c.item, c.status) /\ Render(asked)
      /\ UNCHANGED <<serverRows, saving, sent, polled, lists, deleting, spoiled, visits>>
  BY DEF CallbackArrives
<1>2. c.item \in BoxIds /\ c.status \in InWork \cup Over /\ boxes \in BoxList
  BY DEF BoxPageTyped, PageSavesTyped, PageBoxesTyped
<1>3. boxes' \in BoxList /\ \A y \in BoxIds : (boxes'[y] # "absent") = (boxes[y] # "absent")
  BY <1>1, <1>2, BoxShown
<1>4. PageBoxesTyped'
  BY <1>1, <1>3, BoxesRendered
<1>5. PageRowsTyped' /\ PageSavesTyped' /\ PageListsTyped'
  BY <1>1 DEF BoxPageTyped, PageRowsTyped, PageSavesTyped, PageListsTyped, Exists, serverRows
<1>6. BoxInv'
  BY <1>1, <1>3, QueuedExist, BoxesStay DEF Exists, serverRows
<1> QED
  BY <1>4, <1>5, <1>6 DEF BoxPageTyped

\* A list that has the rows that exist has a box for each; another spoils.
LEMMA BoxListKept ==
  ASSUME BoxInv, BoxPageTyped, ListArrives
  PROVE  BoxPageTyped' /\ BoxInv'
<1>1. PICK i \in DOMAIN lists :
        /\ boxes' = lists[i] /\ Render(asked) /\ lists' = RemoveAt(lists, i)
        /\ spoiled' = (spoiled \/ \E x \in BoxIds : (lists[i][x] = "absent") = Exists(x))
  BY DEF ListArrives
<1>2. UNCHANGED <<serverRows, savingVars, deleting, visits>>
  BY DEF ListArrives
<1>3. spoiled' \in BOOLEAN
  <2>1. spoiled \in BOOLEAN
    BY DEF BoxPageTyped, PageListsTyped
  <2> QED
    BY <1>1, <2>1
<1>4. PageListsTyped' /\ lists[i] \in BoxList
  BY <1>1, <1>2, <1>3, BoxListTaken
<1>5. PageBoxesTyped'
  BY <1>1, <1>4, BoxesRendered
<1>6. PageRowsTyped' /\ PageSavesTyped'
  BY <1>2 DEF BoxPageTyped, PageRowsTyped, PageSavesTyped, Exists, serverRows, savingVars
<1>7. ~spoiled' => \A x \in BoxIds : (boxes'[x] # "absent") = Exists(x)
  <2> SUFFICES ASSUME ~spoiled', NEW x \in BoxIds
               PROVE  (boxes'[x] # "absent") = Exists(x)
    OBVIOUS
  <2>1. (lists[i][x] = "absent") # Exists(x)
    BY <1>1
  <2>2. Exists(x) \in BOOLEAN
    BY DEF Exists
  <2> QED
    BY <1>1, <2>1, <2>2
<1>8. BoxInv'
  BY <1>2, <1>7 DEF BoxInv, Exists, serverRows, savingVars
<1> QED
  BY <1>4, <1>5, <1>6, <1>8 DEF BoxPageTyped

\* Every step keeps both.
LEMMA BoxPageKept ==
  ASSUME BoxInv, BoxPageTyped, [NotebookPageNext]_notebookPageVars
  PROVE  BoxPageTyped' /\ BoxInv'
<1>1. ASSUME NEW kind \in BoxKinds, PostBox(kind)  PROVE BoxPageTyped' /\ BoxInv'
  BY <1>1, BoxPostKept
<1>2. ASSUME NEW x \in BoxIds,
             EnqueueArrives(x) \/ RowStarts(x) \/ RowEnds(x) \/ Confirm(x) \/ BoxAsks(x)
      PROVE  BoxPageTyped' /\ BoxInv'
  BY <1>2, BoxEnqueueKept, BoxStartKept, BoxEndKept, BoxConfirmKept, BoxAskKept
<1>3. ASSUME NEW a \in asked, BoxArrives(a)  PROVE BoxPageTyped' /\ BoxInv'
  BY <1>3, BoxAnswerKept
<1>4. ASSUME NEW c \in jobEnds, CallbackArrives(c)  PROVE BoxPageTyped' /\ BoxInv'
  BY <1>4, BoxCallbackKept
<1>5. CASE SaveArrives \/ ExplorerDeleted \/ ConverterDeleted
  BY <1>5, BoxSaveKept, BoxExplorerKept, BoxConverterKept
<1>6. CASE ListArrives \/ Revisit \/ Reload
  BY <1>6, BoxListKept, BoxRevisitKept, BoxReloadKept
<1>7. CASE UNCHANGED notebookPageVars
  <2>1. UNCHANGED <<serverRows, savingVars, boxVars, lists, deleting, spoiled, visits>>
    BY <1>7 DEF notebookPageVars
  <2>2. BoxPageTyped'
    BY <2>1 DEF BoxPageTyped, PageRowsTyped, PageBoxesTyped, PageSavesTyped, PageListsTyped, Exists,
                serverRows, savingVars, boxVars
  <2>3. BoxInv'
    BY <2>1 DEF BoxInv, Exists, serverRows, savingVars, boxVars
  <2> QED
    BY <2>2, <2>3
<1> QED
  BY <1>1, <1>2, <1>3, <1>4, <1>5, <1>6, <1>7 DEF NotebookPageNext

\* They hold always.
LEMMA BoxPageAlways == NotebookPageSpec => [](BoxPageTyped /\ BoxInv)
<1>1. BoxPageTyped /\ BoxInv /\ [NotebookPageNext]_notebookPageVars => (BoxPageTyped /\ BoxInv)'
  BY BoxPageKept
<1> QED
  BY <1>1, BoxInitTyped, PTL DEF NotebookPageSpec

\* The page's state has the shape it should have, for any number of rows,
\* requests, lists and visits.
THEOREM NotebookPageTypeHolds == NotebookPageSpec => []NotebookPageTypeOK
<1>1. BoxPageTyped => NotebookPageTypeOK
  BY DEF BoxPageTyped, PageRowsTyped, PageBoxesTyped, PageSavesTyped, PageListsTyped, BoxList,
         RowStatuses, NotebookPageTypeOK
<1> QED
  BY <1>1, BoxPageAlways, PTL

\* Whatever is created, deleted, answered late or loaded again: with no answer
\* under way the boxes of the notebook's page (explorersAndConverters) are the
\* rows that exist, unless a list came too late or a reload cut a creation in two.
THEOREM BoxesAreRowsHolds == NotebookPageSpec => []BoxesAreRows
<1>1. BoxInv => BoxesAreRows
  <2> SUFFICES ASSUME BoxInv, ~AnswersUnderWay, ~spoiled, NEW x \in BoxIds
               PROVE  (boxes[x] # "absent") = Exists(x)
    BY DEF BoxesAreRows
  <2>1. saving = noBox /\ deleting = noBox /\ lists = <<>>
    BY DEF AnswersUnderWay
  <2>2. x # noBox /\ noBox.kind # "converter"
    BY DEF noBox, BoxIds, BoxKinds
  <2> QED
    BY <2>1, <2>2 DEF BoxInv
<1> QED
  BY <1>1, BoxPageAlways, PTL
===============================================================================
