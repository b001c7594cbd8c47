--------------------------- MODULE ImportsProofs ---------------------------
(***************************************************************************)
(* For any sheets, workers and faults: a job that succeeded has its rows   *)
(* stored, the last row of a key prevails, summaries add up, and the       *)
(* uploads that stay are accounted for.                                    *)
(***************************************************************************)
EXTENDS Imports, TLAPS, FiniteSetTheorems

Step == {"parse", "write", "cleanup", "return", "noHandler"}

-----------------------------------------------------------------------------
(* Types.                                                                  *)

\* Every row of a sheet is counted once, as valid or as failed.
LEMMA RowsCountedOnce ==
  ASSUME NEW j \in Jobs
  PROVE  /\ Cardinality(ValidRows(j)) \in Nat
         /\ Cardinality(InvalidRows(j)) \in Nat
         /\ Cardinality(ValidRows(j)) + Cardinality(InvalidRows(j)) = Len(rows[j])
<1>1. rows[j] \in Seq(Keys \cup {Invalid}) /\ Len(rows[j]) \in Nat
  BY RowsAssumption
<1>2. /\ IsFiniteSet(1 .. Len(rows[j]))
      /\ Cardinality(1 .. Len(rows[j])) = Len(rows[j])
  BY <1>1, FS_Interval
<1>3. /\ ValidRows(j) \cup InvalidRows(j) = 1 .. Len(rows[j])
      /\ ValidRows(j) \cap InvalidRows(j) = {}
  BY DEF ValidRows, InvalidRows
<1>4. /\ IsFiniteSet(ValidRows(j)) /\ IsFiniteSet(InvalidRows(j))
      /\ Cardinality(ValidRows(j)) \in Nat
      /\ Cardinality(InvalidRows(j)) \in Nat
  <2>1. /\ ValidRows(j) \in SUBSET (1 .. Len(rows[j]))
        /\ InvalidRows(j) \in SUBSET (1 .. Len(rows[j]))
    BY DEF ValidRows, InvalidRows
  <2>2. IsFiniteSet(ValidRows(j)) /\ IsFiniteSet(InvalidRows(j))
    BY <1>2, <2>1, FS_Subset
  <2>3. QED BY <2>2, FS_CardinalityType
<1>5. Cardinality(ValidRows(j) \cup InvalidRows(j))
        = Cardinality(ValidRows(j)) + Cardinality(InvalidRows(j))
          - Cardinality(ValidRows(j) \cap InvalidRows(j))
  BY <1>4, FS_Union
<1>6. Cardinality({}) = 0
  BY FS_EmptySet
<1>7. Len(rows[j]) = Cardinality(ValidRows(j)) + Cardinality(InvalidRows(j)) - 0
  <2>1. Cardinality(ValidRows(j) \cup InvalidRows(j)) = Len(rows[j])
    BY <1>2, <1>3, Zenon
  <2>2. Cardinality(ValidRows(j) \cap InvalidRows(j)) = 0
    BY <1>3, <1>6, Zenon
  <2>3. QED BY <1>5, <2>1, <2>2, Zenon
<1>8. QED BY <1>4, <1>7

\* The sheet of a job, its valid rows, and the summary that counts them.
LEMMA SheetTypes ==
  ASSUME NEW j \in Jobs
  PROVE  /\ ValidRows(j) \in SUBSET Nat
         /\ \A i \in ValidRows(j) : rows[j][i] \in Keys
         /\ Counted(j) \in Summary
         /\ createImportSummary \in Summary
<1>1. rows[j] \in Seq(Keys \cup {Invalid}) /\ Len(rows[j]) \in Nat
  BY RowsAssumption
<1>3. ValidRows(j) \in SUBSET (1 .. Len(rows[j]))
  BY DEF ValidRows
<1>5. \A i \in ValidRows(j) : rows[j][i] \in Keys
  BY <1>1 DEF ValidRows
<1>6. createImportSummary \in Summary
  BY DEF createImportSummary, Summary
<1>7. Counted(j) \in Summary
  BY <1>1, RowsCountedOnce DEF Counted, Summary
<1>8. QED BY <1>3, <1>5, <1>6, <1>7

LEMMA InitType == Init => TypeOK
BY FilesAssumption, BoundsAssumption
   DEF Init, LifecycleInit, TypeOK, Terminal, In

-----------------------------------------------------------------------------
LEMMA FaultsType ==
  ASSUME TypeOK, Answered \/ Fails
  PROVE  faults' \in 0 .. MaxFaults
BY BoundsAssumption DEF TypeOK, Answered, Fails

LEMMA UploadType == ASSUME TypeOK, NEW f \in Uploads, Upload(f) PROVE TypeOK'
BY FilesAssumption DEF TypeOK, Upload, In, lifecycleVars, workers

LEMMA ImportXlsxByTypeType ==
  ASSUME TypeOK, NEW j \in Jobs, ImportXlsxByType(j) PROVE TypeOK'
BY FilesAssumption DEF TypeOK, ImportXlsxByType, In, lifecycleVars, workers, history

LEMMA EnqueueType ==
  ASSUME TypeOK, NEW j \in Jobs, Enqueue(j) PROVE TypeOK'
BY FilesAssumption, BoundsAssumption
   DEF TypeOK, Enqueue, Submit, Answered, Fails, In, lifecycleVars, workers

\* What a worker has of a run, and what it has of it after a step.
LEMMA RunTypes ==
  ASSUME TypeOK, NEW w \in Workers, run[w] # None
  PROVE  /\ run[w] \in Run /\ run[w].job \in Jobs
         /\ \A step \in Step, ok \in BOOLEAN :
              [run[w] EXCEPT !.step = step, !.ok = ok] \in Run
         /\ \A step \in Step : [run[w] EXCEPT !.step = step] \in Run
         /\ \A step \in Step, x \in Summary :
              [run[w] EXCEPT !.step = step, !.summary = x] \in Run
         /\ \A x \in Summary : [run[w] EXCEPT !.summary = x] \in Run
BY DEF TypeOK, Run, Step

\* A worker's run is replaced; that of a worker at its bulk write by one only
\* with the command.
LEMMA RunReplaced ==
  ASSUME TypeOK, NEW w \in Workers, NEW r \in Run \cup {None},
         run' = [run EXCEPT ![w] = r]
  PROVE  /\ run' \in [Workers -> Run \cup {None}]
         /\ run'[w] = r
         /\ \A v \in Workers : v # w => run'[v] = run[v]
BY DEF TypeOK

LEMMA TakeJobType ==
  ASSUME TypeOK, NEW w \in Workers, NEW j \in Jobs, TakeJob(w, j) PROVE TypeOK'
<1>1. CASE UNCHANGED run
  BY <1>1, BoundsAssumption
     DEF TypeOK, TakeJob, Take, Answered, Fails, In, history, requests
<1>2. ASSUME NEW step \in {"parse", "noHandler"}, StartRun(w, j, step), Answered
      PROVE  TypeOK'
  <2> DEFINE r == [job |-> j, step |-> step, ok |-> TRUE,
                   summary |-> createImportSummary]
  <2>1. r \in Run /\ r.step # "write"
    BY SheetTypes DEF Run
  <2>2. run' = [run EXCEPT ![w] = r]
    BY <1>2 DEF StartRun
  <2> HIDE DEF r
  <2>3. /\ run' \in [Workers -> Run \cup {None}]
        /\ \A v \in Workers : In(v, "write")' => In(v, "write")
    BY <2>1, <2>2, RunReplaced DEF In
  <2>4. QED
    BY <1>2, <2>3, BoundsAssumption
       DEF TypeOK, TakeJob, Take, Answered, In, history, requests
<1>3. QED BY <1>1, <1>2 DEF TakeJob

LEMMA ParseXlsxFileType ==
  ASSUME TypeOK, NEW w \in Workers, ParseXlsxFile(w) PROVE TypeOK'
<1> DEFINE j == run[w].job
<1>0. run[w] # None /\ run[w] \in Run /\ j \in Jobs
  BY RunTypes DEF ParseXlsxFile, In
<1>1. CASE /\ run' = [run EXCEPT ![w].step = "write", ![w].summary = Counted(j)]
           /\ cmd' = [cmd EXCEPT ![w] = [job |-> j, todo |-> ValidRows(j)]]
  <2> DEFINE r == [run[w] EXCEPT !.step = "write", !.summary = Counted(j)]
             d == [job |-> j, todo |-> ValidRows(j)]
  <2>1. r \in Run /\ d \in Command
    BY <1>0, SheetTypes, RunTypes DEF Step, Command
  <2>2. run' = [run EXCEPT ![w] = r] /\ cmd' = [cmd EXCEPT ![w] = d]
    BY <1>1 DEF ParseXlsxFile
  <2>3. d # None
    BY <2>1, NoneAssumption
  <2> HIDE DEF r, d
  <2>4. run' \in [Workers -> Run \cup {None}]
        /\ \A v \in Workers : v # w /\ In(v, "write")' => In(v, "write")
    BY <2>1, <2>2, RunReplaced DEF In
  <2>5. QED
    BY <2>1, <2>2, <2>3, <2>4
       DEF TypeOK, ParseXlsxFile, lifecycleVars, requests, history
<1>2. CASE /\ run' = [run EXCEPT ![w].step = "cleanup", ![w].ok = FALSE]
           /\ UNCHANGED cmd
  <2> DEFINE r == [run[w] EXCEPT !.step = "cleanup", !.ok = FALSE]
  <2>0. "cleanup" \in Step /\ FALSE \in BOOLEAN
    BY DEF Step
  <2>1. r \in Run /\ r.step = "cleanup"
    BY <1>0, <2>0, RunTypes DEF Run
  <2>2. run' = [run EXCEPT ![w] = r] /\ UNCHANGED cmd
    BY <1>2 DEF ParseXlsxFile
  <2> HIDE DEF r
  <2>3. run' \in [Workers -> Run \cup {None}]
        /\ \A v \in Workers : In(v, "write")' => In(v, "write")
    BY <2>1, <2>2, RunReplaced DEF In
  <2>4. QED
    BY <2>2, <2>3
       DEF TypeOK, ParseXlsxFile, lifecycleVars, requests, history
<1>3. QED BY <1>1, <1>2 DEF ParseXlsxFile

\* The next row of a command, and what upserting it does.
LEMMA UpsertRowDoes ==
  ASSUME TypeOK, NEW w \in Workers, UpsertRow(w),
         cmd[w].todo \subseteq ValidRows(cmd[w].job)
  PROVE  \E i \in cmd[w].todo :
           LET j == cmd[w].job
               k == rows[j][i]
           IN  /\ i \in Nat /\ j \in Jobs /\ k \in Keys
               /\ \A n \in cmd[w].todo : i <= n
               /\ store' = [store EXCEPT ![k] = [job |-> j, number |-> i]]
               /\ cmd' = [cmd EXCEPT ![w] = [job |-> j, todo |-> cmd[w].todo \ {i}]]
               /\ run' = IF In(w, "write")
                         THEN [run EXCEPT ![w].summary = CountRow(@, k)] ELSE run
<1>1. cmd[w] \in Command /\ cmd[w].job \in Jobs /\ cmd[w].todo \in SUBSET Nat
  BY DEF UpsertRow, TypeOK, Command
<1>2. PICK i \in NextRows(w) :
        LET j == cmd[w].job
            k == rows[j][i]
        IN  /\ store' = [store EXCEPT ![k] = [job |-> j, number |-> i]]
            /\ cmd' = [cmd EXCEPT ![w].todo = @ \ {i}]
            /\ run' = IF In(w, "write")
                      THEN [run EXCEPT ![w].summary = CountRow(@, k)] ELSE run
  BY DEF UpsertRow
<1>3. [cmd[w] EXCEPT !.todo = @ \ {i}] =
        [job |-> cmd[w].job, todo |-> cmd[w].todo \ {i}]
  BY <1>1 DEF Command
<1>4. i \in cmd[w].todo /\ \A n \in cmd[w].todo : i <= n
  BY <1>2 DEF NextRows
<1>5. rows[cmd[w].job][i] \in Keys
  BY <1>1, <1>4, SheetTypes
<1>6. cmd' = [cmd EXCEPT ![w] = [cmd[w] EXCEPT !.todo = @ \ {i}]]
  BY <1>2
<1>7. QED BY <1>1, <1>2, <1>3, <1>4, <1>5, <1>6

\* Commands hold valid rows.
TodoValid == \A w \in Workers :
  cmd[w] # None => cmd[w].todo \subseteq ValidRows(cmd[w].job)

LEMMA UpsertRowType ==
  ASSUME TypeOK, TodoValid, NEW w \in Workers, UpsertRow(w) PROVE TypeOK'
<1>1. cmd[w] # None
  BY DEF UpsertRow
<1>2. PICK i \in cmd[w].todo :
        LET j == cmd[w].job
            k == rows[j][i]
        IN  /\ i \in Nat /\ j \in Jobs /\ k \in Keys
            /\ \A n \in cmd[w].todo : i <= n
            /\ store' = [store EXCEPT ![k] = [job |-> j, number |-> i]]
            /\ cmd' = [cmd EXCEPT ![w] = [job |-> j, todo |-> cmd[w].todo \ {i}]]
            /\ run' = IF In(w, "write")
                      THEN [run EXCEPT ![w].summary = CountRow(@, k)] ELSE run
  BY <1>1, UpsertRowDoes DEF TodoValid
<1> DEFINE j == cmd[w].job
           k == rows[j][i]
           d == [job |-> j, todo |-> cmd[w].todo \ {i}]
<1>3. d \in Command /\ [job |-> j, number |-> i] \in Row
  BY <1>1, <1>2 DEF TypeOK, Command, Row
<1>4. d # None
  BY <1>3, NoneAssumption
<1>5. /\ run' \in [Workers -> Run \cup {None}]
      /\ \A v \in Workers : In(v, "write")' => In(v, "write")
  <2>1. CASE In(w, "write")
    <3> DEFINE r == [run[w] EXCEPT !.summary = CountRow(run[w].summary, k)]
    <3>1. run[w] \in Run /\ run[w].summary \in Summary
      BY <2>1, RunTypes DEF In, Run
    <3>2. CountRow(run[w].summary, k) \in Summary
      BY <3>1 DEF CountRow, Summary
    <3>3. r \in Run /\ r.step = run[w].step
      BY <2>1, <3>1, <3>2, RunTypes DEF In, Run
    <3>4. run' = [run EXCEPT ![w] = r]
      BY <1>2, <2>1
    <3> HIDE DEF r
    <3>5. QED BY <2>1, <3>3, <3>4, RunReplaced DEF In
  <2>2. CASE ~In(w, "write")
    BY <1>2, <2>2 DEF TypeOK, In
  <2>3. QED BY <2>1, <2>2
<1> HIDE DEF d
<1>6. /\ store' \in [Keys -> Row \cup {None}]
      /\ cmd' \in [Workers -> Command \cup {None}]
      /\ \A v \in Workers : cmd[v] # None => cmd'[v] # None
  BY <1>2, <1>3, <1>4 DEF TypeOK, d
<1>7. QED
  BY <1>5, <1>6 DEF TypeOK, UpsertRow, lifecycleVars, requests, history

LEMMA RunLeaves ==
  ASSUME TypeOK, NEW w \in Workers, NEW r \in Run \cup {None},
         run' = [run EXCEPT ![w] = r],
         r = None \/ r.step # "write"
  PROVE  /\ run' \in [Workers -> Run \cup {None}]
         /\ \A v \in Workers : In(v, "write")' => v # w /\ In(v, "write")
BY RunReplaced DEF In

LEMMA BulkWriteEndsType ==
  ASSUME TypeOK, NEW w \in Workers, BulkWriteEnds(w) PROVE TypeOK'
<1>0. run[w] \in Run /\ run[w].job \in Jobs /\ run[w] # None
  BY RunTypes DEF BulkWriteEnds, In
<1>1. PICK r \in Run : run' = [run EXCEPT ![w] = r] /\ r.step = "cleanup"
  <2>1. "cleanup" \in Step /\ FALSE \in BOOLEAN
    BY DEF Step
  <2> DEFINE a == [run[w] EXCEPT !.step = "cleanup"]
             b == [run[w] EXCEPT !.step = "cleanup", !.ok = FALSE]
  <2>2. a \in Run /\ a.step = "cleanup" /\ b \in Run /\ b.step = "cleanup"
    BY <1>0, <2>1, RunTypes DEF Run
  <2>3. run' = [run EXCEPT ![w] = a] \/ run' = [run EXCEPT ![w] = b]
    BY DEF BulkWriteEnds
  <2> HIDE DEF a, b
  <2>4. QED BY <2>2, <2>3
<1>2. /\ run' \in [Workers -> Run \cup {None}]
      /\ \A v \in Workers : In(v, "write")' => v # w /\ In(v, "write")
  BY <1>1, RunLeaves
<1>3. QED
  BY <1>0, <1>2, FaultsType
     DEF TypeOK, BulkWriteEnds, lifecycleVars, requests

LEMMA LostCommandEndsType ==
  ASSUME TypeOK, NEW w \in Workers, LostCommandEnds(w) PROVE TypeOK'
<1>1. cmd[w].job \in Jobs
  BY DEF TypeOK, LostCommandEnds, Command
<1>2. QED
  BY <1>1 DEF TypeOK, LostCommandEnds, In, lifecycleVars, requests, workers

LEMMA CleanupImportFileType ==
  ASSUME TypeOK, NEW w \in Workers, CleanupImportFile(w) PROVE TypeOK'
<1>0. run[w] # None /\ run[w] \in Run /\ run[w].job \in Jobs
  BY RunTypes DEF CleanupImportFile, In
<1> DEFINE r == [run[w] EXCEPT !.step = "return"]
<1>1. r \in Run /\ r.step = "return"
  <2>1. "return" \in Step
    BY DEF Step
  <2>2. QED BY <1>0, <2>1, RunTypes DEF Run
<1>2. run' = [run EXCEPT ![w] = r]
  BY DEF CleanupImportFile
<1> HIDE DEF r
<1>3. /\ run' \in [Workers -> Run \cup {None}]
      /\ \A v \in Workers : In(v, "write")' => v # w /\ In(v, "write")
  BY <1>1, <1>2, RunLeaves
<1>4. QED
  BY <1>0, <1>3, FilesAssumption, FaultsType
     DEF TypeOK, CleanupImportFile, lifecycleVars, requests

\* The worker is done with its run; the job takes a step of its lifecycle, or
\* none.
LEMMA EndRunType ==
  ASSUME TypeOK, NEW w \in Workers, EndRun(w)
  PROVE  /\ run' \in [Workers -> Run \cup {None}]
         /\ \A v \in Workers : In(v, "write")' => v # w /\ In(v, "write")
BY RunLeaves DEF EndRun

LEMMA JobCompletedType ==
  ASSUME TypeOK, NEW w \in Workers, JobCompleted(w) PROVE TypeOK'
<1>1. run[w].job \in Jobs /\ run[w].summary \in Summary
  BY RunTypes DEF JobCompleted, In, Run
<1>2. QED
  BY <1>1, EndRunType
     DEF TypeOK, JobCompleted, Complete, Terminal, lifecycleVars, requests, history

LEMMA JobRetriedOrFailedType ==
  ASSUME TypeOK, NEW w \in Workers, JobRetriedOrFailed(w) PROVE TypeOK'
<1>1. run[w].job \in Jobs
  BY RunTypes DEF JobRetriedOrFailed, In
<1>2. faults' \in 0 .. MaxFaults
  BY FaultsType DEF JobRetriedOrFailed
<1>3. QED
  BY <1>1, <1>2, EndRunType
     DEF TypeOK, JobRetriedOrFailed, GiveBack, Abandon, Terminal,
         lifecycleVars, requests, history

LEMMA JobOfUnknownTypeType ==
  ASSUME TypeOK, NEW w \in Workers, JobOfUnknownType(w) PROVE TypeOK'
<1>1. run[w].job \in Jobs
  BY RunTypes DEF JobOfUnknownType, In
<1>2. QED
  BY <1>1, EndRunType
     DEF TypeOK, JobOfUnknownType, Abandon, Terminal, lifecycleVars,
         requests, history

LEMMA RequeueStuckType == ASSUME TypeOK, RequeueStuck PROVE TypeOK'
BY DEF TypeOK, RequeueStuck, GiveBack, In, requests, history, workers

LEMMA CrashType ==
  ASSUME TypeOK, NEW w \in Workers, Crash(w) PROVE TypeOK'
BY EndRunType, FaultsType
   DEF TypeOK, Crash, lifecycleVars, requests, history

LEMMA StutterType == ASSUME TypeOK, UNCHANGED vars PROVE TypeOK'
BY DEF TypeOK, vars, In

LEMMA NextType ==
  ASSUME TypeOK, TodoValid, Next
  PROVE  TypeOK'
BY UploadType, ImportXlsxByTypeType, EnqueueType, TakeJobType,
   ParseXlsxFileType, UpsertRowType, BulkWriteEndsType, LostCommandEndsType,
   CleanupImportFileType, JobCompletedType, JobRetriedOrFailedType,
   JobOfUnknownTypeType, RequeueStuckType, CrashType DEF Next

-----------------------------------------------------------------------------
(* What is stored.                                                         *)

\* A command has still to do all the valid rows from its next one on.
TodoInOrder == \A w \in Workers :
  cmd[w] # None =>
    \A i \in cmd[w].todo, n \in ValidRows(cmd[w].job) :
      i < n => n \in cmd[w].todo

\* The documents of all the rows of a job but some are there.
StoredBut(j, todo) ==
  \A i \in ValidRows(j) : i \in todo \/ store[rows[j][i]] # None

\* A run whose bulk write has not failed has stored, or has on their way, the
\* rows of its job.
RunsStore == \A w \in Workers :
  run[w] # None =>
    /\ run[w].step = "write" =>
         /\ cmd[w].job = run[w].job
         /\ StoredBut(run[w].job, cmd[w].todo)
    /\ run[w].ok /\ run[w].step \in {"cleanup", "return"} =>
         StoredBut(run[w].job, {})

EndedStored == \A j \in Jobs : phase[j] = "succeeded" => StoredBut(j, {})

\* A document as a row wrote it that has a later one of its key: the later
\* row is on its way, unless a bulk write of the job was cut short.
LaterRowsDue == \A j \in Jobs \ torn, k \in Keys :
  store[k] # None /\ store[k].job = j =>
    \A n \in ValidRows(j) :
      rows[j][n] = k /\ store[k].number < n =>
        \E w \in Workers : /\ cmd[w] # None
                            /\ cmd[w].job = j
                            /\ n \in cmd[w].todo

StoreInv == /\ TodoValid
            /\ TodoInOrder
            /\ RunsStore
            /\ EndedStored
            /\ LaterRowsDue

LEMMA InitStore == Init => StoreInv
BY DEF Init, LifecycleInit, StoreInv, TodoValid, TodoInOrder, RunsStore,
       EndedStored, LaterRowsDue

\* A run that goes on, but to no bulk write and from none.
GoesOn(v) ==
  \/ run'[v] = run[v]
  \/ run'[v] = None
  \/ run'[v].step \in {"parse", "noHandler"}
  \/ run'[v].step = "cleanup" /\ ~run'[v].ok
  \/ /\ run[v] # None /\ run[v].step = "cleanup"
     /\ run'[v].step = "return"
     /\ run'[v].job = run[v].job /\ run'[v].ok = run[v].ok

\* Steps that leave the documents and the commands alone.
LEMMA QuietStore ==
  ASSUME StoreInv, UNCHANGED <<store, cmd, torn>>,
         \A v \in Workers : GoesOn(v),
         \A j \in Jobs : phase'[j] = "succeeded" =>
           \/ phase[j] = "succeeded"
           \/ \E v \in Workers : In(v, "return") /\ run[v].ok /\ run[v].job = j
  PROVE  StoreInv'
<1>1. TodoValid' /\ TodoInOrder' /\ LaterRowsDue'
  BY DEF StoreInv, TodoValid, TodoInOrder, LaterRowsDue
<1>2. RunsStore'
  BY DEF StoreInv, RunsStore, GoesOn, StoredBut
<1>3. EndedStored'
  BY DEF StoreInv, EndedStored, RunsStore, In, StoredBut
<1>4. QED BY <1>1, <1>2, <1>3 DEF StoreInv

LEMMA RequestStore ==
  ASSUME TypeOK, StoreInv,
         \/ \E f \in Uploads : Upload(f)
         \/ \E j \in Jobs : ImportXlsxByType(j) \/ Enqueue(j)
         \/ RequeueStuck
         \/ UNCHANGED vars
  PROVE  StoreInv'
<1>1. UNCHANGED <<store, cmd, torn, run>>
  BY DEF Upload, ImportXlsxByType, Enqueue, RequeueStuck, vars, workers, history
<1>2. \A j \in Jobs : phase'[j] = "succeeded" => phase[j] = "succeeded"
  BY DEF Upload, ImportXlsxByType, Enqueue, RequeueStuck, vars, lifecycleVars,
         Submit, GiveBack, TypeOK
<1>3. QED BY <1>1, <1>2, QuietStore DEF GoesOn

LEMMA TakeJobStore ==
  ASSUME TypeOK, StoreInv, NEW w \in Workers, NEW j \in Jobs, TakeJob(w, j)
  PROVE  StoreInv'
<1>1. UNCHANGED <<store, cmd, torn>>
  BY DEF TakeJob, history
<1>2. \A i \in Jobs : phase'[i] = "succeeded" => phase[i] = "succeeded"
  BY DEF TakeJob, Take, TypeOK
<1>3. \A v \in Workers : GoesOn(v)
  BY DEF TakeJob, StartRun, GoesOn, TypeOK
<1>4. QED BY <1>1, <1>2, <1>3, QuietStore

LEMMA EndRunStore ==
  ASSUME TypeOK, StoreInv, NEW w \in Workers,
         \/ JobCompleted(w) \/ JobRetriedOrFailed(w) \/ JobOfUnknownType(w)
         \/ Crash(w)
  PROVE  StoreInv'
<1>1. UNCHANGED <<store, cmd, torn>>
  BY DEF JobCompleted, JobRetriedOrFailed, JobOfUnknownType, Crash, history
<1>2. \A v \in Workers : GoesOn(v)
  BY DEF JobCompleted, JobRetriedOrFailed, JobOfUnknownType, Crash, EndRun,
         GoesOn, TypeOK
<1>3. \A j \in Jobs : phase'[j] = "succeeded" =>
        \/ phase[j] = "succeeded"
        \/ In(w, "return") /\ run[w].ok /\ run[w].job = j
  BY DEF JobCompleted, JobRetriedOrFailed, JobOfUnknownType, Crash, Complete,
         GiveBack, Abandon, lifecycleVars, TypeOK
<1>4. QED BY <1>1, <1>2, <1>3, QuietStore

LEMMA CleanupStore ==
  ASSUME TypeOK, StoreInv, NEW w \in Workers, CleanupImportFile(w)
  PROVE  StoreInv'
<1>1. UNCHANGED <<store, cmd, torn, phase>>
  BY DEF CleanupImportFile, lifecycleVars
<1>2. run[w] \in Run /\ run[w] # None /\ run[w].step = "cleanup"
  BY RunTypes DEF CleanupImportFile, In
<1>3. run' = [run EXCEPT ![w] = [run[w] EXCEPT !.step = "return"]]
  BY DEF CleanupImportFile
<1>4. \A v \in Workers : GoesOn(v)
  BY <1>2, <1>3 DEF GoesOn, TypeOK, Run
<1>5. QED BY <1>1, <1>4, QuietStore

LEMMA ParseXlsxFileStore ==
  ASSUME TypeOK, StoreInv, NEW w \in Workers, ParseXlsxFile(w)
  PROVE  StoreInv'
<1> DEFINE j == run[w].job
<1>0. /\ run[w] # None /\ run[w] \in Run /\ j \in Jobs
      /\ UNCHANGED <<store, torn, phase>> /\ cmd[w] = None
  BY RunTypes DEF ParseXlsxFile, In, history, lifecycleVars
<1>1. CASE /\ run' = [run EXCEPT ![w].step = "write", ![w].summary = Counted(j)]
           /\ cmd' = [cmd EXCEPT ![w] = [job |-> j, todo |-> ValidRows(j)]]
  <2>1. /\ cmd' = [cmd EXCEPT ![w] = [job |-> j, todo |-> ValidRows(j)]]
        /\ run' = [run EXCEPT ![w] = [run[w] EXCEPT !.step = "write",
                                                   !.summary = Counted(j)]]
    BY <1>1 DEF ParseXlsxFile
  <2>2. /\ \A v \in Workers : v # w => cmd'[v] = cmd[v] /\ run'[v] = run[v]
        /\ cmd'[w].job = j /\ cmd'[w].todo = ValidRows(j)
        /\ run'[w].job = j /\ run'[w].step = "write"
    BY <1>0, <2>1 DEF TypeOK, Run
  <2>3. TodoValid' /\ TodoInOrder'
    BY <2>2 DEF StoreInv, TodoValid, TodoInOrder
  <2>4. RunsStore'
    BY <1>0, <2>2 DEF StoreInv, RunsStore, StoredBut
  <2>5. EndedStored' /\ LaterRowsDue'
    BY <1>0, <2>2 DEF StoreInv, EndedStored, StoredBut, LaterRowsDue
  <2>6. QED BY <2>3, <2>4, <2>5 DEF StoreInv
<1>2. CASE /\ run' = [run EXCEPT ![w].step = "cleanup", ![w].ok = FALSE]
           /\ UNCHANGED cmd
  <2>1. /\ UNCHANGED cmd
        /\ run' = [run EXCEPT ![w] = [run[w] EXCEPT !.step = "cleanup",
                                                   !.ok = FALSE]]
    BY <1>2 DEF ParseXlsxFile
  <2>2. \A v \in Workers : GoesOn(v)
    BY <1>0, <2>1 DEF GoesOn, TypeOK, Run
  <2>3. QED BY <1>0, <2>1, <2>2, QuietStore
<1>3. QED BY <1>1, <1>2 DEF ParseXlsxFile

\* A command ends: its worker is not at the bulk write any more, and if rows
\* were still to be written the job is torn.
LEMMA CommandEndsStore ==
  ASSUME TypeOK, StoreInv, NEW w \in Workers, cmd[w] # None,
         cmd' = [cmd EXCEPT ![w] = None],
         UNCHANGED <<store, phase>>,
         torn \subseteq torn',
         cmd[w].todo # {} => cmd[w].job \in torn',
         RunsStore'
  PROVE  StoreInv'
<1>1. \A v \in Workers : v # w => cmd'[v] = cmd[v]
  BY DEF TypeOK
<1>2. cmd'[w] = None
  BY DEF TypeOK
<1>3. TodoValid' /\ TodoInOrder' /\ EndedStored'
  BY <1>1, <1>2 DEF StoreInv, TodoValid, TodoInOrder, EndedStored, StoredBut
<1>4. LaterRowsDue'
  BY <1>1, <1>2 DEF StoreInv, LaterRowsDue
<1>5. QED BY <1>3, <1>4 DEF StoreInv

LEMMA BulkWriteEndsStore ==
  ASSUME TypeOK, StoreInv, NEW w \in Workers, BulkWriteEnds(w)
  PROVE  StoreInv'
<1>0. /\ run[w] # None /\ run[w] \in Run /\ run[w].step = "write"
      /\ cmd[w] # None /\ cmd[w].job = run[w].job
      /\ UNCHANGED <<store, phase>>
  BY RunTypes DEF BulkWriteEnds, In, lifecycleVars, TypeOK, StoreInv, RunsStore
<1>1. CASE /\ cmd[w].todo = {}
           /\ cmd' = [cmd EXCEPT ![w] = None]
           /\ run' = [run EXCEPT ![w].step = "cleanup"]
           /\ UNCHANGED torn
  <2>1. /\ \A v \in Workers : v # w => cmd'[v] = cmd[v] /\ run'[v] = run[v]
        /\ run'[w] # None => run'[w].step = "cleanup"
        /\ run'[w].job = run[w].job
    BY <1>0, <1>1 DEF TypeOK, Run
  <2>2. StoredBut(run[w].job, {})'
    <3>1. StoredBut(run[w].job, {})
      BY <1>0, <1>1 DEF StoreInv, RunsStore
    <3>2. QED BY <1>0, <2>1, <3>1 DEF StoredBut
  <2>3. RunsStore'
    BY <1>0, <2>1, <2>2 DEF StoreInv, RunsStore, StoredBut
  <2>4. QED BY <1>0, <1>1, <2>3, CommandEndsStore
<1>2. CASE /\ run' = [run EXCEPT ![w].step = "cleanup", ![w].ok = FALSE]
           /\ cmd' = [cmd EXCEPT ![w] = None]
           /\ torn' = torn \cup {run[w].job}
  <2>1. /\ \A v \in Workers : v # w => cmd'[v] = cmd[v] /\ run'[v] = run[v]
        /\ run'[w].step = "cleanup" /\ ~run'[w].ok
    BY <1>0, <1>2 DEF TypeOK, Run
  <2>2. RunsStore'
    BY <1>0, <2>1 DEF StoreInv, RunsStore, StoredBut
  <2>3. QED BY <1>0, <1>2, <2>2, CommandEndsStore
<1>3. CASE /\ run' = [run EXCEPT ![w].step = "cleanup", ![w].ok = FALSE]
           /\ UNCHANGED <<cmd, torn>>
  <2>1. /\ \A v \in Workers : v # w => run'[v] = run[v]
        /\ run'[w].step = "cleanup" /\ ~run'[w].ok
    BY <1>0, <1>3 DEF TypeOK, Run
  <2>2. QED BY <1>0, <1>3, <2>1, QuietStore DEF GoesOn
<1>4. QED BY <1>1, <1>2, <1>3 DEF BulkWriteEnds

LEMMA LostCommandEndsStore ==
  ASSUME TypeOK, StoreInv, NEW w \in Workers, LostCommandEnds(w)
  PROVE  StoreInv'
<1>1. /\ cmd[w] # None /\ ~In(w, "write")
      /\ cmd' = [cmd EXCEPT ![w] = None]
      /\ UNCHANGED <<store, phase, run>>
      /\ torn' = IF cmd[w].todo = {} THEN torn ELSE torn \cup {cmd[w].job}
  BY DEF LostCommandEnds, lifecycleVars, workers
<1>2. \A v \in Workers : v # w => cmd'[v] = cmd[v]
  BY <1>1 DEF TypeOK
<1>3. RunsStore'
  BY <1>1, <1>2 DEF StoreInv, RunsStore, StoredBut, In
<1>4. QED BY <1>1, <1>3, CommandEndsStore

\* A row is upserted, and is its command's to do no longer.
LEMMA UpsertRowStore ==
  ASSUME TypeOK, StoreInv, NEW w \in Workers, UpsertRow(w)
  PROVE  StoreInv'
<1>1. cmd[w] # None /\ UNCHANGED <<phase, torn>>
  BY DEF UpsertRow, lifecycleVars, history
<1>2. PICK i \in cmd[w].todo :
        LET j == cmd[w].job
            k == rows[j][i]
        IN  /\ i \in Nat /\ j \in Jobs /\ k \in Keys
            /\ \A n \in cmd[w].todo : i <= n
            /\ store' = [store EXCEPT ![k] = [job |-> j, number |-> i]]
            /\ cmd' = [cmd EXCEPT ![w] = [job |-> j, todo |-> cmd[w].todo \ {i}]]
            /\ run' = IF In(w, "write")
                      THEN [run EXCEPT ![w].summary = CountRow(@, k)] ELSE run
  BY <1>1, UpsertRowDoes DEF StoreInv, TodoValid
<1> DEFINE j == cmd[w].job
           k == rows[j][i]
<1>3. /\ store'[k] = [job |-> j, number |-> i] /\ store'[k] # None
      /\ store'[k].job = j /\ store'[k].number = i
      /\ \A l \in Keys : l # k => store'[l] = store[l]
  <2>1. [job |-> j, number |-> i] \in Row
    BY <1>2 DEF Row
  <2>2. QED BY <1>2, <2>1, NoneAssumption DEF TypeOK
<1>4. /\ cmd'[w].job = j /\ cmd'[w].todo = cmd[w].todo \ {i}
      /\ \A v \in Workers : v # w => cmd'[v] = cmd[v]
      /\ cmd'[w] # None
  <2>1. [job |-> j, todo |-> cmd[w].todo \ {i}] \in Command
    BY <1>1, <1>2 DEF TypeOK, Command
  <2>2. QED BY <1>2, <2>1, NoneAssumption DEF TypeOK
<1>5. \A v \in Workers : run'[v] # None =>
        /\ run[v] # None
        /\ run'[v].job = run[v].job /\ run'[v].step = run[v].step
        /\ run'[v].ok = run[v].ok
  <2>1. CASE In(w, "write")
    <3>1. run' = [run EXCEPT ![w] = [run[w] EXCEPT
                                       !.summary = CountRow(run[w].summary, k)]]
      BY <1>2, <2>1
    <3>2. run[w] \in Run /\ run[w] # None
      BY <2>1, RunTypes DEF In
    <3>3. QED BY <3>1, <3>2 DEF TypeOK, Run
  <2>2. CASE ~In(w, "write")
    BY <1>2, <2>2
  <2>3. QED BY <2>1, <2>2
<1>6. i \in ValidRows(j)
  BY <1>1, <1>2 DEF StoreInv, TodoValid
<1>7. TodoValid'
  <2>1. cmd'[w].todo \subseteq ValidRows(cmd'[w].job)
    BY <1>1, <1>4 DEF StoreInv, TodoValid
  <2>2. \A v \in Workers : v # w /\ cmd'[v] # None =>
          cmd'[v].todo \subseteq ValidRows(cmd'[v].job)
    BY <1>4 DEF StoreInv, TodoValid
  <2>3. QED BY <2>1, <2>2 DEF TodoValid, ValidRows
<1>8. TodoInOrder'
  <2> SUFFICES ASSUME NEW v \in Workers, cmd'[v] # None,
                      NEW l \in cmd'[v].todo, NEW n \in ValidRows(cmd'[v].job),
                      l < n
               PROVE  n \in cmd'[v].todo
    BY DEF TodoInOrder
  <2>1. CASE v # w
    BY <1>4, <2>1 DEF StoreInv, TodoInOrder
  <2>2. CASE v = w
    <3>1. l \in cmd[w].todo /\ i <= l /\ n \in ValidRows(j)
      BY <1>2, <1>4, <2>2
    <3>2. n \in cmd[w].todo
      BY <1>1, <3>1 DEF StoreInv, TodoInOrder
    <3>3. l \in Nat /\ n \in Nat
      BY <1>1, <1>2, <3>1, SheetTypes DEF StoreInv, TodoValid
    <3>4. n # i
      BY <1>2, <3>1, <3>3
    <3>5. QED BY <1>4, <2>2, <3>2, <3>4
  <2>3. QED BY <2>1, <2>2
<1>9. \A v \in Workers, x \in Jobs :
        cmd[v].job = x /\ StoredBut(x, cmd[v].todo)
        => StoredBut(x, cmd[v].todo)'
  <2> SUFFICES ASSUME NEW v \in Workers, NEW x \in Jobs, cmd[v].job = x,
                      StoredBut(x, cmd[v].todo), NEW n \in ValidRows(x),
                      n \notin cmd'[v].todo
               PROVE  store'[rows[x][n]] # None
    BY DEF StoredBut
  <2>1. rows[x][n] \in Keys
    BY SheetTypes
  <2>2. CASE n \notin cmd[v].todo
    BY <1>3, <2>1, <2>2 DEF StoredBut
  <2>3. CASE n \in cmd[v].todo
    BY <1>3, <1>4, <2>3
  <2>4. QED BY <2>2, <2>3
<1>10. \A x \in Jobs : StoredBut(x, {}) => StoredBut(x, {})'
  BY <1>3, SheetTypes DEF StoredBut
<1>11. \A v \in Workers : run[v] # None => run[v].job \in Jobs
  BY RunTypes
<1>12. RunsStore'
  <2>1. \A v \in Workers : cmd'[v].job = cmd[v].job
    BY <1>4
  <2>2. QED BY <1>5, <1>9, <1>10, <1>11, <2>1 DEF StoreInv, RunsStore
<1>13. EndedStored'
  BY <1>1, <1>10 DEF StoreInv, EndedStored
<1>14. LaterRowsDue'
  <2> SUFFICES ASSUME NEW x \in Jobs \ torn', NEW l \in Keys,
                      store'[l] # None, store'[l].job = x,
                      NEW n \in ValidRows(x),
                      rows[x][n] = l, store'[l].number < n
               PROVE  \E v \in Workers : /\ cmd'[v] # None
                                         /\ cmd'[v].job = x
                                         /\ n \in cmd'[v].todo
    BY DEF LaterRowsDue
  <2>1. CASE l = k
    <3>1. x = j /\ i < n
      BY <1>3, <2>1
    <3>2. n \in cmd[w].todo
      BY <1>1, <1>2, <3>1 DEF StoreInv, TodoInOrder
    <3>3. n # i
      BY <1>2, <3>1
    <3>4. QED BY <1>4, <3>1, <3>2, <3>3
  <2>2. CASE l # k
    <3>1. store'[l] = store[l]
      BY <1>3, <2>2
    <3>2. PICK v \in Workers : /\ cmd[v] # None
                               /\ cmd[v].job = x
                               /\ n \in cmd[v].todo
      BY <1>1, <3>1 DEF StoreInv, LaterRowsDue
    <3>3. v = w => n # i
      BY <2>2, <3>2
    <3>4. QED BY <1>4, <3>2, <3>3
  <2>3. QED BY <2>1, <2>2
<1>15. QED BY <1>7, <1>8, <1>12, <1>13, <1>14 DEF StoreInv

LEMMA NextStore ==
  ASSUME TypeOK, StoreInv, [Next]_vars
  PROVE  StoreInv'
BY RequestStore, TakeJobStore, EndRunStore, CleanupStore, ParseXlsxFileStore,
   BulkWriteEndsStore, LostCommandEndsStore, UpsertRowStore DEF Next

-----------------------------------------------------------------------------
(* The uploads.                                                            *)

\* A job that was asked for, or is there, has its file received before.
FilesReceived == \A j \in Jobs :
  fileOf[j] \in Uploads /\ (j \in asked \/ phase[j] # "absent") =>
    fileOf[j] \in uploaded

RunsOfJobs == \A w \in Workers : run[w] # None => phase[run[w].job] # "absent"

PresentReceived == files \cap Uploads \subseteq uploaded

\* An upload was refused or has a job, or will.
UploadsHaveJobs == \A f \in uploaded :
  f \in refused \/ \E j \in Jobs :
                     fileOf[j] = f /\ (phase[j] # "absent" \/ j \in asked)

\* Not there any more, once received, unless its unlink failed.
Gone(f) == f \in Uploads /\ f \in files => f \in kept
GoneNext(f) == f \in Uploads /\ f \in files' => f \in kept'

RunsCleanUp == \A w \in Workers : In(w, "return") => Gone(fileOf[run[w].job])

EndedGone == \A j \in Jobs :
  phase[j] \in Terminal => Gone(fileOf[j]) \/ cause[j] = "QUEUE_INVALID_TYPE"

UploadsInv == /\ FilesReceived
              /\ RunsOfJobs
              /\ PresentReceived
              /\ UploadsHaveJobs
              /\ RunsCleanUp
              /\ EndedGone

LEMMA InitUploads == Init => UploadsInv
BY DEF Init, LifecycleInit, UploadsInv, FilesReceived, RunsOfJobs,
       PresentReceived, UploadsHaveJobs, RunsCleanUp, EndedGone, In, Terminal

\* Jobs that are there stay; a file a job has waited for is not received anew.
LEMMA UploadUploads ==
  ASSUME TypeOK, UploadsInv, NEW f \in Uploads, Upload(f)
  PROVE  UploadsInv'
<1>0. /\ f \notin uploaded /\ uploaded' = uploaded \cup {f}
      /\ files' = files \cup {f} /\ UNCHANGED <<phase, cause, run, kept>>
      /\ asked \subseteq asked' /\ refused \subseteq refused'
  BY DEF Upload, lifecycleVars, workers
<1>1. FilesReceived' /\ PresentReceived' /\ RunsOfJobs'
  BY <1>0 DEF Upload, UploadsInv, FilesReceived, PresentReceived, RunsOfJobs
<1>2. UploadsHaveJobs'
  BY <1>0 DEF Upload, UploadsInv, UploadsHaveJobs
<1>3. \A j \in Jobs : phase[j] # "absent" /\ Gone(fileOf[j]) => Gone(fileOf[j])'
  BY <1>0 DEF UploadsInv, FilesReceived, Gone
<1>4. RunsCleanUp'
  BY <1>0, <1>3, RunTypes DEF UploadsInv, RunsCleanUp, RunsOfJobs, In, Gone
<1>5. EndedGone'
  BY <1>0, <1>3 DEF UploadsInv, EndedGone, Terminal
<1>6. QED BY <1>1, <1>2, <1>4, <1>5 DEF UploadsInv

LEMMA RequestUploads ==
  ASSUME TypeOK, UploadsInv, NEW j \in Jobs, ImportXlsxByType(j) \/ Enqueue(j)
  PROVE  UploadsInv'
<1>0. /\ UNCHANGED <<files, uploaded, run, kept, cause>>
      /\ refused \subseteq refused'
  BY DEF ImportXlsxByType, Enqueue, Submit, lifecycleVars, workers, history
<1>1. \A i \in Jobs : \/ phase'[i] = phase[i]
                      \/ i = j /\ j \in asked /\ phase'[i] = "queued"
  BY DEF ImportXlsxByType, Enqueue, Submit, lifecycleVars, TypeOK
<1>2. FilesReceived'
  BY <1>0, <1>1 DEF ImportXlsxByType, Enqueue, UploadsInv, FilesReceived,
                    PresentReceived
<1>3. RunsOfJobs' /\ PresentReceived' /\ RunsCleanUp'
  BY <1>0, <1>1, RunTypes DEF UploadsInv, RunsOfJobs, PresentReceived,
                              RunsCleanUp, In, Gone
<1>4. UploadsHaveJobs'
  <2>1. CASE ImportXlsxByType(j)
    BY <1>0, <1>1, <2>1 DEF ImportXlsxByType, UploadsInv, UploadsHaveJobs
  <2>2. CASE Enqueue(j)
    <3>1. \/ phase'[j] # "absent" \/ fileOf[j] \in refused'
          \/ fileOf[j] \notin Uploads
      BY <2>2 DEF Enqueue, Submit, lifecycleVars, TypeOK
    <3>2. asked' = asked \ {j}
      BY <2>2 DEF Enqueue
    <3>3. QED BY <1>0, <1>1, <3>1, <3>2 DEF UploadsInv, UploadsHaveJobs, TypeOK
  <2>3. QED BY <2>1, <2>2
<1>5. EndedGone'
  BY <1>0, <1>1 DEF UploadsInv, EndedGone, Gone, Terminal
<1>6. QED BY <1>2, <1>3, <1>4, <1>5 DEF UploadsInv

\* Steps of workers: no request is made, no file received.
LEMMA WorkerUploads ==
  ASSUME TypeOK, UploadsInv,
         UNCHANGED <<asked, uploaded, refused>>,
         files' \subseteq files, kept \subseteq kept',
         \A j \in Jobs : phase'[j] = "absent" <=> phase[j] = "absent",
         \A v \in Workers : run'[v] # None =>
           /\ run'[v].job \in Jobs
           /\ phase'[run'[v].job] # "absent"
           /\ run'[v].step = "return" =>
                run'[v] = run[v] \/ GoneNext(fileOf[run'[v].job]),
         \A j \in Jobs : phase'[j] \in Terminal =>
           \/ phase[j] \in Terminal /\ cause'[j] = cause[j]
           \/ Gone(fileOf[j]) \/ cause'[j] = "QUEUE_INVALID_TYPE"
  PROVE  UploadsInv'
<1>1. \A f : Gone(f) => GoneNext(f)
  BY DEF Gone, GoneNext
<1>2. FilesReceived' /\ PresentReceived' /\ UploadsHaveJobs' /\ RunsOfJobs'
  BY DEF UploadsInv, FilesReceived, PresentReceived, UploadsHaveJobs, RunsOfJobs
<1>3. RunsCleanUp'
  <2> SUFFICES ASSUME NEW v \in Workers, run'[v] # None, run'[v].step = "return"
               PROVE  GoneNext(fileOf[run'[v].job])
    BY DEF RunsCleanUp, In, Gone, GoneNext
  <2>1. CASE run'[v] = run[v]
    BY <1>1, <2>1 DEF UploadsInv, RunsCleanUp, In
  <2>2. QED BY <2>1
<1>4. EndedGone'
  BY <1>1 DEF UploadsInv, EndedGone, Gone, GoneNext
<1>5. QED BY <1>2, <1>3, <1>4 DEF UploadsInv

\* What a worker's step makes of its run.
LEMMA QuietWorkerUploads ==
  ASSUME TypeOK, UploadsInv,
         UNCHANGED <<asked, uploaded, refused, files, kept, phase, cause>>,
         \A v \in Workers : run'[v] # None =>
           \/ run'[v] = run[v]
           \/ /\ run[v] # None
              /\ run'[v].job = run[v].job
              /\ run'[v].step = "return" => run[v].step = "return"
  PROVE  UploadsInv'
<1>1. \A v \in Workers : run'[v] # None =>
        /\ run[v] # None
        /\ run'[v].job = run[v].job
        /\ run'[v].job \in Jobs
        /\ phase[run'[v].job] # "absent"
  BY RunTypes DEF UploadsInv, RunsOfJobs
<1>2. \A v \in Workers : run'[v] # None /\ run'[v].step = "return" =>
        GoneNext(fileOf[run'[v].job])
  BY <1>1 DEF UploadsInv, RunsCleanUp, In, Gone, GoneNext
<1>3. QED BY <1>1, <1>2, WorkerUploads

LEMMA HandlerUploads ==
  ASSUME TypeOK, UploadsInv, TodoValid, NEW w \in Workers,
         \/ ParseXlsxFile(w) \/ UpsertRow(w) \/ BulkWriteEnds(w)
         \/ LostCommandEnds(w) \/ Crash(w)
  PROVE  UploadsInv'
<1>1. UNCHANGED <<asked, uploaded, refused, files, kept, phase, cause>>
  BY DEF ParseXlsxFile, UpsertRow, BulkWriteEnds, LostCommandEnds, Crash,
         lifecycleVars, requests, history
<1>2. CASE Crash(w) \/ LostCommandEnds(w)
  <2>1. \A v \in Workers : run'[v] \in {run[v], None}
    BY <1>2 DEF Crash, EndRun, LostCommandEnds, workers, TypeOK
  <2>2. QED BY <1>1, <2>1, QuietWorkerUploads
<1>3. CASE run[w] # None /\ ~(Crash(w) \/ LostCommandEnds(w))
  <2>1. run[w] \in Run /\ run[w] # None
    BY <1>3, RunTypes
  <2>2. \A v \in Workers : run'[v] # None =>
           \/ run'[v] = run[v]
           \/ /\ run[v] # None
              /\ run'[v].job = run[v].job
              /\ run'[v].step = "return" => run[v].step = "return"
    <3>1. CASE ParseXlsxFile(w)
      <4>1. \/ run' = [run EXCEPT ![w].step = "write", ![w].summary = Counted(run[w].job)]
            \/ run' = [run EXCEPT ![w].step = "cleanup", ![w].ok = FALSE]
        BY <3>1 DEF ParseXlsxFile
      <4>2. QED BY <2>1, <4>1 DEF TypeOK, Run
    <3>2. CASE UpsertRow(w)
      <4>1. PICK i \in NextRows(w) :
              run' = IF In(w, "write")
                     THEN [run EXCEPT ![w].summary =
                             CountRow(@, rows[cmd[w].job][i])]
                     ELSE run
        BY <3>2 DEF UpsertRow
      <4>2. CASE In(w, "write")
        <5> DEFINE x == CountRow(run[w].summary, rows[cmd[w].job][i])
        <5>1. run' = [run EXCEPT ![w].summary = x]
          BY <4>1, <4>2
        <5> HIDE DEF x
        <5>2. QED BY <2>1, <5>1 DEF TypeOK, Run
      <4>3. CASE ~In(w, "write")
        BY <4>1, <4>3
      <4>4. QED BY <4>2, <4>3
    <3>3. CASE BulkWriteEnds(w)
      <4>1. \/ run' = [run EXCEPT ![w].step = "cleanup"]
            \/ run' = [run EXCEPT ![w].step = "cleanup", ![w].ok = FALSE]
        BY <3>3 DEF BulkWriteEnds
      <4>2. QED BY <2>1, <4>1 DEF TypeOK, Run
    <3>4. QED BY <1>3, <3>1, <3>2, <3>3
  <2>3. QED BY <1>1, <2>2, QuietWorkerUploads
<1>4. CASE run[w] = None /\ ~(Crash(w) \/ LostCommandEnds(w))
  <2>1. UNCHANGED run
    BY <1>4 DEF ParseXlsxFile, UpsertRow, BulkWriteEnds, In
  <2>2. QED BY <1>1, <2>1, QuietWorkerUploads
<1>5. QED BY <1>2, <1>3, <1>4

LEMMA TakeJobUploads ==
  ASSUME TypeOK, UploadsInv, NEW w \in Workers, NEW j \in Jobs, TakeJob(w, j)
  PROVE  UploadsInv'
<1>1. /\ UNCHANGED <<asked, uploaded, refused, files, kept, cause>>
      /\ phase' = [phase EXCEPT ![j] = "processing"] /\ phase[j] = "queued"
  BY DEF TakeJob, Take, requests, history
<1>2. \A i \in Jobs : /\ phase'[i] = "absent" <=> phase[i] = "absent"
                      /\ phase'[i] \in Terminal => phase[i] \in Terminal
                      /\ i = j => phase'[i] # "absent"
  BY <1>1 DEF TypeOK, Terminal
<1>3. \A v \in Workers : \/ run'[v] = run[v]
                         \/ /\ run'[v].job = j
                            /\ run'[v].step \in {"parse", "noHandler"}
  BY DEF TakeJob, StartRun, TypeOK
<1>4. \A v \in Workers : run'[v] # None =>
        /\ run'[v].job \in Jobs
        /\ phase'[run'[v].job] # "absent"
        /\ run'[v].step = "return" => run'[v] = run[v]
  BY <1>2, <1>3, RunTypes DEF UploadsInv, RunsOfJobs
<1>5. QED BY <1>1, <1>2, <1>4, WorkerUploads

LEMMA CleanupUploads ==
  ASSUME TypeOK, UploadsInv, NEW w \in Workers, CleanupImportFile(w)
  PROVE  UploadsInv'
<1>1. /\ UNCHANGED <<asked, uploaded, refused, phase, cause>>
      /\ files' \subseteq files /\ kept \subseteq kept'
      /\ GoneNext(fileOf[run[w].job])
  BY DEF CleanupImportFile, requests, lifecycleVars, GoneNext
<1>2. run[w] \in Run /\ run[w] # None
  BY RunTypes DEF CleanupImportFile, In
<1>3. run' = [run EXCEPT ![w] = [run[w] EXCEPT !.step = "return"]]
  BY DEF CleanupImportFile
<1>4. \A v \in Workers : run'[v] # None =>
        /\ run[v] # None /\ run'[v].job = run[v].job
        /\ run'[v] = run[v] \/ v = w
  BY <1>2, <1>3 DEF TypeOK, Run
<1>5. \A v \in Workers : run'[v] # None =>
        /\ run'[v].job \in Jobs
        /\ phase'[run'[v].job] # "absent"
        /\ run'[v].step = "return" =>
             run'[v] = run[v] \/ GoneNext(fileOf[run'[v].job])
  BY <1>1, <1>4, RunTypes DEF UploadsInv, RunsOfJobs
<1>6. QED BY <1>1, <1>5, WorkerUploads

LEMMA EndRunUploads ==
  ASSUME TypeOK, UploadsInv, NEW w \in Workers,
         JobCompleted(w) \/ JobRetriedOrFailed(w) \/ JobOfUnknownType(w)
  PROVE  UploadsInv'
<1>0. UNCHANGED <<asked, uploaded, refused, files, kept>>
  BY DEF JobCompleted, JobRetriedOrFailed, JobOfUnknownType, requests, history
<1>1. run[w] # None /\ run[w].job \in Jobs
  BY RunTypes DEF JobCompleted, JobRetriedOrFailed, JobOfUnknownType, In
<1>2. \A v \in Workers : run'[v] # None => run'[v] = run[v] /\ run[v] # None
  BY DEF JobCompleted, JobRetriedOrFailed, JobOfUnknownType, EndRun, TypeOK
<1>3. \A j \in Jobs : phase'[j] = "absent" <=> phase[j] = "absent"
  BY <1>1 DEF JobCompleted, JobRetriedOrFailed, JobOfUnknownType, Complete,
              GiveBack, Abandon, lifecycleVars, TypeOK
<1>4. \A j \in Jobs : phase'[j] \in Terminal =>
        \/ phase[j] \in Terminal /\ cause'[j] = cause[j]
        \/ In(w, "return") /\ j = run[w].job
        \/ cause'[j] = "QUEUE_INVALID_TYPE"
  BY <1>1 DEF JobCompleted, JobRetriedOrFailed, JobOfUnknownType, Complete,
              GiveBack, Abandon, lifecycleVars, TypeOK, Terminal
<1>5. \A j \in Jobs : In(w, "return") /\ j = run[w].job => Gone(fileOf[j])
  BY DEF UploadsInv, RunsCleanUp
<1>6. \A v \in Workers : run'[v] # None =>
        run'[v].job \in Jobs /\ phase'[run'[v].job] # "absent"
  BY <1>2, <1>3, RunTypes DEF UploadsInv, RunsOfJobs
<1>7. QED BY <1>0, <1>2, <1>3, <1>4, <1>5, <1>6, WorkerUploads

LEMMA RequeueUploads ==
  ASSUME TypeOK, UploadsInv, RequeueStuck \/ UNCHANGED vars
  PROVE  UploadsInv'
<1>0. UNCHANGED <<asked, uploaded, refused, files, kept, run, cause>>
  BY DEF RequeueStuck, GiveBack, vars, requests, history, workers
<1>1. \A j \in Jobs : /\ phase'[j] = "absent" <=> phase[j] = "absent"
                      /\ phase'[j] \in Terminal => phase[j] \in Terminal
  BY DEF RequeueStuck, GiveBack, vars, TypeOK, Terminal
<1>2. \A v \in Workers : run'[v] # None =>
        run'[v].job \in Jobs /\ phase'[run'[v].job] # "absent"
  BY <1>0, <1>1, RunTypes DEF UploadsInv, RunsOfJobs
<1>3. QED BY <1>0, <1>1, <1>2, WorkerUploads

LEMMA NextUploads ==
  ASSUME TypeOK, TodoValid, UploadsInv, [Next]_vars
  PROVE  UploadsInv'
BY UploadUploads, RequestUploads, HandlerUploads, TakeJobUploads,
   CleanupUploads, EndRunUploads, RequeueUploads DEF Next

-----------------------------------------------------------------------------
(* What the summaries say.                                                 *)

\* The counts of a summary add up, some rows being still to be written.
Adds(summary, left) ==
  /\ summary.valid + summary.failed = summary.totalRows
  /\ summary.inserted + summary.updated + left = summary.valid

RunsAdd == \A w \in Workers :
  run[w] # None =>
    /\ run[w].step = "write" => Adds(run[w].summary, Cardinality(cmd[w].todo))
    /\ run[w].ok /\ run[w].step \in {"cleanup", "return"} =>
         Adds(run[w].summary, 0)

ResultsAdd == \A j \in Jobs :
  phase[j] = "succeeded" => result[j] \in Summary /\ Adds(result[j], 0)

\* Who has an insert in its counts: a run, the summary of a job, or nobody.
RunOf(w) == <<"run", w>>
JobOf(j) == <<"job", j>>
Nobody == <<"nobody", None>>
Reporters ==
  {RunOf(w) : w \in Workers} \cup {JobOf(j) : j \in Jobs} \cup {Nobody}

InsertsOf(own, x) == {k \in Keys : own[k] = x}

Reports(own, x, j, n) ==
  /\ InsertsOf(own, x) \subseteq KeysOf(j)
  /\ Cardinality(InsertsOf(own, x)) = n

\* A document is inserted once, so that the inserts can be shared out between
\* the summaries: each is in the counts of one of them at most.
Shared(own) ==
  /\ \A k \in Keys : store[k] = None => own[k] = Nobody
  /\ \A w \in Workers : run[w] # None =>
       Reports(own, RunOf(w), run[w].job, run[w].summary.inserted)
  /\ \A j \in Jobs : phase[j] = "succeeded" =>
       Reports(own, JobOf(j), j, result[j].inserted)

InsertsShared == \E own \in [Keys -> Reporters] : Shared(own)

SummaryInv == RunsAdd /\ ResultsAdd /\ InsertsShared

LEMMA SheetCounts ==
  ASSUME NEW j \in Jobs
  PROVE  /\ IsFiniteSet(ValidRows(j))
         /\ IsFiniteSet(KeysOf(j))
         /\ \A i \in ValidRows(j) : rows[j][i] \in KeysOf(j)
         /\ Adds(Counted(j), Cardinality(ValidRows(j)))
<1>1. rows[j] \in Seq(Keys \cup {Invalid}) /\ Len(rows[j]) \in Nat
  BY RowsAssumption
<1>2. ValidRows(j) \in SUBSET (1 .. Len(rows[j]))
  BY DEF ValidRows
<1>3. IsFiniteSet(ValidRows(j)) /\ Cardinality(ValidRows(j)) \in Nat
  <2>1. IsFiniteSet(1 .. Len(rows[j]))
    BY <1>1, FS_Interval
  <2>2. QED BY <1>2, <2>1, FS_Subset, FS_CardinalityType
<1>4. \A i \in ValidRows(j) : rows[j][i] \in KeysOf(j)
  BY <1>1, <1>2, SheetTypes DEF KeysOf
<1>5. IsFiniteSet(KeysOf(j))
  <2> DEFINE f == [i \in ValidRows(j) |-> rows[j][i]]
  <2>1. \A k \in KeysOf(j) : \E i \in ValidRows(j) : f[i] = k
    BY RowsAssumption DEF KeysOf, ValidRows
  <2>2. f \in Surjection(ValidRows(j), KeysOf(j))
    BY <1>4, <2>1 DEF Surjection
  <2>3. QED BY <1>3, <2>2, FS_Surjection
<1>6. Adds(Counted(j), Cardinality(ValidRows(j)))
  BY <1>1, RowsCountedOnce DEF Adds, Counted
<1>7. QED BY <1>3, <1>4, <1>5, <1>6

LEMMA InitSummary == Init => SummaryInv
<1> SUFFICES ASSUME Init PROVE SummaryInv
  OBVIOUS
<1> DEFINE own == [k \in Keys |-> Nobody]
<1>1. own \in [Keys -> Reporters]
  BY DEF Reporters
<1>2. RunsAdd /\ ResultsAdd /\ Shared(own)
  BY DEF Init, LifecycleInit, RunsAdd, ResultsAdd, Shared
<1>3. QED BY <1>1, <1>2 DEF SummaryInv, InsertsShared

-----------------------------------------------------------------------------
(* How the inserts are shared out after a step.                            *)

\* What is counted as inserted stays as it was, but for what gives up its
\* counts.
SameRun(v) ==
  /\ run[v] # None
  /\ run'[v].job = run[v].job
  /\ run'[v].summary.inserted = run[v].summary.inserted

SameResult(j) ==
  phase'[j] = "succeeded" => phase[j] = "succeeded" /\ result'[j] = result[j]

DocumentsStay == \A k \in Keys : store'[k] = None => store[k] = None

LEMMA SharesStay ==
  ASSUME InsertsShared, DocumentsStay,
         \A v \in Workers : run'[v] # None => SameRun(v),
         \A j \in Jobs : SameResult(j)
  PROVE  InsertsShared'
<1>1. PICK own \in [Keys -> Reporters] : Shared(own)
  BY DEF InsertsShared
<1>2. \A k \in Keys : store'[k] = None => own[k] = Nobody
  BY <1>1 DEF Shared, DocumentsStay
<1>3. \A v \in Workers : run'[v] # None =>
        Reports(own, RunOf(v), run'[v].job, run'[v].summary.inserted)
  BY <1>1 DEF Shared, SameRun, Reports
<1>4. \A j \in Jobs : phase'[j] = "succeeded" =>
        Reports(own, JobOf(j), j, result'[j].inserted)
  BY <1>1 DEF Shared, SameResult, Reports
<1>5. QED
  BY <1>1, <1>2, <1>3, <1>4
     DEF InsertsShared, Shared, Reports, InsertsOf, Reporters, RunOf, JobOf,
         Nobody, KeysOf

\* The inserts of a run go to another, or to nobody.
Handed(own, w, x) ==
  [k \in Keys |-> IF own[k] = RunOf(w) THEN x
                  ELSE IF own[k] = x THEN Nobody ELSE own[k]]

LEMMA HandedOver ==
  ASSUME NEW own \in [Keys -> Reporters], NEW w \in Workers,
         NEW x \in Reporters, x # RunOf(w)
  PROVE  /\ Handed(own, w, x) \in [Keys -> Reporters]
         /\ \A k \in Keys : own[k] = Nobody => Handed(own, w, x)[k] = Nobody
         /\ InsertsOf(Handed(own, w, x), RunOf(w)) = {}
         /\ x # Nobody => InsertsOf(Handed(own, w, x), x) = InsertsOf(own, RunOf(w))
         /\ \A y \in Reporters \ {x, RunOf(w), Nobody} :
              InsertsOf(Handed(own, w, x), y) = InsertsOf(own, y)
<1>1. Nobody \in Reporters
  BY DEF Reporters
<1>2. Nobody # RunOf(w)
  BY DEF Nobody, RunOf
<1>3. Handed(own, w, x) \in [Keys -> Reporters]
  BY <1>1 DEF Handed
<1>4. QED BY <1>1, <1>2, <1>3 DEF Handed, InsertsOf

LEMMA ReportersDiffer ==
  /\ \A w \in Workers : RunOf(w) \in Reporters /\ RunOf(w) # Nobody
  /\ \A j \in Jobs : JobOf(j) \in Reporters /\ JobOf(j) # Nobody
  /\ \A w \in Workers, j \in Jobs : RunOf(w) # JobOf(j)
  /\ \A v, w \in Workers : v # w => RunOf(v) # RunOf(w)
  /\ \A i, j \in Jobs : i # j => JobOf(i) # JobOf(j)
  /\ Nobody \in Reporters
BY DEF Reporters, RunOf, JobOf, Nobody

\* A run begins, or begins to count.
LEMMA SharesAfresh ==
  ASSUME InsertsShared, DocumentsStay, NEW w \in Workers,
         run'[w] # None => run'[w].summary.inserted = 0,
         \A v \in Workers : v # w /\ run'[v] # None => SameRun(v),
         \A j \in Jobs : SameResult(j)
  PROVE  InsertsShared'
<1>1. PICK own \in [Keys -> Reporters] : Shared(own)
  BY DEF InsertsShared
<1> DEFINE new == Handed(own, w, Nobody)
<1>2. /\ new \in [Keys -> Reporters]
      /\ \A k \in Keys : own[k] = Nobody => new[k] = Nobody
      /\ InsertsOf(new, RunOf(w)) = {}
      /\ \A y \in Reporters \ {RunOf(w), Nobody} :
           InsertsOf(new, y) = InsertsOf(own, y)
  BY HandedOver, ReportersDiffer
<1> HIDE DEF new
<1>3. \A k \in Keys : store'[k] = None => new[k] = Nobody
  BY <1>1, <1>2 DEF Shared, DocumentsStay
<1>4. \A v \in Workers : run'[v] # None =>
        Reports(new, RunOf(v), run'[v].job, run'[v].summary.inserted)
  BY <1>1, <1>2, ReportersDiffer, FS_EmptySet DEF Shared, SameRun, Reports
<1>5. \A j \in Jobs : phase'[j] = "succeeded" =>
        Reports(new, JobOf(j), j, result'[j].inserted)
  BY <1>1, <1>2, ReportersDiffer DEF Shared, SameResult, Reports
<1>6. QED
  BY <1>2, <1>3, <1>4, <1>5
     DEF InsertsShared, Shared, Reports, InsertsOf, Reporters, RunOf, JobOf,
         Nobody, KeysOf

\* A run ends and its counts become the summary of its job.
LEMMA SharesReported ==
  ASSUME InsertsShared, UNCHANGED store, NEW w \in Workers,
         run[w] # None, run[w].job \in Jobs, run'[w] = None,
         phase[run[w].job] # "succeeded",
         result'[run[w].job] = run[w].summary,
         \A v \in Workers : v # w /\ run'[v] # None => SameRun(v),
         \A j \in Jobs \ {run[w].job} : SameResult(j)
  PROVE  InsertsShared'
<1>1. PICK own \in [Keys -> Reporters] : Shared(own)
  BY DEF InsertsShared
<1> DEFINE x == JobOf(run[w].job)
           new == Handed(own, w, x)
<1>0. x \in Reporters /\ x # RunOf(w) /\ x # Nobody
  BY ReportersDiffer
<1>2. /\ new \in [Keys -> Reporters]
      /\ \A k \in Keys : own[k] = Nobody => new[k] = Nobody
      /\ InsertsOf(new, x) = InsertsOf(own, RunOf(w))
      /\ \A y \in Reporters \ {x, RunOf(w), Nobody} :
           InsertsOf(new, y) = InsertsOf(own, y)
  BY <1>0, HandedOver
<1> HIDE DEF new
<1>3. \A k \in Keys : store'[k] = None => new[k] = Nobody
  BY <1>1, <1>2 DEF Shared
<1>4. \A v \in Workers : run'[v] # None =>
        Reports(new, RunOf(v), run'[v].job, run'[v].summary.inserted)
  BY <1>1, <1>2, ReportersDiffer DEF Shared, SameRun, Reports
<1>5. \A j \in Jobs : phase'[j] = "succeeded" =>
        Reports(new, JobOf(j), j, result'[j].inserted)
  BY <1>1, <1>2, ReportersDiffer DEF Shared, SameResult, Reports
<1>6. QED
  BY <1>2, <1>3, <1>4, <1>5
     DEF InsertsShared, Shared, Reports, InsertsOf, Reporters, RunOf, JobOf,
         Nobody, KeysOf

\* A document is inserted, and counted by the run that waits for it.
LEMMA SharesInsert ==
  ASSUME InsertsShared, NEW w \in Workers, NEW k \in Keys,
         store[k] = None, \A l \in Keys : l # k => store'[l] = store[l],
         store'[k] # None,
         run[w] # None, run[w].job \in Jobs, k \in KeysOf(run[w].job),
         run'[w].job = run[w].job,
         run'[w].summary.inserted = run[w].summary.inserted + 1,
         \A v \in Workers : v # w /\ run'[v] # None => SameRun(v),
         \A j \in Jobs : SameResult(j)
  PROVE  InsertsShared'
<1>1. PICK own \in [Keys -> Reporters] : Shared(own)
  BY DEF InsertsShared
<1> DEFINE new == [own EXCEPT ![k] = RunOf(w)]
<1>2. new \in [Keys -> Reporters] /\ own[k] = Nobody
  BY <1>1, ReportersDiffer DEF Shared
<1>3. /\ InsertsOf(new, RunOf(w)) = InsertsOf(own, RunOf(w)) \cup {k}
      /\ k \notin InsertsOf(own, RunOf(w))
      /\ \A y \in Reporters \ {RunOf(w), Nobody} :
           InsertsOf(new, y) = InsertsOf(own, y)
  BY <1>1, <1>2, ReportersDiffer DEF InsertsOf
<1>4. Reports(new, RunOf(w), run'[w].job, run'[w].summary.inserted)
  <2>1. Reports(own, RunOf(w), run[w].job, run[w].summary.inserted)
    BY <1>1 DEF Shared
  <2>2. IsFiniteSet(InsertsOf(own, RunOf(w)))
    BY <2>1, SheetCounts, FS_Subset DEF Reports
  <2>3. Cardinality(InsertsOf(new, RunOf(w))) =
          Cardinality(InsertsOf(own, RunOf(w))) + 1
    BY <1>3, <2>2, FS_AddElement
  <2>4. QED BY <1>3, <2>1, <2>3 DEF Reports
<1>5. \A l \in Keys : store'[l] = None => new[l] = Nobody
  BY <1>1 DEF Shared
<1> HIDE DEF new
<1>6. \A v \in Workers : run'[v] # None =>
        Reports(new, RunOf(v), run'[v].job, run'[v].summary.inserted)
  <2>1. \A v \in Workers : v # w /\ run'[v] # None =>
          /\ InsertsOf(new, RunOf(v)) = InsertsOf(own, RunOf(v))
          /\ Reports(own, RunOf(v), run[v].job, run[v].summary.inserted)
    BY <1>1, <1>3, ReportersDiffer DEF Shared, SameRun
  <2>2. QED BY <1>4, <2>1 DEF SameRun, Reports
<1>7. \A j \in Jobs : phase'[j] = "succeeded" =>
        Reports(new, JobOf(j), j, result'[j].inserted)
  BY <1>1, <1>3, ReportersDiffer DEF Shared, SameResult, Reports
<1>8. QED
  BY <1>2, <1>5, <1>6, <1>7
     DEF InsertsShared, Shared, Reports, InsertsOf, Reporters, RunOf, JobOf,
         Nobody, KeysOf

-----------------------------------------------------------------------------
(* The steps.                                                              *)

\* Runs that add up still do, unless they are rid of.
SameCounts(v) ==
  /\ run[v] # None
  /\ run'[v].summary = run[v].summary
  /\ run'[v].job = run[v].job
  /\ \/ run'[v].step = run[v].step /\ run'[v].ok = run[v].ok
     \/ run'[v].step = "cleanup" /\ ~run'[v].ok
     \/ run[v].step = "cleanup" /\ run'[v].step = "return"
        /\ run'[v].ok = run[v].ok

LEMMA QuietSummary ==
  ASSUME SummaryInv, UNCHANGED store,
         \A v \in Workers : run'[v] # None => SameCounts(v),
         \A v \in Workers : In(v, "write")' => cmd'[v] = cmd[v],
         \A j \in Jobs : SameResult(j)
  PROVE  SummaryInv'
<1>1. RunsAdd'
  <2> SUFFICES ASSUME NEW v \in Workers, run'[v] # None
               PROVE  /\ run'[v].step = "write" =>
                           Adds(run'[v].summary, Cardinality(cmd'[v].todo))
                      /\ run'[v].ok /\ run'[v].step \in {"cleanup", "return"} =>
                           Adds(run'[v].summary, 0)
    BY DEF RunsAdd, Adds
  <2>1. SameCounts(v)
    OBVIOUS
  <2>2. QED BY <2>1 DEF SummaryInv, RunsAdd, SameCounts, In
<1>2. ResultsAdd'
  BY DEF SummaryInv, ResultsAdd, SameResult, Adds
<1>3. InsertsShared'
  BY SharesStay DEF SummaryInv, DocumentsStay, SameCounts, SameRun
<1>4. QED BY <1>1, <1>2, <1>3 DEF SummaryInv

LEMMA RequestSummary ==
  ASSUME TypeOK, SummaryInv,
         \/ \E f \in Uploads : Upload(f)
         \/ \E j \in Jobs : ImportXlsxByType(j) \/ Enqueue(j)
         \/ RequeueStuck
         \/ \E w \in Workers : JobRetriedOrFailed(w) \/ JobOfUnknownType(w)
                               \/ Crash(w)
         \/ UNCHANGED vars
  PROVE  SummaryInv'
<1>1. UNCHANGED <<store, cmd, result>>
  BY DEF Upload, ImportXlsxByType, Enqueue, RequeueStuck, vars, workers,
         history, JobRetriedOrFailed, JobOfUnknownType, Crash
<1>2. \A j \in Jobs : phase'[j] = "succeeded" => phase[j] = "succeeded"
  BY DEF Upload, ImportXlsxByType, Enqueue, RequeueStuck, vars, lifecycleVars,
         Submit, GiveBack, TypeOK, JobRetriedOrFailed, JobOfUnknownType, Crash,
         Abandon
<1>3. \A v \in Workers : run'[v] # None => run'[v] = run[v] /\ run[v] # None
  BY DEF Upload, ImportXlsxByType, Enqueue, RequeueStuck, vars, workers,
         JobRetriedOrFailed, JobOfUnknownType, Crash, EndRun, TypeOK
<1>4. QED BY <1>1, <1>2, <1>3, QuietSummary DEF SameCounts, SameResult

LEMMA TakeJobSummary ==
  ASSUME TypeOK, SummaryInv, NEW w \in Workers, NEW j \in Jobs, TakeJob(w, j)
  PROVE  SummaryInv'
<1>1. UNCHANGED <<store, cmd, result>> /\ run[w] = None
  BY DEF TakeJob, history
<1>2. \A i \in Jobs : SameResult(i)
  BY <1>1 DEF TakeJob, Take, TypeOK, SameResult
<1>3. /\ \A v \in Workers : v # w => run'[v] = run[v]
      /\ run'[w] # None => /\ run'[w].step \in {"parse", "noHandler"}
                           /\ run'[w].summary = createImportSummary
  BY <1>1 DEF TakeJob, StartRun, TypeOK
<1>4. InsertsShared'
  <2>1. run'[w] # None => run'[w].summary.inserted = 0
    BY <1>3 DEF createImportSummary
  <2>2. \A v \in Workers : v # w /\ run'[v] # None => SameRun(v)
    BY <1>3 DEF SameRun
  <2>3. QED BY <1>1, <1>2, <2>1, <2>2, SharesAfresh DEF DocumentsStay, SummaryInv
<1>5. RunsAdd'
  BY <1>1, <1>3 DEF SummaryInv, RunsAdd, Adds
<1>6. ResultsAdd'
  BY <1>2 DEF SummaryInv, ResultsAdd, SameResult, Adds
<1>7. QED BY <1>4, <1>5, <1>6 DEF SummaryInv

LEMMA ParseXlsxFileSummary ==
  ASSUME TypeOK, SummaryInv, NEW w \in Workers, ParseXlsxFile(w)
  PROVE  SummaryInv'
<1> DEFINE j == run[w].job
<1>0. /\ run[w] # None /\ run[w] \in Run /\ j \in Jobs
      /\ UNCHANGED <<store, result, phase>> /\ cmd[w] = None
  BY RunTypes DEF ParseXlsxFile, In, history, lifecycleVars
<1>1. CASE /\ run' = [run EXCEPT ![w].step = "write", ![w].summary = Counted(j)]
           /\ cmd' = [cmd EXCEPT ![w] = [job |-> j, todo |-> ValidRows(j)]]
  <2>1. /\ cmd' = [cmd EXCEPT ![w] = [job |-> j, todo |-> ValidRows(j)]]
        /\ run' = [run EXCEPT ![w] = [run[w] EXCEPT !.step = "write",
                                                   !.summary = Counted(j)]]
    BY <1>1 DEF ParseXlsxFile
  <2>2. /\ \A v \in Workers : v # w => cmd'[v] = cmd[v] /\ run'[v] = run[v]
        /\ cmd'[w].todo = ValidRows(j)
        /\ run'[w].step = "write" /\ run'[w].summary = Counted(j)
    BY <1>0, <2>1 DEF TypeOK, Run
  <2>3. InsertsShared'
    <3>1. run'[w].summary.inserted = 0
      BY <2>2 DEF Counted
    <3>2. \A v \in Workers : v # w /\ run'[v] # None => SameRun(v)
      BY <2>2 DEF SameRun
    <3>3. \A i \in Jobs : SameResult(i)
      BY <1>0 DEF SameResult
    <3>4. QED
      BY <1>0, <3>1, <3>2, <3>3, SharesAfresh DEF DocumentsStay, SummaryInv
  <2>4. RunsAdd'
    BY <1>0, <2>2, SheetCounts DEF SummaryInv, RunsAdd, Adds
  <2>5. ResultsAdd'
    BY <1>0 DEF SummaryInv, ResultsAdd, Adds
  <2>6. QED BY <2>3, <2>4, <2>5 DEF SummaryInv
<1>2. CASE /\ run' = [run EXCEPT ![w].step = "cleanup", ![w].ok = FALSE]
           /\ UNCHANGED cmd
  <2>1. /\ UNCHANGED cmd
        /\ run' = [run EXCEPT ![w] = [run[w] EXCEPT !.step = "cleanup",
                                                   !.ok = FALSE]]
    BY <1>2 DEF ParseXlsxFile
  <2>2. \A v \in Workers : run'[v] # None => SameCounts(v)
    BY <1>0, <2>1 DEF SameCounts, TypeOK, Run
  <2>3. QED BY <1>0, <2>1, <2>2, QuietSummary DEF SameResult
<1>3. QED BY <1>1, <1>2 DEF ParseXlsxFile

LEMMA BulkWriteEndsSummary ==
  ASSUME TypeOK, SummaryInv, NEW w \in Workers, BulkWriteEnds(w)
  PROVE  SummaryInv'
<1>0. /\ run[w] # None /\ run[w] \in Run /\ run[w].step = "write"
      /\ UNCHANGED <<store, phase, result>>
  BY RunTypes DEF BulkWriteEnds, In, lifecycleVars, TypeOK
<1>1. CASE /\ cmd[w].todo = {}
           /\ cmd' = [cmd EXCEPT ![w] = None]
           /\ run' = [run EXCEPT ![w].step = "cleanup"]
  <2>1. /\ \A v \in Workers : v # w => cmd'[v] = cmd[v] /\ run'[v] = run[v]
        /\ run'[w].step = "cleanup" /\ run'[w].summary = run[w].summary
        /\ run'[w].job = run[w].job
    BY <1>0, <1>1 DEF TypeOK, Run
  <2>2. Adds(run[w].summary, 0)
    BY <1>0, <1>1, FS_EmptySet DEF SummaryInv, RunsAdd
  <2>3. RunsAdd'
    BY <2>1, <2>2 DEF SummaryInv, RunsAdd, Adds
  <2>4. ResultsAdd'
    BY <1>0 DEF SummaryInv, ResultsAdd, Adds
  <2>5. InsertsShared'
    <3>1. \A v \in Workers : run'[v] # None => SameRun(v)
      BY <1>0, <2>1 DEF SameRun
    <3>2. QED BY <1>0, <3>1, SharesStay DEF SameResult, DocumentsStay, SummaryInv
  <2>6. QED BY <2>3, <2>4, <2>5 DEF SummaryInv
<1>2. CASE /\ run' = [run EXCEPT ![w].step = "cleanup", ![w].ok = FALSE]
           /\ \A v \in Workers : v # w => cmd'[v] = cmd[v]
  <2>1. /\ \A v \in Workers : v # w => run'[v] = run[v]
        /\ run'[w].step = "cleanup" /\ ~run'[w].ok
        /\ run'[w].summary = run[w].summary
        /\ run'[w].job = run[w].job
    BY <1>0, <1>2 DEF TypeOK, Run
  <2>2. \A v \in Workers : run'[v] # None => SameCounts(v)
    BY <1>0, <2>1 DEF SameCounts
  <2>3. \A v \in Workers : In(v, "write")' => cmd'[v] = cmd[v]
    BY <1>2, <2>1 DEF In
  <2>4. QED BY <1>0, <2>2, <2>3, QuietSummary DEF SameResult
<1>3. \A v \in Workers : v # w => cmd'[v] = cmd[v]
  BY DEF BulkWriteEnds, TypeOK
<1>4. QED BY <1>1, <1>2, <1>3 DEF BulkWriteEnds

LEMMA LostCommandEndsSummary ==
  ASSUME TypeOK, SummaryInv, NEW w \in Workers, LostCommandEnds(w)
  PROVE  SummaryInv'
<1>1. /\ ~In(w, "write")
      /\ cmd' = [cmd EXCEPT ![w] = None]
      /\ UNCHANGED <<store, phase, result, run>>
  BY DEF LostCommandEnds, lifecycleVars, workers
<1>2. \A v \in Workers : In(v, "write")' => cmd'[v] = cmd[v]
  BY <1>1 DEF TypeOK, In
<1>3. QED BY <1>1, <1>2, QuietSummary DEF SameResult, SameCounts

LEMMA CleanupSummary ==
  ASSUME TypeOK, SummaryInv, NEW w \in Workers, CleanupImportFile(w)
  PROVE  SummaryInv'
<1>1. UNCHANGED <<store, cmd, result, phase>>
  BY DEF CleanupImportFile, lifecycleVars
<1>2. run[w] \in Run /\ run[w] # None /\ run[w].step = "cleanup"
  BY RunTypes DEF CleanupImportFile, In
<1>3. run' = [run EXCEPT ![w] = [run[w] EXCEPT !.step = "return"]]
  BY DEF CleanupImportFile
<1>4. \A v \in Workers : run'[v] # None => SameCounts(v)
  BY <1>2, <1>3 DEF SameCounts, TypeOK, Run
<1>5. QED BY <1>1, <1>4, QuietSummary DEF SameResult

\* The counts of the run become the summary of its job.
LEMMA JobCompletedSummary ==
  ASSUME TypeOK, SummaryInv, NEW w \in Workers, JobCompleted(w)
  PROVE  SummaryInv'
<1> DEFINE j == run[w].job
<1>1. /\ run[w] # None /\ run[w] \in Run /\ run[w].step = "return" /\ run[w].ok
      /\ j \in Jobs /\ run[w].summary \in Summary
      /\ UNCHANGED <<store, cmd>>
  BY RunTypes DEF JobCompleted, In, Run
<1>2. /\ run'[w] = None
      /\ \A v \in Workers : v # w => run'[v] = run[v]
  BY DEF JobCompleted, EndRun, TypeOK
<1>3. CASE UNCHANGED <<lifecycleVars, result>>
  BY <1>1, <1>2, <1>3, QuietSummary
     DEF SameCounts, SameResult, lifecycleVars, In
<1>4. CASE /\ Complete(j)
           /\ result' = [result EXCEPT ![j] = run[w].summary]
  <2>1. /\ phase[j] # "succeeded"
        /\ result'[j] = run[w].summary
        /\ \A i \in Jobs \ {j} : SameResult(i)
    BY <1>1, <1>4 DEF Complete, SameResult, TypeOK
  <2>2. ResultsAdd'
    BY <1>1, <2>1 DEF SummaryInv, RunsAdd, ResultsAdd, SameResult, Adds
  <2>3. RunsAdd'
    BY <1>1, <1>2 DEF SummaryInv, RunsAdd, Adds
  <2>4. InsertsShared'
    BY <1>1, <1>2, <2>1, SharesReported DEF SummaryInv, SameRun
  <2>5. QED BY <2>2, <2>3, <2>4 DEF SummaryInv
<1>5. QED BY <1>3, <1>4 DEF JobCompleted

\* A row is upserted: the run that waits for it counts it once.
LEMMA UpsertRowSummary ==
  ASSUME TypeOK, StoreInv, SummaryInv, NEW w \in Workers, UpsertRow(w)
  PROVE  SummaryInv'
<1>1. cmd[w] # None /\ UNCHANGED <<phase, result>>
  BY DEF UpsertRow, lifecycleVars
<1>2. PICK i \in cmd[w].todo :
        LET j == cmd[w].job
            k == rows[j][i]
        IN  /\ i \in Nat /\ j \in Jobs /\ k \in Keys
            /\ \A n \in cmd[w].todo : i <= n
            /\ store' = [store EXCEPT ![k] = [job |-> j, number |-> i]]
            /\ cmd' = [cmd EXCEPT ![w] = [job |-> j, todo |-> cmd[w].todo \ {i}]]
            /\ run' = IF In(w, "write")
                      THEN [run EXCEPT ![w].summary = CountRow(@, k)] ELSE run
  BY <1>1, UpsertRowDoes DEF StoreInv, TodoValid
<1> DEFINE j == cmd[w].job
           k == rows[j][i]
<1>3. /\ store'[k] # None
      /\ \A l \in Keys : l # k => store'[l] = store[l]
  <2>1. [job |-> j, number |-> i] \in Row
    BY <1>2 DEF Row
  <2>2. QED BY <1>2, <2>1, NoneAssumption DEF TypeOK
<1>4. /\ cmd'[w].todo = cmd[w].todo \ {i}
      /\ \A v \in Workers : v # w => cmd'[v] = cmd[v]
  BY <1>2 DEF TypeOK
<1>5. DocumentsStay /\ \A x \in Jobs : SameResult(x)
  BY <1>1, <1>3 DEF DocumentsStay, SameResult
<1>6. ResultsAdd'
  BY <1>1 DEF SummaryInv, ResultsAdd, Adds
<1>7. CASE ~In(w, "write")
  <2>1. UNCHANGED run
    BY <1>2, <1>7
  <2>2. RunsAdd'
    BY <1>4, <1>7, <2>1 DEF SummaryInv, RunsAdd, Adds, In
  <2>3. InsertsShared'
    BY <1>5, <2>1, SharesStay DEF SummaryInv, SameRun
  <2>4. QED BY <1>6, <2>2, <2>3 DEF SummaryInv
<1>8. CASE In(w, "write")
  <2>0. /\ run[w] \in Run /\ run[w] # None /\ run[w].job = j
        /\ run[w].summary \in Summary
    BY <1>8, RunTypes DEF In, StoreInv, RunsStore, Run
  <2> DEFINE x == CountRow(run[w].summary, k)
  <2>1. /\ \A v \in Workers : v # w => run'[v] = run[v]
        /\ run'[w].summary = x /\ run'[w].step = "write"
        /\ run'[w].job = j
    <3>1. run' = [run EXCEPT ![w] = [run[w] EXCEPT !.summary = x]]
      BY <1>2, <1>8
    <3> HIDE DEF x
    <3>2. QED BY <1>8, <2>0, <3>1 DEF TypeOK, Run, In
  <2>2. Cardinality(cmd'[w].todo) = Cardinality(cmd[w].todo) - 1
        /\ Cardinality(cmd[w].todo) \in Nat
    <3>1. IsFiniteSet(cmd[w].todo)
      BY <1>1, <1>2, SheetCounts, FS_Subset DEF StoreInv, TodoValid
    <3>2. QED BY <1>2, <1>4, <3>1, FS_RemoveElement, FS_CardinalityType
  <2>3. Adds(run[w].summary, Cardinality(cmd[w].todo))
    BY <1>8 DEF SummaryInv, RunsAdd, In
  <2>4. Adds(x, Cardinality(cmd'[w].todo))
    BY <2>0, <2>2, <2>3 DEF Adds, CountRow, Summary
  <2>5. RunsAdd'
    <3> HIDE DEF x
    <3>1. ASSUME NEW v \in Workers, v # w
          PROVE  run'[v] = run[v] /\ cmd'[v] = cmd[v]
      BY <1>4, <2>1, <3>1
    <3>2. QED BY <2>1, <2>4, <3>1 DEF SummaryInv, RunsAdd, Adds
  <2>6. \A v \in Workers : v # w /\ run'[v] # None => SameRun(v)
    BY <2>1 DEF SameRun
  <2>7. InsertsShared'
    <3>1. CASE store[k] = None
      <4>1. x.inserted = run[w].summary.inserted + 1
        BY <2>0, <3>1 DEF CountRow, Summary
      <4>2. k \in KeysOf(j)
        BY <1>1, <1>2, SheetCounts DEF StoreInv, TodoValid
      <4> HIDE DEF x
      <4>3. QED
        BY <1>2, <1>3, <1>5, <2>0, <2>1, <2>6, <3>1, <4>1, <4>2, SharesInsert
           DEF SummaryInv
    <3>2. CASE store[k] # None
      <4>1. x.inserted = run[w].summary.inserted
        BY <2>0, <3>2 DEF CountRow, Summary
      <4>2. SameRun(w)
        BY <2>0, <2>1, <4>1 DEF SameRun
      <4>3. QED BY <1>5, <2>6, <4>2, SharesStay DEF SummaryInv
    <3>3. QED BY <3>1, <3>2
  <2>8. QED BY <1>6, <2>5, <2>7 DEF SummaryInv
<1>9. QED BY <1>7, <1>8

LEMMA NextSummary ==
  ASSUME TypeOK, StoreInv, SummaryInv, [Next]_vars
  PROVE  SummaryInv'
BY RequestSummary, TakeJobSummary, ParseXlsxFileSummary, UpsertRowSummary,
   BulkWriteEndsSummary, LostCommandEndsSummary, CleanupSummary,
   JobCompletedSummary DEF Next

-----------------------------------------------------------------------------
IInv == TypeOK /\ StoreInv /\ SummaryInv /\ UploadsInv

LEMMA InitInv == Init => IInv
BY InitType, InitStore, InitSummary, InitUploads DEF IInv

LEMMA NextInv == IInv /\ [Next]_vars => IInv'
<1>1. IInv /\ [Next]_vars => TypeOK'
  BY NextType, StutterType DEF IInv, StoreInv
<1>2. IInv /\ [Next]_vars => StoreInv' /\ SummaryInv' /\ UploadsInv'
  BY NextStore, NextSummary, NextUploads DEF IInv, StoreInv
<1>3. QED BY <1>1, <1>2 DEF IInv

\* The variables of an import keep their types, and a worker that awaits a
\* bulk write has one at the database.
THEOREM ImportsTyped == Spec => []TypeOK
<1>1. IInv => TypeOK
  BY DEF IInv
<1>2. QED BY <1>1, InitInv, NextInv, PTL DEF Spec

\* A job is recorded as succeeded only after the database has a document for
\* each of its valid rows, whatever crashed, failed or ran twice.
THEOREM SuccessMeansStored == Spec => []SucceededIsStored
<1>1. IInv => SucceededIsStored
  <2> SUFFICES ASSUME IInv, NEW j \in Jobs, phase[j] = "succeeded",
                      NEW k \in KeysOf(j)
               PROVE  store[k] # None
    BY DEF SucceededIsStored
  <2>1. PICK i \in 1 .. Len(rows[j]) : rows[j][i] = k
    BY DEF KeysOf
  <2>2. i \in ValidRows(j)
    BY <2>1, RowsAssumption DEF KeysOf, ValidRows
  <2>3. QED BY <2>1, <2>2 DEF IInv, StoreInv, EndedStored, StoredBut
<1>2. QED BY <1>1, InitInv, NextInv, PTL DEF Spec

\* However the runs of a job overlap, no document is left as an earlier row of
\* its sheet wrote it once the job's bulk writes have come to their ends.
THEOREM LastRowsPrevail == Spec => []LastRowPrevails
<1>1. IInv => LastRowPrevails
  <2> SUFFICES ASSUME IInv, NEW j \in Jobs \ torn,
                      \A w \in Workers : cmd[w] # None => cmd[w].job # j,
                      NEW k \in Keys, store[k] # None, store[k].job = j,
                      NEW n \in 1 .. Len(rows[j]), rows[j][n] = k
               PROVE  n <= store[k].number
    BY DEF LastRowPrevails
  <2>1. n \in ValidRows(j)
    BY RowsAssumption DEF ValidRows
  <2>2. ~(store[k].number < n)
    BY <2>1 DEF IInv, StoreInv, LaterRowsDue
  <2>3. store[k].number \in Nat /\ n \in Nat
    BY DEF IInv, TypeOK, Row
  <2>4. QED BY <2>2, <2>3
<1>2. QED BY <1>1, InitInv, NextInv, PTL DEF Spec

\* The summary of a job that succeeded accounts for each row of its sheet, and
\* no document is in the inserts of two jobs.
THEOREM SummariesOfSuccesses == Spec => []SummariesAddUp
<1>1. IInv => SummariesAddUp
  <2> SUFFICES ASSUME IInv PROVE SummariesAddUp
    OBVIOUS
  <2>1. ASSUME NEW j \in Jobs, phase[j] = "succeeded"
        PROVE  /\ result[j].valid + result[j].failed = result[j].totalRows
               /\ result[j].inserted + result[j].updated = result[j].valid
    <3>1. result[j] \in Summary /\ Adds(result[j], 0)
      BY <2>1 DEF IInv, SummaryInv, ResultsAdd
    <3>2. QED BY <3>1 DEF Adds, Summary
  <2>2. ASSUME NEW i \in Jobs, NEW j \in Jobs, i # j,
               phase[i] = "succeeded", phase[j] = "succeeded"
        PROVE  result[i].inserted + result[j].inserted
                 <= Cardinality(KeysOf(i) \cup KeysOf(j))
    <3>1. PICK own \in [Keys -> Reporters] : Shared(own)
      BY DEF IInv, SummaryInv, InsertsShared
    <3> DEFINE A == InsertsOf(own, JobOf(i))
               B == InsertsOf(own, JobOf(j))
               K == KeysOf(i) \cup KeysOf(j)
    <3>2. /\ A \subseteq KeysOf(i) /\ Cardinality(A) = result[i].inserted
          /\ B \subseteq KeysOf(j) /\ Cardinality(B) = result[j].inserted
      BY <2>2, <3>1 DEF Shared, Reports
    <3>3. A \cap B = {}
      BY <2>2, ReportersDiffer DEF InsertsOf
    <3>4. /\ IsFiniteSet(KeysOf(i)) /\ IsFiniteSet(KeysOf(j))
      BY SheetCounts
    <3> HIDE DEF A, B
    <3>5. IsFiniteSet(A) /\ IsFiniteSet(B) /\ IsFiniteSet(K)
      BY <3>2, <3>4, FS_Subset, FS_Union
    <3>6. Cardinality(A \cup B) = Cardinality(A) + Cardinality(B)
      <4>1. Cardinality(A \cup B) =
              Cardinality(A) + Cardinality(B) - Cardinality(A \cap B)
        BY <3>5, FS_Union
      <4>2. Cardinality(A \cap B) = 0
        BY <3>3, FS_EmptySet
      <4>3. Cardinality(A) \in Nat /\ Cardinality(B) \in Nat
        BY <3>5, FS_CardinalityType
      <4>4. QED BY <4>1, <4>2, <4>3
    <3>7. Cardinality(A \cup B) <= Cardinality(K)
      BY <3>2, <3>5, FS_Subset
    <3>8. QED BY <3>2, <3>6, <3>7
  <2>3. QED BY <2>1, <2>2 DEF SummariesAddUp
<1>2. QED BY <1>1, InitInv, NextInv, PTL DEF Spec

\* Every upload that is still there was refused, has a job that has not ended
\* or ended for want of a handler, or could not be removed.
THEOREM LeftUploadsKnown == Spec => []LeftUploadsAreAccountedFor
<1>1. IInv => LeftUploadsAreAccountedFor
  <2> SUFFICES ASSUME IInv, NEW f \in uploaded \cap files
               PROVE  LET jobs == {j \in Jobs : fileOf[j] = f /\ phase[j] # "absent"}
                      IN  /\ f \in refused \/ jobs # {} \/ \E j \in asked : fileOf[j] = f
                          /\ f \in kept \/ \A j \in jobs :
                               phase[j] \in Terminal => cause[j] = "QUEUE_INVALID_TYPE"
    BY DEF LeftUploadsAreAccountedFor
  <2>1. f \in Uploads
    BY DEF IInv, TypeOK
  <2>2. \/ f \in refused
        \/ \E j \in Jobs : fileOf[j] = f /\ (phase[j] # "absent" \/ j \in asked)
    BY DEF IInv, UploadsInv, UploadsHaveJobs
  <2>3. \A j \in Jobs : fileOf[j] = f /\ phase[j] \in Terminal =>
          f \in kept \/ cause[j] = "QUEUE_INVALID_TYPE"
    BY <2>1 DEF IInv, UploadsInv, EndedGone, Gone
  <2>4. QED BY <2>2, <2>3
<1>2. QED BY <1>1, InitInv, NextInv, PTL DEF Spec

=============================================================================
