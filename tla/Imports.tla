------------------------------ MODULE Imports ------------------------------
(***************************************************************************)
(* XLSX imports, from the upload of a file to the documents it leaves in a *)
(* collection: ImportsController, ImportsService, BaseImportHandler and    *)
(* its helpers.  The queue in between is taken at its promise: an import   *)
(* job moves as JobLifecycle says, which JobQueue is shown to implement,   *)
(* and any run of its handler may be a stale one whose job was given back. *)
(*                                                                         *)
(* A run of a handler is synchronous between its awaits: it parses and     *)
(* validates, sends one bulk write, which the database carries out row by  *)
(* row even if the sender is gone, and removes the uploaded file.          *)
(***************************************************************************)
EXTENDS JobLifecycle, Sequences, FiniteSets

CONSTANTS
  Workers,   \* worker loops; one that crashes does not come back
  Files,     \* paths in the data directory
  Uploads,   \* those that contain "upload-", each to be uploaded once
  fileOf,    \* [Jobs -> Files]: a job is a type and a file path
  Keys,      \* what getUpsertFilter tells the documents of a collection by
  Invalid,   \* a row the schema of the type rejects
  rows,      \* [Jobs -> Seq(Keys or Invalid)]: the sheet, parsed for the type
  None,
  MaxTries,  \* bound: claims of one job
  MaxFaults  \* bound: database commands and unlinks that fail, and crashes

ASSUME FilesAssumption == Uploads \subseteq Files /\ fileOf \in [Jobs -> Files]
ASSUME RowsAssumption ==
  /\ Invalid \notin Keys
  /\ rows \in [Jobs -> Seq(Keys \cup {Invalid})]
ASSUME AttemptsAssumption == maxAttempts \in [Jobs -> Int \ {0}]
ASSUME BoundsAssumption == MaxTries \in Nat /\ MaxFaults \in Nat

VARIABLES
  files,     \* the files that exist
  asked,     \* requests about to enqueue, by the job they ask for
  uploaded,  \* the uploads that were received
  store,     \* [Keys -> the row that wrote the document last, or None]
  alive,     \* the workers that have not crashed
  run,       \* the handler each worker is running, or None
  cmd,       \* the bulk write of each worker the database is still at
  result,    \* the summary in the job document
  torn,      \* history: jobs one of whose bulk writes was cut short
  kept,      \* history: uploads whose unlink failed
  refused,   \* history: uploads answered with an error instead of a job
  faults     \* faults still allowed (bounded by MaxFaults)

vars == <<phase, tries, cause, files, asked, uploaded, store, alive, run, cmd,
          result, torn, kept, refused, faults>>

Terminal == {"succeeded", "failed"}

Row == [job : Jobs, number : Nat]

Summary == [totalRows : Nat, valid : Nat, failed : Nat,
            inserted : Nat, updated : Nat]

Run == [job : Jobs,
        step : {"parse", "write", "cleanup", "return", "noHandler"},
        ok : BOOLEAN,              \* nothing was thrown so far
        summary : Summary]

Command == [job : Jobs, todo : SUBSET Nat]   \* rows still to be written

ASSUME NoneAssumption == None \notin Run \cup Command \cup Row

createImportSummary ==
  [totalRows |-> 0, valid |-> 0, failed |-> 0, inserted |-> 0, updated |-> 0]

Init ==
  /\ LifecycleInit
  /\ files = Files \ Uploads
  /\ asked = {}
  /\ uploaded = {}
  /\ store = [k \in Keys |-> None]
  /\ alive = Workers
  /\ run = [w \in Workers |-> None]
  /\ cmd = [w \in Workers |-> None]
  /\ result = [j \in Jobs |-> None]
  /\ torn = {}
  /\ kept = {}
  /\ refused = {}
  /\ faults = MaxFaults

Answered == UNCHANGED faults
Fails == faults > 0 /\ faults' = faults - 1

requests == <<asked, uploaded>>
history == <<torn, kept, refused>>
workers == <<alive, run>>

In(w, step) == run[w] # None /\ run[w].step = step

-----------------------------------------------------------------------------
(* Requests.                                                               *)

\* multer stores the file; the service infers the type from the name the
\* client gave it and enqueues, or refuses and leaves the file where it is.
Upload(f) ==
  /\ f \in Uploads \ uploaded
  /\ uploaded' = uploaded \cup {f}
  /\ files' = files \cup {f}
  /\ \/ /\ \E j \in Jobs : fileOf[j] = f /\ asked' = asked \cup {j}
        /\ UNCHANGED refused
     \/ refused' = refused \cup {f} /\ UNCHANGED asked
  /\ UNCHANGED <<lifecycleVars, store, workers, cmd, result, torn, kept, faults>>

\* The file is looked up before the job is enqueued.
ImportXlsxByType(j) ==
  /\ fileOf[j] \in files
  /\ j \notin asked
  /\ asked' = asked \cup {j}
  /\ UNCHANGED <<lifecycleVars, files, uploaded, store, workers, cmd, result,
                 history, faults>>

\* The key of a job is the hash of its type and path, so that the second
\* request for a job is a conflict.  A request that fails, or whose process
\* dies, leaves the file of its upload behind.
Enqueue(j) ==
  /\ j \in asked
  /\ asked' = asked \ {j}
  /\ \/ /\ Answered
        /\ Submit(j) \/ (phase[j] # "absent" /\ UNCHANGED lifecycleVars)
        /\ UNCHANGED refused
     \/ /\ Fails
        /\ refused' = refused \cup ({fileOf[j]} \cap Uploads)
        /\ UNCHANGED lifecycleVars
  /\ UNCHANGED <<files, uploaded, store, workers, cmd, result, torn, kept>>

-----------------------------------------------------------------------------
(* The run of a handler.                                                   *)

StartRun(w, j, step) ==
  run' = [run EXCEPT ![w] = [job |-> j, step |-> step, ok |-> TRUE,
                             summary |-> createImportSummary]]

\* A claim, whose reply may be lost; the process may not know the handler yet.
TakeJob(w, j) ==
  /\ w \in alive
  /\ run[w] = None
  /\ tries[j] < MaxTries
  /\ Take(j)
  /\ \/ Answered /\ \E step \in {"parse", "noHandler"} : StartRun(w, j, step)
     \/ Fails /\ UNCHANGED run
  /\ UNCHANGED <<files, requests, store, alive, cmd, result, history>>

\* The numbers of the rows that pass validation, and of those that do not.
ValidRows(j) == {i \in 1 .. Len(rows[j]) : rows[j][i] # Invalid}
InvalidRows(j) == {i \in 1 .. Len(rows[j]) : rows[j][i] = Invalid}

\* The counts after processRows: failed is raised by addImportError.
Counted(j) ==
  [totalRows |-> Len(rows[j]), valid |-> Cardinality(ValidRows(j)),
   failed |-> Cardinality(InvalidRows(j)), inserted |-> 0, updated |-> 0]

\* From the start of handle to the bulk write.  A file that is missing or is
\* no workbook, or a manifest that cannot be read, ends in the catch.
\* Bound: a worker has one command at the database.
ParseXlsxFile(w) ==
  LET j == run[w].job IN
  /\ In(w, "parse")
  /\ cmd[w] = None
  /\ \/ /\ fileOf[j] \in files
        /\ run' = [run EXCEPT ![w].step = "write", ![w].summary = Counted(j)]
        /\ cmd' = [cmd EXCEPT ![w] = [job |-> j, todo |-> ValidRows(j)]]
     \/ /\ run' = [run EXCEPT ![w].step = "cleanup", ![w].ok = FALSE]
        /\ UNCHANGED cmd
  /\ UNCHANGED <<lifecycleVars, files, requests, store, alive, result, history,
                 faults>>

\* Mutant: { ordered: false }.
NextRowsUnordered(w) == cmd[w].todo

\* bulkWrite is ordered.
NextRows(w) == {i \in cmd[w].todo : \A n \in cmd[w].todo : i <= n}

\* Mutant: the counts are those of the operations sent.
CountRowAsInserted(summary, k) == [summary EXCEPT !.inserted = @ + 1]

\* upsertedCount or matchedCount, which the reply to the command will hold.
CountRow(summary, k) ==
  IF store[k] = None THEN [summary EXCEPT !.inserted = @ + 1]
                     ELSE [summary EXCEPT !.updated = @ + 1]

\* The database upserts a row, whoever sent the command is alive or not.
UpsertRow(w) ==
  /\ cmd[w] # None
  /\ \E i \in NextRows(w) :
       LET j == cmd[w].job
           k == rows[j][i]
       IN  /\ store' = [store EXCEPT ![k] = [job |-> j, number |-> i]]
           /\ cmd' = [cmd EXCEPT ![w].todo = @ \ {i}]
           /\ run' = IF In(w, "write")
                     THEN [run EXCEPT ![w].summary = CountRow(@, k)] ELSE run
  /\ UNCHANGED <<lifecycleVars, files, requests, alive, result, history,
                 faults>>

\* Mutant: an error of the bulk write is not rethrown.
BulkWriteEndsQuietly(w) ==
  /\ In(w, "write")
  /\ \/ /\ Answered
        /\ cmd[w].todo = {}
        /\ cmd' = [cmd EXCEPT ![w] = None]
        /\ UNCHANGED torn
     \/ /\ Fails
        /\ cmd' = [cmd EXCEPT ![w] = None]
        /\ torn' = torn \cup {run[w].job}
  /\ run' = [run EXCEPT ![w].step = "cleanup"]
  /\ UNCHANGED <<lifecycleVars, files, requests, store, alive, result, kept,
                 refused>>

\* The reply, or at once when there was nothing to send; or an operation fails
\* and ends the command; or the connection is lost and the command goes on.
BulkWriteEnds(w) ==
  /\ In(w, "write")
  /\ \/ /\ Answered
        /\ cmd[w].todo = {}
        /\ cmd' = [cmd EXCEPT ![w] = None]
        /\ run' = [run EXCEPT ![w].step = "cleanup"]
        /\ UNCHANGED torn
     \/ /\ Fails
        /\ ValidRows(run[w].job) # {}
        /\ run' = [run EXCEPT ![w].step = "cleanup", ![w].ok = FALSE]
        /\ \/ /\ cmd' = [cmd EXCEPT ![w] = None]
              /\ torn' = torn \cup {run[w].job}
           \/ UNCHANGED <<cmd, torn>>
  /\ UNCHANGED <<lifecycleVars, files, requests, store, alive, result, kept,
                 refused>>

\* Mutant: the sender of a command that is given up never hears of it.
CommandEndsUnheard(w) ==
  /\ cmd[w] # None
  /\ cmd' = [cmd EXCEPT ![w] = None]
  /\ torn' = IF cmd[w].todo = {} THEN torn ELSE torn \cup {cmd[w].job}
  /\ UNCHANGED <<lifecycleVars, files, requests, store, workers, result, kept,
                 refused, faults>>

\* The database is done with a command nobody waits for, or gives it up.
LostCommandEnds(w) ==
  /\ cmd[w] # None
  /\ ~In(w, "write")
  /\ cmd' = [cmd EXCEPT ![w] = None]
  /\ torn' = IF cmd[w].todo = {} THEN torn ELSE torn \cup {cmd[w].job}
  /\ UNCHANGED <<lifecycleVars, files, requests, store, workers, result, kept,
                 refused, faults>>

\* Mutant: the file is removed after a success only.
CleanupAfterSuccess(w) ==
  LET f == fileOf[run[w].job] IN
  /\ In(w, "cleanup")
  /\ run' = [run EXCEPT ![w].step = "return"]
  /\ files' = IF f \in Uploads /\ run[w].ok THEN files \ {f} ELSE files
  /\ UNCHANGED <<lifecycleVars, requests, store, alive, cmd, result, history,
                 faults>>

\* The finally of handle.  An unlink that fails is logged.
CleanupImportFile(w) ==
  LET f == fileOf[run[w].job] IN
  /\ In(w, "cleanup")
  /\ run' = [run EXCEPT ![w].step = "return"]
  /\ \/ /\ Answered
        /\ files' = IF f \in Uploads THEN files \ {f} ELSE files
        /\ UNCHANGED kept
     \/ /\ Fails
        /\ f \in Uploads
        /\ kept' = kept \cup {f}
        /\ UNCHANGED files
  /\ UNCHANGED <<lifecycleVars, requests, store, alive, cmd, result, torn,
                 refused>>

-----------------------------------------------------------------------------
(* What the worker loop makes of the run.  Each of these writes is lost on *)
(* a process that no longer owns the job; then the run leaves no trace.    *)

EndRun(w) == run' = [run EXCEPT ![w] = None]

JobCompleted(w) ==
  /\ In(w, "return") /\ run[w].ok
  /\ \/ /\ Complete(run[w].job)
        /\ result' = [result EXCEPT ![run[w].job] = run[w].summary]
     \/ UNCHANGED <<lifecycleVars, result>>
  /\ EndRun(w)
  /\ UNCHANGED <<files, requests, store, alive, cmd, history, faults>>

\* retryOrFail, after an error of the handler or of the write of its success.
JobRetriedOrFailed(w) ==
  /\ In(w, "return")
  /\ IF run[w].ok THEN Fails ELSE Answered
  /\ \/ GiveBack({run[w].job})
     \/ Abandon(run[w].job, "QUEUE_PROCESSING_FAILED")
     \/ UNCHANGED lifecycleVars
  /\ EndRun(w)
  /\ UNCHANGED <<files, requests, store, alive, cmd, result, history>>

JobOfUnknownType(w) ==
  /\ In(w, "noHandler")
  /\ \/ Abandon(run[w].job, "QUEUE_INVALID_TYPE")
     \/ UNCHANGED lifecycleVars
  /\ EndRun(w)
  /\ UNCHANGED <<files, requests, store, alive, cmd, result, history, faults>>

\* Locks that were not renewed in time: their runs go on.
RequeueStuck ==
  /\ \E given \in SUBSET Jobs : given # {} /\ GiveBack(given)
  /\ UNCHANGED <<files, requests, store, workers, cmd, result, history, faults>>

Crash(w) ==
  /\ w \in alive
  /\ Fails
  /\ alive' = alive \ {w}
  /\ EndRun(w)
  /\ UNCHANGED <<lifecycleVars, files, requests, store, cmd, result, history>>

-----------------------------------------------------------------------------
Next ==
  \/ \E f \in Uploads : Upload(f)
  \/ \E j \in Jobs : ImportXlsxByType(j) \/ Enqueue(j)
  \/ RequeueStuck
  \/ \E w \in Workers :
       \/ \E j \in Jobs : TakeJob(w, j)
       \/ ParseXlsxFile(w) \/ UpsertRow(w) \/ BulkWriteEnds(w)
       \/ LostCommandEnds(w) \/ CleanupImportFile(w)
       \/ JobCompleted(w) \/ JobRetriedOrFailed(w) \/ JobOfUnknownType(w)
       \/ Crash(w)

Spec == Init /\ [][Next]_vars

-----------------------------------------------------------------------------
\* Every variable has its type; a worker that awaits the reply of a bulk write
\* has one at the database.
TypeOK ==
  /\ phase \in [Jobs -> {"absent", "queued", "processing"} \cup Terminal]
  /\ tries \in [Jobs -> 0 .. MaxTries]
  /\ cause \in [Jobs -> {"none", "QUEUE_PROCESSING_FAILED",
                         "QUEUE_INVALID_TYPE"}]
  /\ files \subseteq Files /\ uploaded \subseteq Uploads /\ asked \subseteq Jobs
  /\ store \in [Keys -> Row \cup {None}]
  /\ alive \subseteq Workers
  /\ run \in [Workers -> Run \cup {None}]
  /\ cmd \in [Workers -> Command \cup {None}]
  /\ \A w \in Workers : In(w, "write") => cmd[w] # None
  /\ result \in [Jobs -> Summary \cup {None}]
  /\ torn \subseteq Jobs /\ kept \cup refused \subseteq Uploads
  /\ faults \in 0 .. MaxFaults

\* The keys a job has valid rows for.
KeysOf(j) == {k \in Keys : \E i \in 1 .. Len(rows[j]) : rows[j][i] = k}

\* A job that succeeded has a document for each of its valid rows, whatever
\* crashed, failed or ran twice on the way.
SucceededIsStored ==
  \A j \in Jobs :
    phase[j] = "succeeded" => \A k \in KeysOf(j) : store[k] # None

\* Runs of the same job may overlap, and bulk writes outlive their senders;
\* still, once each of its bulk writes has come to its end, no document is left
\* as a row of the sheet wrote it that has a later row of the same key.
LastRowPrevails ==
  \A j \in Jobs \ torn :
    (\A w \in Workers : cmd[w] # None => cmd[w].job # j) =>
      \A k \in Keys : store[k] # None /\ store[k].job = j =>
        \A n \in 1 .. Len(rows[j]) : rows[j][n] = k => n <= store[k].number

\* The summary of a job that succeeded accounts for every row, and no document
\* is reported as inserted by two jobs.
SummariesAddUp ==
  /\ \A j \in Jobs :
       phase[j] = "succeeded" =>
         /\ result[j].valid + result[j].failed = result[j].totalRows
         /\ result[j].inserted + result[j].updated = result[j].valid
  /\ \A i, j \in {j \in Jobs : phase[j] = "succeeded"} :
       i # j => result[i].inserted + result[j].inserted
                  <= Cardinality(KeysOf(i) \cup KeysOf(j))

\* An uploaded file that is still there was refused or has a job; and no job
\* that ended leaves it behind, unless its unlink failed or the job ended for
\* want of a handler.
LeftUploadsAreAccountedFor ==
  \A f \in uploaded \cap files :
    LET jobs == {j \in Jobs : fileOf[j] = f /\ phase[j] # "absent"} IN
    /\ f \in refused \/ jobs # {} \/ \E j \in asked : fileOf[j] = f
    /\ f \in kept \/ \A j \in jobs :
         phase[j] \in Terminal => cause[j] = "QUEUE_INVALID_TYPE"

=============================================================================
