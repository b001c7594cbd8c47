# c33: models and proofs

TLA+ models of the c33 import and customer service, TLC configurations that check
them on small instances, and proofs checked by TLAPS. A file such as
`queue/queue.worker.ts` is under the repository's `src/`, a `.md` file under its
`docs/`.

`PROJECT.json` is the index: components and their status, the runs, a mutant
for each property (a plausible bug under which the property fails), the lines
of code every definition stands for, the findings, the hazards and the theorems.

To check a run: `tlc -config <Run>.cfg <Module>`. To check the proofs, `tlapm` on
each of `JobQueueProofs`, `JobQueueTimedProofs`, `JobRefinementProofs`,
`CustomersProofs`, `CustomersObservedProofs`, `ImportsProofs`, `ImportRowsProofs`
and `ListingProofs`.

## 1. The system

A NestJS service over MongoDB. It keeps customers behind a REST API, and imports
XLSX sheets in background jobs that go through a queue it keeps in MongoDB itself.

| Component | State | Operations | Talks to |
|---|---|---|---|
| Queue workers (`queue/queue.worker.ts`) | per process: `stopping`, a `workerId`, the handlers map, `concurrency` loops and their heartbeat timers; the `jobs` collection | start, requeue of stuck jobs, claim, dispatch, heartbeat, succeed, retry, fail, shutdown | handlers (call), `jobs` (commands), dead-letter service |
| Queue submission (`queue.service.ts`, `queue.controller.ts`) | `jobs` | enqueue under an idempotency key, read a job | `jobs` |
| Dead-letter queue (`dead-letter.*.ts`) | `deadletterjobs` | move a failed job, list, retry, delete, daily cleanup | queue submission |
| Queue wiring (`queue.module.ts`) | the order of the lifecycle hooks | registers the handlers | workers |
| Import requests (`import/imports.*.ts`) | the data directory | upload, import by type, by file, of customers | queue submission |
| Import handlers (`queue/handlers/`, `import/utils/`) | one collection per type, the uploaded file | parse, validate, ordered bulk upsert, summary, removal of the upload | worker loop (return or throw), MongoDB, file system |
| XLSX parsing and row normalisation, row schemas | none | sheet to rows, row to document | handlers |
| Customers API (`customer/`) | `customers` with `__v` and a unique `emailCanonical` | POST, PATCH (If-Match), GET, DELETE | also written by customer imports |
| Customer listing | none | filter, sort, skip, limit, count | `customers` |
| Error mapping (`common/errors/`, `global-exception.filter.ts`) | none | exception to code and status | every request |
| Validation pipes, configuration, bootstrap, logging, scripts | settings | | |

**What is hard.** Any number of processes poll one collection, and all loops of
a process share one `workerId`, the only thing an outcome is filtered by. Locks
expire by wall clock, each process reading its own, while a synchronous parse may
hold up the heartbeat and a heartbeat may be on its way while its job is retried.
Every command may fail before or after it took effect. Processes crash between two
commands that belong together (fail, then dead letter). A handler that lost its
lock goes on running, and its bulk write goes on even if the process dies.
Requests to `customers` are check-then-write sequences racing one another and
the imports, which write the same documents without raising `__v`. Pages of a
list are read one after the other while others write. What an import stores was
checked by one schema (Joi) and is read through another (mongoose), whose
validators a bulk write does not run.

**What makes each part correct.**

- *Queue*: the lock and the status never disagree; the outcome of a job is final;
  a job fails only for a reason; in normal timing a job has one worker and waits as
  long as its attempts say; every job ends.
- *Dead-letter queue*: it holds the failed jobs, all of them, and can retry them.
- *Imports*: what a job reports as imported is in the database; the last row of a
  key wins in spite of overlapping runs; an uploaded file does not stay behind
  and is there for the attempts that need it.
- *Rows*: a stored document satisfies the schema of its collection; the key an
  upsert looks for is that of the unique index; plain dates and numbers keep their
  value wherever the server runs.
- *Customers*: emails are unique; an ETag stands for the document it was given for;
  a conditional PATCH never overwrites a write its sender had not seen; every error
  says something that was true.
- *Listing*: paging through a list nobody writes to shows each match exactly
  once; one that only grows hides nothing.

The 36 hazards these are aimed at are in `PROJECT.json`, each at the line where
it bites.

## 2. Modules

```
JobLifecycle <- implemented by - JobQueue <- JobQueueTimed <- JobQueueConfigured
     ^                               ^          ^                     ^
     | extended by                   |          | JobQueueClaims      | extended by
  Imports <- ImportsClaims       JobQueueProofs <---------- JobQueueTimedProofs
     ^                               ^
  ImportsProofs                  JobRefinementProofs

ErrorMapping <- Customers <- CustomersObserved        Listing <- ListingProofs
                    ^               ^
          CustomersProofs <- CustomersObservedProofs  ImportRows <- ImportRowsProofs
```

`MC*` modules hold the constants of the runs, nothing else.

### JobLifecycle: what the queue promises about one job

Three functions over jobs: `phase` (the status), `tries`, `cause`. A job is
submitted once, taken while queued, given back or ended while processing, and
abandoned as `QUEUE_PROCESSING_FAILED` only once its tries are used up.
There are no workers, locks or clocks.

### JobQueue: workers, jobs and dead letters

One step is one database command (the reply included, where nothing can come
between that matters), one reply reaching a loop, one timer, one tick, or one
start, stop or crash. What a loop does between two awaits is one step.

| Model | Code |
|---|---|
| `jobs[j]` | a document of `jobs`; `lockAge` is `now - lockedAt`, `delay` is `availableAt - now` (never negative), `NotLocked` an unset `lockedAt` |
| `SortsFirst` | the sort of the claim: by priority; relative times forget the order of `availableAt` and `createdAt` among jobs that are due, and two of a millisecond tie in the code as well, so that any of one priority may be first |
| `dlq[j]` | the dead letter with the job's idempotency key |
| `proc`, `routed` | life of a process; whether its handlers map is filled |
| `behind[p]`, `maxSkew` | by how much the clock of a process is behind the fastest: a claim writes `lockedAt` by it, `Stuck` reads by it |
| `claimMs` | a claim writes the `now` it read before it was sent: `lockedAt` may be this old when it is applied |
| `maxAttempts` | any integer but 0, which alone is replaced by the default (`queue.service.ts:46`); neither controller, service nor schema has a minimum |
| `sent[w]` | the update of a heartbeat on its way to the database; the code does not await it |
| `loop[w]` | the program counter of a loop, the copy of the job it works from, the heartbeat timer, the error at hand |
| `Start`, `RegisterHandlers` | `onModuleInit` of the worker, then that of the module (`queue.module.ts:84`) |
| `RequeueStuck`, `ClaimNext`, `Dispatch` | `runLoop`, `requeueStuck`, `claimNext`, the first part of `processJob` |
| `Heartbeat`, `HeartbeatArrives` | the `setTimeout` chain of `processJob`; the database applying the update, whatever became of the loop, the job and the process (bound: a loop has one on its way) |
| `HandlerReturns`, `HandlerThrows`, `Succeed`, `Retry`, `Fail` | the rest of `processJob`, `succeed`, `retryOrFail`, `fail`: `Written` is the update filtered on `_id` and `lockOwner` |
| `ReadFailedJob`, `MoveJobToDlq` | the two commands after `fail`'s update, which do not ask whether it matched |
| `Enqueue`, `RetryDlqJob`, `DeleteDlqJob`, `CleanupOldJobs` | the HTTP operations and the cron job |
| `Stop`, `LeaveLoop`, `Exit`, `Crash` | `onModuleDestroy`, or the end of the process at any point |

`Fails` marks a command that ends in an error. Where the code could not tell,
the command may have taken effect before it (a lost reply): a claim nobody knows
of, a success that is then retried. A process is an incarnation and does not come
back, for `workerId` is new at each start.

### JobQueueTimed: the same, on time

The same actions with a clock that waits: no tick passes while a loop holds a job
whose outcome is to be written, while a heartbeat is due, or once a heartbeat has
been on its way for `transitMs`. This is what the lock timeout is configured for,
and the only regime in which it can promise one worker per job.

`JobQueueConfigured` adds the settings for which it does:

    claimMs <= transitMs <= heartbeatMs
    heartbeatMs + 2 * transitMs + maxSkew <= visibilityMs

`HeartbeatAssumption` is stated because nothing in the code enforces it:
`configuration.ts:11-12` validates each of the two settings alone (section 5). A transit counts twice. A
heartbeat sent just before its job is retried still passes the filter (`_id`,
`processing`, `lockOwner`) once a loop of the same process has claimed the job
again, and then sets the new lock *back* by one transit; the next one may take
another. With one transit in the assumption TLC finds two workers on one job, and the
proof fails. A dead letter is written outside of this regime, at any time after.

### Imports: from the upload to the documents

It extends `JobLifecycle`: the queue is taken at its promise, and the run of any
handler may be one whose job was given back (every outcome write may be lost).
`ParseXlsxFile` may fail whatever is there: a workbook nobody can read, a manifest
that is not there. `run[w]` is a handler between its awaits, `cmd[w]` the bulk write the
database is carrying out, which survives its sender. `store[k]` is the
row that last wrote a document. `torn`, `kept` and `refused` are history variables
(a bulk write cut short; an unlink that failed; an upload answered with an error)
that the properties make exceptions for: an upload whose type the name does not
tell, or whose enqueue fails, is received and never removed.
A job is a type and a path, which is what its idempotency key hashes.

### ImportRows: from a cell to a document

`ProcessRow` is one round of the loop over the rows: `normalizeRow` (or the row of a
customer), then the Joi schema of the type; `BulkWrite` is one upsert of the bulk
write, found by the handler's filter, refused by a unique index or not. A cell is
the text SheetJS formats it to (`raw: false`), and each string in the model stands
for the cells like it: blank, padded, a number, one with a separator or a currency
sign, a short date, an ISO date, a serial number, text. `new Date` and `parseFloat`
are tabulated on them, with the server's time zone where `new Date` depends on it.
The five types of the manifest and customers have their columns, Joi schemas,
mongoose schemas, filters and indexes, each a definition of its own beside the file it
translates; a schema is the function from fields to sets of values that it is.

### Customers, CustomersObserved, ErrorMapping

A request is its sequence of commands (`checkNew`, `insert`; `checkEmail`,
`update`, `reread`), one step each; `Import` is one upsert of a customer import.
Fields other than the email and `__v` are reduced to the number of the request
and of the import that wrote them last. The unique index may be there or not, and
`CreateIndexes` is the start of a process, which makes it if no two customers share
an email: the code logs a failure and goes on. An id is spelled as the API prints it or not
(`asPrinted`): the database finds it either way, but the check of a PATCH compares
it, as a string, with the printed one. Every error goes through
`transformException` of `ErrorMapping`, a translation of the mappers and the
filter; note there that `isMongoError` accepts anything with a `code`.
`CustomersObserved` adds `since`, what was the case at some moment of a request.

### Listing

A client walks from page 1 while others create, update and delete. The `find`
and the `count` of a page are separate steps in any order, the `find` breaks ties
in any way, `calm` is the history of the disturbance, and `stayed` are the
matches that were there, untouched, from the start.

### Claims

`JobQueueClaims` and `ImportsClaims` state sentences of the documentation that the
code does not keep (section 5).

## 3. Runs that pass

Times are for two workers on a small machine. Deadlock is not checked in any
run: the systems are bounded (each job ends, each budget is used up) and really
do stop; progress is stated by `EveryJobEnds` instead.

**`job_queue`** (593,000 states, 60 s). One job of two attempts, two
processes of two loops, one failing command, two claims, timers as late as they
like and heartbeats that arrive whenever they like. Two loops of one process and
one of another are what it takes for a loop to lose its job to a sibling with the
same `workerId`, for which the `lockOwner` filter is no guard. Two claims are the
fewest that let a stale copy of a job differ from the document.
`LockedIffProcessing`, `SnapshotIsPast`, `FailedIsJustified`, `OutcomeIsFinal`,
`LockReleasedByHolder` and the refinement `ImplementsLifecycle` hold in spite of it.
`LockReleasedByHolder` asks for the process only: a stale loop does end the run of a
sibling, and `FailedIsJustified` and `OutcomeIsFinal` say how little comes of it.
The proofs lift all of these to any number of jobs, processes, loops, claims and faults.

**`job_queue_timed`** (323,000 states, 20 s). One job of three attempts, two processes
of two loops, lock timeout 4, heartbeat 1, transit 1, a claim's reading of the clock 1,
one clock behind by 1 (the assumption is met with equality), two faults. Two loops of
one process are what a heartbeat that outlives its attempt needs to do harm, and two
processes with clocks that differ what a lock judged by another clock needs.
`OneWorkerPerJob` and `WorkerHoldsLock` show that on-time heartbeats do keep a lock;
`NoLiveDeadLetter` that on time no dead letter is the copy of a job that lives;
`BackoffFitsAttempts` that the wait written for a retry, computed from the copy of the
claim, is the one of the attempts in the document it is written to. Base 1, factor 2 and
cap 3 tell apart the first wait (1), the second (2) and a capped one.
`MaxClaims` is 9, more than crashes, faults and limits allow: the bound never holds a
claim back.

**`job_queue_live`** (213,000 states, 60 s). Two jobs (limits 2 and -1, which a request
may ask for; priorities 100 and 25), two processes of one loop, a fault, a crash.
`ExtraAttemptsPaidFor`: nothing but a crash or a failed command makes a job run beyond
its limit, where a limit below 1 counts as 1. `EveryJobEnds`: each job ends, under the
fairness of section 4; here too `MaxClaims` never holds a claim back, so that it cannot
make the property true or false.

**`customers`** (1.4 million states, 90 s). Two clients, two ids, two emails, two
writes, one import, any customers there at the start, with the index or without.
Two writes are the least for a document to be read, written by another and then
written conditionally. `TagTellsWrites` allows an import to slip in (it
leaves `__v` as it is), and `IfMatchLosesNoWrite` is about requests for the same
reason.
`ErrorsWereTrue`: each conflict, failed precondition or missing customer a request
is told of was the case at some moment while it ran. It holds of ids spelled as
printed only. That emails are unique where the unique index is there is the index's
doing and no property of the code; without it they are not (section 5).

**`imports`** (2.1 million states, 75 s). Job 1 is an upload with a repeated key
and an invalid row, tried twice; job 2 a data file sharing the key; two workers;
one fault, which may be a crash, a lost reply, a failed unlink or a failed
enqueue; a file may also fail to parse. Two tries and two workers give overlapping
runs of one job, and commands whose sender is gone. `SummariesAddUp` says that the
counts of a summary add up to the rows, and that no document is reported as inserted by
two jobs; `LeftUploadsAreAccountedFor` that a refusal, a failed unlink, a worker without
a handler, or a job still under way is behind every upload that is there. It makes an
exception of refused uploads, and that a file goes too early is the run `upload_retry`.

**`import_rows`** (440,000 states, 10 s). Sheets of up to two rows. A row of the five
types of the manifest is plain but for one cell; one of customers is any, under four
sets of headers. Two rows give a key twice. Zones on either side of Greenwich
(UTC-5, UTC+9) tell apart the two ways a date is read. `LastRowOfAKeyIsStored` is about
the keys of the code, which are not those of the documentation (section 5).

**`listing`** (216,000 states, 11 s). Three customers, pages of one or two, two
writes in a walk. Three customers give a full page with a page that is not full
after it, or three pages; two writes give one between the `find` and the `count`
and one between two pages. `QuietWalkIsExact` and `CreationsHideNothing` ask for
distinct sort values, because nothing in the code breaks ties.

**Symmetry** is used in runs that check invariants and action properties only,
for constants the specification does not tell apart.

## 4. Fairness

Only `FairSpec` of `JobQueueTimed` assumes any: weak fairness of the clock, of a
started process coming up and registering its handlers, and, per loop, of its
next step, of its heartbeat and of that heartbeat's arrival. An event loop serves every resolved promise
and due timer, and the driver answers or times out; a handler returns or throws.
A crash, a stop and a client are never owed. A process that crashes loses its
fairness with its steps. `Survivor` keeps one incarnation running or still to be
started, the supervisor's restart: without one nothing would end. Faults are
finitely many, since a database that always fails ends no job.

## 5. Where documents and code disagree

Each of these is a run of one property that TLC shows violated.

| Run | Document | What happens |
|---|---|---|
| `dlq_retry` | `dead-letter.controller.ts:71` "DLQ job retried successfully" | the failed job keeps its idempotency key, so that the retry of its dead letter is always answered 409 |
| `dlq_contents` | `dead-letter-job.schema.ts:9` "Stores permanently failed jobs" | `fail` ignores whether its update matched: a worker that lost its lock files a dead letter of a live or succeeded job |
| `startup_race` | `queue-imports.md:33` "After max attempts, job moves to dead letter queue" | loops start before the handlers are registered; a job claimed in between fails for good at its first attempt |
| `lost_dead_letter` | `environment.md:49` "Failed jobs move here after max attempts" | a crash after the update of `fail` leaves a failed job without a dead letter, for ever (under `FairSpec`) |
| `upload_retry` | `ARCHITECTURE.md:346` "Uploaded files deleted after processing" | the file goes after the attempt that failed, and every retry fails for want of it |

Differences that need no run, since the models contain them or one reading of the
code is enough:

- `environment.md:35` "Maximum retry attempts before job moves to DLQ": the requeue of
  stuck jobs does not look at `attempts`, so that a job that takes its worker with it
  is tried again for ever. `ExtraAttemptsPaidFor` says what holds instead.
- `queue-imports.md:29` "`min(BASE * FACTOR^attempt, MAX)`": the exponent is
  `attempts - 1` (`queue.worker.ts:259`), so that the first retry waits `BASE` and each
  later one a factor less than documented. `BackoffFitsAttempts` is about the code's
  formula.
- `queue-imports.md:12` "refreshes `lockedAt` every 10s to keep the lock" and
  `environment.md:46` "Heartbeat extends timeout for long jobs": true of settings that
  meet `HeartbeatAssumption`. `configuration.ts:11-12` accepts a heartbeat interval
  beyond the lock timeout, with which every job that takes longer than the timeout is
  given to a second worker though all timers are on time.
- `queue-imports.md:90-92`, the keys by which imported rows are told apart: Customers
  `{email}` is `emailCanonical`, AP `{invoiceNumber}` is `apId`, and Budget
  `{year, category, department}` is `fiscalYear`, `dept` and `quarter` (a forecast has no
  category): under the documented key the quarters of a year would overwrite each
  other. `LastRowOfAKeyIsStored` is about the code's keys.
- `test/unit/xlsx.util.spec.ts:18` "should parse ISO date string to UTC midnight Date":
  `parseExcelDate` takes the local day (`xlsx.util.ts:31`). West of Greenwich an ISO date
  becomes the day before, and the test fails there.
- `ARCHITECTURE.md:66` "Unique email enforcement via MongoDB index":
  `createIndexes` logs a failure and goes on (`customer.repository.ts:169`). Without the
  index two requests, or a request and an import, give two customers one email, also
  once the duplicates that made it fail are gone.
- `customer.controller.ts:231` "supports optimistic concurrency": an import
  does not raise `__v` (`base-import.handler.ts:187`), and a PATCH with an ETag of before it
  overwrites what it wrote.
- `customer.controller.ts:275` "Email already exists (CUSTOMER_DUPLICATE_EMAIL)": an id
  in upper case is not equal to the printed one (`customer.service.ts:178`), and a PATCH
  of a customer with its own email is answered so. Conversely a PATCH that loses the
  race for an email is answered `DB_DUPLICATE_KEY` (409 as well).
- `queue-imports.md:85` "bulk writes (100/batch)": there is one ordered `bulkWrite` for
  all rows of a sheet (`bulk-write.util.ts:26`), as in `Imports`. Ordered, it is what
  `LastRowPrevails` rests on.
- A file that is too large is answered 413 with the code `INTERNAL_SERVER_ERROR`, and
  a route that does not exist 404 with `CUSTOMER_NOT_FOUND`: what the mapping of
  status codes in the filter makes of an `HttpException` without a code.
- Cells that do not arrive as their author meant them: `5,000` is read as 5 and `$5`
  as 0; the text of a
  date's serial number is read as a year (the branch for serial numbers is never taken,
  as cells are text); an optional date that is invalid becomes null; an empty first
  spelling of a customer's column hides a later one.
  `PlainCellsKeepTheirValue` says which cells do arrive. Outside of the model: the
  row numbers of errors shift after a blank row, and inner blanks of names stay.

## 6. Proofs

Each theorem holds for all values of the constants that meet the named assumptions
of its module; TLC evaluates these on every run. Only definitions of the models
are used: no fact is assumed beyond them.

| Module | Theorem | Statement |
|---|---|---|
| `JobQueueProofs` | `TypeCorrect` | `Spec => []TypeOK` |
| | `LocksFollowStatus` | `Spec => []LockedIffProcessing` |
| | `SnapshotsArePast` | `Spec => []SnapshotIsPast` |
| | `FailuresAreJustified` | `Spec => []FailedIsJustified` |
| | `OutcomesAreFinal` | `Spec => OutcomeIsFinal` |
| | `LocksReleasedByHolder` | `Spec => LockReleasedByHolder` |
| `JobQueueTimedProofs` | `OneWorkerAtATime` | `TimedSpec => []OneWorkerPerJob` |
| | `WorkersHoldLocks` | `TimedSpec => []WorkerHoldsLock` |
| | `DeadLettersAreEnded` | `TimedSpec => []NoLiveDeadLetter` |
| | `AttemptsLimited` | `TimedSpec => []ExtraAttemptsPaidFor` |
| | `BackoffsFit` | `TimedSpec => BackoffFitsAttempts` |
| `JobRefinementProofs` | `LifecycleImplemented` | `Spec => ImplementsLifecycle` |
| `ImportsProofs` | `ImportsTyped` | `Spec => []TypeOK` |
| | `SuccessMeansStored` | `Spec => []SucceededIsStored` |
| | `LastRowsPrevail` | `Spec => []LastRowPrevails` |
| | `SummariesOfSuccesses` | `Spec => []SummariesAddUp` |
| | `LeftUploadsKnown` | `Spec => []LeftUploadsAreAccountedFor` |
| `ImportRowsProofs` | `LastRowStored` | `Spec => []LastRowOfAKeyIsStored` |
| | `DocsAllowed` | `Spec => []StoredDocsSatisfySchema` |
| | `PlainCellsKept` | `Spec => []PlainCellsKeepTheirValue` |
| `CustomersProofs` | `CustomersTyped` | `Spec => []TypeOK` |
| | `TagsTell` | `Spec => []TagTellsWrites` |
| | `ConditionalWritesLoseNone` | `Spec => IfMatchLosesNoWrite` |
| `CustomersObservedProofs` | `ErrorsOfAMoment` | `ObservedSpec => ErrorsWereTrue` |
| `ListingProofs` | `TypeCorrect` | `Spec => []TypeOK` |
| | `WalksAreExact` | `Spec => []QuietWalkIsExact` |
| | `WalksMissNoOne` | `Spec => []CreationsHideNothing` |
| | `MetaIsOfItsPage` | `Spec => []MetaAgrees` |

*The queue.* The assumptions: `None` is none of the values it is
mixed with; timers and bounds are natural numbers, priorities integers; an attempt limit
is any integer but 0 (`dto.maxAttempts || config`: a negative one is stored as it is);
no clock is behind by more than `maxSkew`. (`backoffFactor` is a natural number too; the code also allows
fractions and rounds down.) `RoutableAssumption` is not needed. The induction rests on
`Inv == TypeOK /\ LoopsInOrder /\ LockedIffProcessing`.

- Two shape lemmas do the case analysis once. `JobsStep`: whatever the step, each
  document was kept (its clocks aside), requeued because stuck, submitted, taken
  or given an outcome by a loop its `lockOwner` names. `LoopMove`: each loop stayed,
  went to its top, moved on with its job, or took one. The theorems
  then split on these few cases and not on the actions again.
- `LockedIffProcessing` is what makes a filter on `lockOwner` alone enough: a job
  that is owned is processing, so an outcome is only ever written over a job
  that is being processed. `OutcomesAreFinal`, `LocksReleasedByHolder` and the
  refinement's `Complete`, `Abandon` and `GiveBack` follow.
- `FailuresAreJustified` is not inductive: a loop about to fail a job has decided by
  the attempts of its *copy*. It needs that copies are never newer than the
  document (`SnapshotIsPast`: attempts only grow), and that a loop at `fail`
  reached the limit by its copy (`FailsDecided`). Together they are `FailInv`.
- The refinement needs in addition that an absent job is untried (`AbsentUntried`),
  for the phase a submission starts from.

*The queue on time.* In addition, `HeartbeatAssumption`, finitely many processes and a
transit that is a natural number.
`OneWorkerPerJob` rests on no lock of a loop at work being old enough for any process
to requeue its job, which is not inductive. `TimeInv` adds to `Inv`

- `LocksHeld`: a loop at work holds its job, by the same count of attempts, with a
  lock whose age follows the timer (`Fresh`). Either the lock is no older than the time
  since the last heartbeat was sent and one transit, or that heartbeat is still on
  its way and the lock one interval older; never older than an interval and two
  transits. Or else the job has succeeded and the reply was lost (`Done`);
- `BeatsOnTime`: no heartbeat is on its way for more than a transit;
- `LoopsAlive`: a loop that is not off belongs to a process that runs.

`DeadLettersAreEnded` needs that the job a loop has just failed, or copied, has ended
(`LettersOfEnded`); `AttemptsLimited` that a job that waits, or that lost its worker,
has an attempt left or one paid for (`AttemptsPaid`): a claim spends it, a crash or a
failing command pays for the next. It counts against `Limit`: `retryOrFail` compares
after the attempt, so that a limit below 1 still allows one. `BackoffsFit` is
`LocksHeld` put to use: the copy whose attempts the exponent is made of agrees with the
document the wait is written to.

*Imports.* The assumptions: `Uploads` are files, each job has a file, a sheet and a
limit, `None` is neither run, command nor row. `IInv` is `TypeOK` and

- `StoreInv`: a command has still to do all of its job's valid rows from its next one
  on (`TodoInOrder`, `TodoValid`); a run that has come to no harm has its rows
  stored or on their way (`RunsStore`), a job that succeeded has them stored
  (`EndedStored`); and whenever a document is as an earlier row of a key wrote it, a
  command of the same job still has the later row to do, unless a bulk write of it was cut
  short (`LaterRowsDue`). The last one is what survives overlapping runs of one job.
- `SummaryInv`: while a run writes, its rows are valid or in error, and its valid rows
  inserted, replaced or still to be written; once it has ended well nothing is left
  (`RunsAdd`), and so says the result of a job that succeeded (`ResultsAdd`). At any
  moment the inserted documents can be shared out (`InsertsShared`): a function from keys
  to runs, jobs or nobody, under which each run and each job that succeeded reports as
  many insertions as documents are its own. The witness
  moves with a step: the upsert that creates a document gives it to its run, the end of
  a run to its job, a run that ends without a summary takes its share with it.
  `SummariesAddUp` only speaks of jobs that succeeded and would not be inductive: a run
  under way holds counts no job reports yet.
- `UploadsInv`: a job's upload was received and is its own, and from the end of a
  run's cleanup on the file is gone or known to have stayed (`RunsCleanUp`, `EndedGone`).

*Rows.* For sheets of any length and any zone; `MaxRows` bounds nothing in the proof.
`LastRowStored` needs that every handler filters by exactly the key of its collection's
unique index (`FilterIsIndex`) and that upserts keep the order of the rows (`OpsOK`).
`DocsAllowed` needs that each Joi schema is contained, field by field, in the mongoose
schema of the collection (`JoiWithinSchema`), and for a customer that the fields the
handler derives are allowed (`ValueAllowed`). `PlainCellsKept` needs that what is
written of any row keeps the values of its plain cells (`RowsKept`), and follows the
zone through `new Date` and `getDate` (`DateKept`). It is about the cells the model
tabulates, in any row of any length of sheet.

*Customers.* For any clients, ids and emails, the index there, missing, or created at
any time. `IInv` adds to the properties that an ETag is of an id that was
handed out (`TagsOfUsedIds`; ids are not handed out twice), that the version a request
asks for is that of the ETag its client holds (`MatchIsOfTag`), and that a request has
the fields its step reads (`FieldsSent`).

`ErrorsOfAMoment` is about `ObservedSpec`, which adds `since` to each step of
`Customers`, whose `IInv` it therefore has; `OInv`
adds that a new customer has no id yet (`NewHasNoId`) and that a request reads again
only after an update that matched nothing, for a cause that `since` has recorded or
because the customer is gone, and then for good (`RereadForCause`). Between that update and the second read the customer may be
deleted or written: this is why the property asks for some moment, and the proof for
the cause at the moment of the update.

*Listing.* For any finite set of customers, any page size, any number of writes. The
place of a customer (`Place`) is how many matches do not come after it, which needs no
sequence: `PlaceInOrder` shows that whatever order the database finds the matches in,
the customer at position `i` has place `i` when no values tie. A page is the places
from `skip + 1` to `skip + limit` (`PageListsItsPlaces`), and `TotalPages` is
the page the last place is on (`PagesOf`). `LInv` then says

- `ItemsFound`, `TotalCounted`: a reply in a request that nothing disturbed is of the
  documents as they are;
- `ListedOnce`: a quiet walk has listed exactly the matches whose place is before its
  page, each once;
- `ListedAtLeast`: a walk among creations has listed at least those who stayed and
  whose place is before its page, and will list those on it. A creation only raises
  places (`CreationsPush`), which asks for less.

*Induction.* The library's induction theorems take an operator as a parameter, which
the provers cannot instantiate. Where a proof needs one (`LeastOf`)
it takes a minimal element of a set of finite sets instead (`WFMin`), which has no such
parameter.

*Only model-checked*: `EveryJobEnds` (liveness: the prover has neither ENABLED nor
fairness). What the prover cannot derive of powers is avoided: `Backoff` compares
with `1 .. backoffMaxMs`, since no power of positive numbers is 0.

## 7. What is not modelled

- **How SheetJS reads a workbook**: the choice of a sheet, the formatting of cells. A
  file that is there parses or does not; one that is not there fails.
- **Payloads.** A job without payload is stored without the field, for empty objects
  are minimised, and the insert of its dead letter then fails
  (`dead-letter.repository.ts:27`): one of the failures of `MoveJobToDlq`.
- **Which paths count as uploads.** Any path that contains `upload-` does
  (`file-cleanup.util.ts:21`). `Imports` takes `Uploads` as the set of these, so that
  their removal is in the model, and no document says which files are safe.
- **How a filter of the list decides** (regular expressions, ranges): one bit of the
  document.
- **Reads that change nothing** (a job, the list of dead letters), the pipes that
  refuse a request before it does anything, logging, wiring, documentation
  decorators, scripts.
- **Code nothing calls**: the claim, requeue and marks of `JobRepository`,
  `upsertByEmail`, the factories of `AppError`, `importXlsxByFilename`,
  `importXlsxCustomers`, `calculateTotalPages` of `pagination.util.ts` (the listing has
  the formula inline, `customer.service.ts:142`).

## 8. Plan

Done, in this order: `JobQueue` with its abstraction and its proofs,
`JobQueueTimed`, the claims, `Customers`, `Imports`, `ErrorMapping`, `Listing`;
then heartbeats in flight and clocks that differ, `ImportRows`, uploads nobody
removes, the index that may be missing and the spelling of ids; then the proofs of
`Customers`, `ImportRows`, `Imports` and of the queue on time; then the summaries of
`Imports`, the errors of `Customers`, `Listing` and the cells of `ImportRows`; then
limits below 1, the clock a claim reads, workbooks that do not parse and the waits of
retries.

Left:

1. The safety half of `EveryJobEnds`: that no step takes a job further from its end but
   one a crash or a failing command paid for.
2. That `Imports`, seen through its queue variables, implements `JobLifecycle`.
