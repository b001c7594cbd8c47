------------------------------ MODULE JobQueue ------------------------------
(***************************************************************************)
(* The MongoDB-backed job queue: the `jobs` and `deadletterjobs`           *)
(* collections, the worker processes that poll them, and the HTTP          *)
(* operations that submit jobs and manage the dead-letter queue.           *)
(*                                                                         *)
(* One TLA+ step is one database command, one reply reaching a worker      *)
(* loop, one timer, one start, stop or crash of a process, or one tick of  *)
(* the clock.  Everything a loop does between two awaits is one step.      *)
(* Heartbeats are not awaited: sending one and the database applying it    *)
(* are two steps, with anything in between.                                *)
(*                                                                         *)
(* Time is relative: a job stores how long ago `lockedAt` was and how far  *)
(* ahead `availableAt` is, and Tick moves all of them.  The clocks of the  *)
(* processes differ: lockedAt is written by the clock of one and judged by *)
(* that of another, and a claim reads its clock claimMs or less before the *)
(* database applies it.  (The same is true of availableAt: differences     *)
(* there only lengthen or shorten a backoff.)                              *)
(***************************************************************************)
EXTENDS Integers, FiniteSets

CONSTANTS
  Jobs,           \* submissions, one per idempotency key
  Procs,          \* incarnations of the worker process: one workerId each
  Slots,          \* the loops of a process (queue.concurrency of them)
  None,           \* an unset field
  Routable,       \* the jobs whose type is one of JobType
  priority,       \* [Jobs -> Int]: lower is more urgent
  maxAttempts,    \* [Jobs -> Int]: the limit stored in the job
  visibilityMs,   \* lock timeout, in ticks
  heartbeatMs,    \* heartbeat interval, in ticks
  behind,         \* [Procs -> Nat]: ticks its clock is behind the fastest
  maxSkew,        \* the most that any clock is behind
  claimMs,        \* the longest from a claim's reading of the clock to its
                  \* application, in ticks
  backoffBaseMs, backoffFactor, backoffMaxMs,
  MaxClaims,      \* bound: claims of one job
  MaxFaults       \* bound: database commands that fail

ASSUME JobsAssumption == None \notin Jobs
ASSUME ProcsAssumption == None \notin Procs
ASSUME RoutableAssumption == Routable \subseteq Jobs
\* A request may ask for any limit; only 0 is replaced by the default.
ASSUME LimitsAssumption == /\ priority \in [Jobs -> Int]
                           /\ maxAttempts \in [Jobs -> Int \ {0}]
ASSUME TimersAssumption ==
  /\ visibilityMs \in Nat \ {0}
  /\ heartbeatMs \in Nat \ {0}
  /\ backoffBaseMs \in Nat \ {0}
  /\ backoffFactor \in Nat \ {0}
  /\ backoffMaxMs \in Nat \ {0}
ASSUME ClocksAssumption ==
  /\ maxSkew \in Nat
  /\ claimMs \in Nat
  /\ behind \in [Procs -> Nat]
  /\ \A p \in Procs : behind[p] <= maxSkew
ASSUME BoundsAssumption == MaxClaims \in Nat /\ MaxFaults \in Nat

VARIABLES
  jobs,     \* the jobs collection
  dlq,      \* the dead-letter collection, by idempotency key
  proc,     \* what each process is doing
  routed,   \* processes whose handlers map has been filled
  loop,     \* the state of each worker loop
  sent,     \* the heartbeat of each loop that is on its way, even from the dead
  faults    \* database failures still allowed (bounded by MaxFaults)

vars == <<jobs, dlq, proc, routed, loop, sent, faults>>

Workers == Procs \X Slots

JobStatus == {"queued", "processing", "succeeded", "failed"}
Terminal == {"succeeded", "failed"}
NotLocked == -1                      \* lockedAt is unset
NoSuchJob == "absent"                \* no document has this idempotency key

Codes == {"none", "QUEUE_PROCESSING_FAILED", "QUEUE_INVALID_TYPE"}

\* Ages saturate at the first one that every clock takes for a stale lock.
maxAge == visibilityMs + maxSkew + 1
AtMost(n, max) == IF n < max THEN n ELSE max

JobDoc == [status : JobStatus \cup {NoSuchJob},
           lockOwner : Procs \cup {None},
           lockAge : {NotLocked} \cup 0 .. maxAge,   \* by the fastest clock
           delay : 0 .. backoffMaxMs,
           attempts : Nat,
           error : Codes]

\* What the dead-letter document copies from the job document.
DeadLetter == [status : JobStatus, attempts : Nat]

\* The update on its way: the job it names, and how old its lockedAt is.
Beat == [job : Jobs, age : 0 .. maxAge]

ASSUME BeatAssumption == None \notin Beat
ASSUME DeadLetterAssumption == None \notin DeadLetter

PCs == {"off", "top", "claim", "got", "run", "succeed", "retry", "fail",
        "read", "dlq"}

LoopState == [pc : PCs,
              job : Jobs \cup {None},         \* the job passed to processJob
              attempts : Nat,                 \* its attempts when claimed
              beat : 0 .. heartbeatMs,        \* since the timer was armed
              code : Codes,                   \* the error passed to fail
              doc : DeadLetter \cup {None}]   \* what findById returned

ProcStates == {"new", "up", "stopping", "exited", "crashed"}

Init ==
  /\ jobs = [j \in Jobs |-> [status |-> NoSuchJob, lockOwner |-> None,
                             lockAge |-> NotLocked, delay |-> 0,
                             attempts |-> 0, error |-> "none"]]
  /\ dlq = [j \in Jobs |-> None]
  /\ proc = [p \in Procs |-> "new"]
  /\ routed = {}
  /\ loop = [w \in Workers |-> [pc |-> "off", job |-> None, attempts |-> 0,
                                beat |-> 0, code |-> "none", doc |-> None]]
  /\ sent = [w \in Workers |-> None]
  /\ faults = MaxFaults

-----------------------------------------------------------------------------
(* The outcome of a database command, and moves of a loop.                 *)

Answered == UNCHANGED faults
Fails == faults > 0 /\ faults' = faults - 1

GoTo(w, pc) == loop' = [loop EXCEPT ![w].pc = pc]

\* Back to the head of the while loop, with nothing in hand.
TopOfLoop(w) ==
  loop' = [loop EXCEPT ![w] = [pc |-> "top", job |-> None, attempts |-> 0,
                               beat |-> 0, code |-> "none", doc |-> None]]

dbRest == <<dlq, proc, routed, sent>>

-----------------------------------------------------------------------------
(* Submitting jobs.                                                        *)

Exists(j) == jobs[j].status # NoSuchJob

\* The unique index on idempotencyKey refuses a second document.
DuplicateKey(j) == Exists(j)

Created(j) ==
  jobs' = [jobs EXCEPT ![j].status = "queued", ![j].attempts = 0,
                       ![j].delay = 0]

Enqueue(j) ==
  /\ ~DuplicateKey(j)
  /\ Created(j)
  /\ UNCHANGED <<dlq, proc, routed, loop, sent, faults>>

-----------------------------------------------------------------------------
(* Processes.                                                              *)

\* Bound: some incarnation is running, or is still to be started.
Survivor(p) == \E q \in Procs \ {p} : proc[q] \in {"new", "up"}

\* onModuleInit of the worker: the loops start before any handler is known.
Start(p) ==
  /\ proc[p] = "new"
  /\ proc' = [proc EXCEPT ![p] = "up"]
  /\ loop' = [w \in Workers |->
                IF w[1] = p THEN [loop[w] EXCEPT !.pc = "top"] ELSE loop[w]]
  /\ UNCHANGED <<jobs, dlq, routed, sent, faults>>

\* onModuleInit of the module, run once those of its providers have returned:
\* QueueService's waits for the database to create the indexes.
RegisterHandlers(p) ==
  /\ proc[p] = "up"
  /\ p \notin routed
  /\ routed' = routed \cup {p}
  /\ UNCHANGED <<jobs, dlq, proc, loop, sent, faults>>

\* onModuleDestroy, on a termination signal.
Stop(p) ==
  /\ proc[p] = "up"
  /\ p \in routed
  /\ Survivor(p)
  /\ proc' = [proc EXCEPT ![p] = "stopping"]
  /\ UNCHANGED <<jobs, dlq, routed, loop, sent, faults>>

LeaveLoop(w) ==
  /\ loop[w].pc = "top"
  /\ proc[w[1]] = "stopping"
  /\ GoTo(w, "off")
  /\ UNCHANGED <<jobs, dlq, proc, routed, sent, faults>>

\* Promise.allSettled(loops) resolves once every loop has returned.
Exit(p) ==
  /\ proc[p] = "stopping"
  /\ \A s \in Slots : loop[<<p, s>>].pc = "off"
  /\ proc' = [proc EXCEPT ![p] = "exited"]
  /\ UNCHANGED <<jobs, dlq, routed, loop, sent, faults>>

Crash(p) ==
  /\ proc[p] \in {"up", "stopping"}
  /\ Survivor(p)
  /\ proc' = [proc EXCEPT ![p] = "crashed"]
  /\ loop' = [w \in Workers |->
                IF w[1] = p
                THEN [pc |-> "off", job |-> None, attempts |-> 0, beat |-> 0,
                      code |-> "none", doc |-> None]
                ELSE loop[w]]
  /\ UNCHANGED <<jobs, dlq, routed, sent, faults>>

-----------------------------------------------------------------------------
(* The worker loop, up to the end of the handler.                          *)

\* Mutant: $lte for $lt.
StuckEarly(p, j) ==
  /\ jobs[j].status = "processing"
  /\ jobs[j].lockAge - behind[p] >= visibilityMs

\* lockedAt exists and lockedAt + visibilityTimeoutMs < now, by p's clock.
Stuck(p, j) ==
  /\ jobs[j].status = "processing"
  /\ jobs[j].lockAge # NotLocked
  /\ jobs[j].lockAge - behind[p] > visibilityMs

\* Mutant: attempts start again.
UnstuckAfresh(doc) == [doc EXCEPT !.status = "queued", !.lockOwner = None,
                                  !.lockAge = NotLocked, !.attempts = 0]

Unstuck(doc) == [doc EXCEPT !.status = "queued", !.lockOwner = None,
                            !.lockAge = NotLocked]

RequeueStuck(w) ==
  /\ loop[w].pc = "top"
  /\ proc[w[1]] # "stopping"
  /\ \/ /\ Answered
        /\ jobs' = [j \in Jobs |-> IF Stuck(w[1], j) THEN Unstuck(jobs[j])
                                                     ELSE jobs[j]]
     \/ Fails /\ UNCHANGED jobs
  /\ GoTo(w, "claim")
  /\ UNCHANGED dbRest

\* Mutant: the claim's filter without status.
ClaimableAny == {j \in Jobs : Exists(j) /\ jobs[j].delay = 0}

Claimable == {j \in Jobs : jobs[j].status = "queued" /\ jobs[j].delay = 0}

\* sort: { priority: 1, availableAt: 1, createdAt: 1 }.  Jobs of one priority
\* are told apart by two times of a millisecond's resolution, past and equal
\* ones among them, that the ticks forget: any of these may be the first.
SortsFirst(j) == \A i \in Claimable : priority[j] <= priority[i]

\* Mutant: lockedAt is left to the first heartbeat.
ClaimedUnlocked(doc, p, age) == [doc EXCEPT !.status = "processing",
                                            !.lockOwner = p,
                                            !.attempts = doc.attempts + 1]

\* lockedAt is `now`, read `age` ticks before the command is applied.
Claimed(doc, p, age) == [doc EXCEPT !.status = "processing", !.lockOwner = p,
                                    !.lockAge = AtMost(behind[p] + age, maxAge),
                                    !.attempts = doc.attempts + 1]

\* findOneAndUpdate: nothing to claim, a claim, or an error, which loses a
\* claim the database may have made.
ClaimNext(w) ==
  /\ loop[w].pc = "claim"
  /\ \/ /\ Claimable = {}
        /\ TopOfLoop(w)
        /\ UNCHANGED <<jobs, faults>>
     \/ \E j \in Claimable :
          /\ SortsFirst(j)
          /\ jobs[j].attempts < MaxClaims
          /\ \E age \in 0 .. claimMs :
               jobs' = [jobs EXCEPT ![j] = Claimed(jobs[j], w[1], age)]
          /\ \/ /\ Answered
                /\ loop' = [loop EXCEPT ![w].pc = "got", ![w].job = j,
                                 ![w].attempts = jobs[j].attempts + 1]
             \/ Fails /\ TopOfLoop(w)
     \/ Fails /\ TopOfLoop(w) /\ UNCHANGED jobs
  /\ UNCHANGED dbRest

HasHandler(w) == w[1] \in routed /\ loop[w].job \in Routable

\* processJob up to its first await.
Dispatch(w) ==
  /\ loop[w].pc = "got"
  /\ loop' = IF HasHandler(w)
             THEN [loop EXCEPT ![w].pc = "run", ![w].beat = 0]
             ELSE [loop EXCEPT ![w].pc = "fail",
                               ![w].code = "QUEUE_INVALID_TYPE"]
  /\ UNCHANGED <<jobs, dlq, proc, routed, sent, faults>>

\* The timer fires, late if the event loop was busy, sends the update and is
\* armed again.  Bound: a loop has one heartbeat on its way at a time.
Heartbeat(w) ==
  /\ loop[w].pc = "run"
  /\ loop[w].beat = heartbeatMs
  /\ sent[w] = None
  /\ sent' = [sent EXCEPT ![w] = [job |-> loop[w].job, age |-> behind[w[1]]]]
  /\ loop' = [loop EXCEPT ![w].beat = 0]
  /\ UNCHANGED <<jobs, dlq, proc, routed, faults>>

\* Mutants: only lastHeartbeatAt is set; the filter is { _id } alone.
RefreshedInVain(p, b) == jobs
RefreshedAny(p, b) == [jobs EXCEPT ![b.job].lockAge = b.age]

\* updateOne({ _id, status: PROCESSING, lockOwner: workerId }, lockedAt).
Refreshed(p, b) ==
  IF jobs[b.job].status = "processing" /\ jobs[b.job].lockOwner = p
  THEN [jobs EXCEPT ![b.job].lockAge = b.age]
  ELSE jobs

\* Whatever became of the loop, the job and the process in the meantime.  An
\* error is ignored, and a crash may take the message with it.
HeartbeatArrives(w) ==
  /\ sent[w] # None
  /\ sent' = [sent EXCEPT ![w] = None]
  /\ \/ Answered /\ jobs' = Refreshed(w[1], sent[w])
     \/ Answered /\ proc[w[1]] = "crashed" /\ UNCHANGED jobs
     \/ Fails /\ UNCHANGED jobs
  /\ UNCHANGED <<dlq, proc, routed, loop>>

\* Mutants: one attempt too few, one too many.
RetryOrFailEarly(w) ==
  loop' = IF loop[w].attempts + 1 >= maxAttempts[loop[w].job]
          THEN [loop EXCEPT ![w].pc = "fail", ![w].beat = 0,
                            ![w].code = "QUEUE_PROCESSING_FAILED"]
          ELSE [loop EXCEPT ![w].pc = "retry", ![w].beat = 0]
RetryOrFailLate(w) ==
  loop' = IF loop[w].attempts > maxAttempts[loop[w].job]
          THEN [loop EXCEPT ![w].pc = "fail", ![w].beat = 0,
                            ![w].code = "QUEUE_PROCESSING_FAILED"]
          ELSE [loop EXCEPT ![w].pc = "retry", ![w].beat = 0]

\* retryOrFail up to its await: it decides by the attempts of its own copy.
\* ("QUEUE_PROCESSING_FAILED" stands for it and for any code that the error of
\* a handler carries, which is stored in its place.)
RetryOrFail(w) ==
  loop' = IF loop[w].attempts >= maxAttempts[loop[w].job]
          THEN [loop EXCEPT ![w].pc = "fail", ![w].beat = 0,
                            ![w].code = "QUEUE_PROCESSING_FAILED"]
          ELSE [loop EXCEPT ![w].pc = "retry", ![w].beat = 0]

HandlerReturns(w) ==
  /\ loop[w].pc = "run"
  /\ loop' = [loop EXCEPT ![w].pc = "succeed", ![w].beat = 0]
  /\ UNCHANGED <<jobs, dlq, proc, routed, sent, faults>>

HandlerThrows(w) ==
  /\ loop[w].pc = "run"
  /\ RetryOrFail(w)
  /\ UNCHANGED <<jobs, dlq, proc, routed, sent, faults>>

-----------------------------------------------------------------------------
(* Recording the outcome: updateOne({ _id, lockOwner: workerId }).         *)

\* Mutant: the filter is { _id } alone.
OwnedByAny(w) == Exists(loop[w].job)

Owned(w) == jobs[loop[w].job].lockOwner = w[1]

Written(w, doc) ==
  jobs' = IF Owned(w) THEN [jobs EXCEPT ![loop[w].job] = doc] ELSE jobs

Released(w) == [jobs[loop[w].job] EXCEPT !.lockOwner = None,
                                         !.lockAge = NotLocked]

\* succeed is called inside processJob's try: its failure is retried or
\* failed as the handler's would be.
Succeed(w) ==
  LET doc == [Released(w) EXCEPT !.status = "succeeded"] IN
  /\ loop[w].pc = "succeed"
  /\ \/ Answered /\ Written(w, doc) /\ TopOfLoop(w)
     \/ Fails /\ (Written(w, doc) \/ UNCHANGED jobs) /\ RetryOrFail(w)
  /\ UNCHANGED dbRest

\* Mutant: no maximum, and the exponent is attempts.
BackoffUncapped(n) == backoffBaseMs * backoffFactor ^ n

\* min(floor(base * factor^(attempts - 1)), max), for the attempts copied: at
\* least 1, as all three settings are.
Backoff(n) ==
  LET d == backoffBaseMs * backoffFactor ^ (n - 1)
  IN  IF d \in 1 .. backoffMaxMs THEN d ELSE backoffMaxMs

\* An error here reaches runLoop's catch: the job stays as it is.
Retry(w) ==
  LET doc == [Released(w) EXCEPT !.status = "queued",
                                 !.delay = Backoff(loop[w].attempts),
                                 !.error = "QUEUE_PROCESSING_FAILED"]
  IN
  /\ loop[w].pc = "retry"
  /\ \/ (Answered \/ Fails) /\ Written(w, doc)
     \/ Fails /\ UNCHANGED jobs
  /\ TopOfLoop(w)
  /\ UNCHANGED dbRest

\* Mutant: an error of the update is swallowed with those of the move.
FailUnchecked(w) ==
  LET doc == [Released(w) EXCEPT !.status = "failed", !.error = loop[w].code]
  IN
  /\ loop[w].pc = "fail"
  /\ \/ Answered /\ Written(w, doc)
     \/ Fails /\ UNCHANGED jobs
  /\ GoTo(w, "read")
  /\ UNCHANGED dbRest

Fail(w) ==
  LET doc == [Released(w) EXCEPT !.status = "failed", !.error = loop[w].code]
  IN
  /\ loop[w].pc = "fail"
  /\ \/ Answered /\ Written(w, doc) /\ GoTo(w, "read")
     \/ Fails /\ (Written(w, doc) \/ UNCHANGED jobs) /\ TopOfLoop(w)
  /\ UNCHANGED dbRest

\* fail continues whether or not its update matched a document.
ReadFailedJob(w) ==
  LET j == loop[w].job IN
  /\ loop[w].pc = "read"
  /\ \/ /\ Answered
        /\ loop' = [loop EXCEPT ![w].pc = "dlq",
                      ![w].doc = [status |-> jobs[j].status,
                                  attempts |-> jobs[j].attempts]]
     \/ Fails /\ TopOfLoop(w)
  /\ UNCHANGED <<jobs, dlq, proc, routed, sent>>

\* The unique index on the dead letter's idempotencyKey refuses a second one;
\* every error is logged and swallowed.
MoveJobToDlq(w) ==
  LET j == loop[w].job IN
  /\ loop[w].pc = "dlq"
  /\ \/ /\ Answered \/ Fails
        /\ dlq' = IF dlq[j] = None THEN [dlq EXCEPT ![j] = loop[w].doc]
                                   ELSE dlq
     \/ Fails /\ UNCHANGED dlq
  /\ TopOfLoop(w)
  /\ UNCHANGED <<jobs, proc, routed, sent>>

-----------------------------------------------------------------------------
(* The dead-letter API and its cleanup.                                    *)

\* enqueue of the same type and payload, hence of the same idempotency key: a
\* conflict (409) if a job has it.  (A payload that comes back from the
\* database unchanged is assumed.)  The dead letter is read first and its
\* retryCount raised last, each by a command of its own: nothing reads the
\* count, and a deletion in between changes neither the enqueue nor its answer.
RetryDlqJob(j) ==
  /\ dlq[j] # None
  /\ IF DuplicateKey(j) THEN UNCHANGED jobs ELSE Created(j)
  /\ UNCHANGED <<dlq, proc, routed, loop, sent, faults>>

DeleteDlqJob(j) ==
  /\ dlq[j] # None
  /\ dlq' = [dlq EXCEPT ![j] = None]
  /\ UNCHANGED <<jobs, proc, routed, loop, sent, faults>>

\* The daily cron job.  Retention is days and a tick a fraction of a lock
\* timeout, so which dead letters are old enough is left open.
CleanupOldJobs ==
  \E old \in SUBSET {j \in Jobs : dlq[j] # None} :
    /\ old # {}
    /\ dlq' = [j \in Jobs |-> IF j \in old THEN None ELSE dlq[j]]
    /\ UNCHANGED <<jobs, proc, routed, loop, sent, faults>>

-----------------------------------------------------------------------------
Older(age) == IF age = NotLocked \/ age = maxAge THEN age ELSE age + 1
Sooner(d) == IF d = 0 THEN 0 ELSE d - 1

Tick ==
  /\ jobs' = [j \in Jobs |-> [jobs[j] EXCEPT !.lockAge = Older(@),
                                             !.delay = Sooner(@)]]
  /\ loop' = [w \in Workers |->
                IF loop[w].pc = "run" /\ loop[w].beat < heartbeatMs
                THEN [loop[w] EXCEPT !.beat = @ + 1] ELSE loop[w]]
  /\ sent' = [w \in Workers |->
                IF sent[w] = None THEN None
                ELSE [sent[w] EXCEPT !.age = Older(@)]]
  /\ UNCHANGED <<dlq, proc, routed, faults>>

LoopStep(w) ==
  \/ LeaveLoop(w) \/ RequeueStuck(w) \/ ClaimNext(w) \/ Dispatch(w)
  \/ HandlerReturns(w) \/ HandlerThrows(w)
  \/ Succeed(w) \/ Retry(w) \/ Fail(w) \/ ReadFailedJob(w) \/ MoveJobToDlq(w)

ProcStep(p) ==
  Start(p) \/ RegisterHandlers(p) \/ Stop(p) \/ Exit(p) \/ Crash(p)

ClientStep(j) == Enqueue(j) \/ RetryDlqJob(j) \/ DeleteDlqJob(j)

Next ==
  \/ Tick
  \/ CleanupOldJobs
  \/ \E j \in Jobs : ClientStep(j)
  \/ \E p \in Procs : ProcStep(p)
  \/ \E w \in Workers : LoopStep(w) \/ Heartbeat(w) \/ HeartbeatArrives(w)

Spec == Init /\ [][Next]_vars

-----------------------------------------------------------------------------
(* Invariants and action properties.                                       *)

\* Every variable has its type.
TypeOK ==
  /\ jobs \in [Jobs -> JobDoc]
  /\ dlq \in [Jobs -> DeadLetter \cup {None}]
  /\ proc \in [Procs -> ProcStates]
  /\ routed \subseteq Procs
  /\ loop \in [Workers -> LoopState]
  /\ sent \in [Workers -> Beat \cup {None}]
  /\ faults \in 0 .. MaxFaults

\* lockOwner and lockedAt are set exactly while the job is processing.  The
\* updates that record an outcome filter on lockOwner alone and never look at
\* status: this is what makes that filter enough.
LockedIffProcessing ==
  \A j \in Jobs :
    /\ jobs[j].status = "processing" <=> jobs[j].lockOwner # None
    /\ jobs[j].status = "processing" <=> jobs[j].lockAge # NotLocked

\* A loop past its claim has a job, and a copy of it when it writes the dead
\* letter; the job was submitted.
LoopsInOrder ==
  \A w \in Workers :
    /\ loop[w].pc \notin {"off", "top", "claim"} => loop[w].job # None
    /\ loop[w].job # None => Exists(loop[w].job)
    /\ loop[w].pc = "dlq" => loop[w].doc # None

\* What a loop remembers of its job is no newer than the database: the job
\* was submitted, and the attempts the loop decides by were really spent.
SnapshotIsPast ==
  /\ LoopsInOrder
  /\ \A w \in Workers :
       loop[w].job # None => loop[w].attempts <= jobs[loop[w].job].attempts

\* A job fails only when its attempts are used up or some process knew no
\* handler for its type, however many stale loops race to record an outcome.
FailedIsJustified ==
  \A j \in Jobs :
    jobs[j].status = "failed" =>
      \/ jobs[j].error = "QUEUE_INVALID_TYPE"
      \/ /\ jobs[j].error = "QUEUE_PROCESSING_FAILED"
         /\ jobs[j].attempts >= maxAttempts[j]

\* A job that succeeded or failed keeps its outcome: no requeue of stuck jobs,
\* late heartbeat, slow loop or dead-letter operation ever reopens it.
OutcomeIsFinal ==
  [][\A j \in Jobs :
       jobs[j].status \in Terminal =>
         /\ jobs'[j].status = jobs[j].status
         /\ jobs'[j].attempts = jobs[j].attempts
         /\ jobs'[j].error = jobs[j].error]_vars

\* A lock is taken away only by the requeue of a stuck job or by a loop of
\* the process that holds it and that once claimed the job: a process that
\* lost its lock can no longer end the job of the one that has it now.
LockReleasedByHolder ==
  [][\A j \in Jobs :
       jobs[j].lockOwner # None /\ jobs'[j].lockOwner # jobs[j].lockOwner =>
         \/ (\E p \in Procs : Stuck(p, j)) /\ jobs'[j].status = "queued"
         \/ \E w \in Workers : /\ w[1] = jobs[j].lockOwner
                              /\ loop[w].job = j
                              /\ loop[w].pc \in {"succeed", "retry", "fail"}
    ]_vars

-----------------------------------------------------------------------------
(* The lifecycle each job goes through, as a client may observe it.        *)

Lifecycle == INSTANCE JobLifecycle WITH
  phase <- [j \in Jobs |-> jobs[j].status],
  tries <- [j \in Jobs |-> jobs[j].attempts],
  cause <- [j \in Jobs |-> IF jobs[j].status = "failed"
                            THEN jobs[j].error ELSE "none"]

\* Whatever the workers do, each job moves as JobLifecycle says: it is taken
\* only while queued, given back or ended only while processing, and given up
\* only after its attempts or for want of a handler.
ImplementsLifecycle == Lifecycle!LifecycleSpec

=============================================================================
