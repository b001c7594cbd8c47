--------------------------- MODULE JobQueueProofs ---------------------------
(***************************************************************************)
(* Theorems about JobQueue, for every set of jobs, processes and loops and *)
(* every configuration.                                                    *)
(*                                                                         *)
(* Type correctness is inductive together with LoopsInOrder.  Each step    *)
(* then changes the jobs collection in one of five ways (JobsStep), and    *)
(* the results on locks, outcomes and attempts follow from those five.     *)
(***************************************************************************)
EXTENDS JobQueue, TLAPS

\* The record an idle loop holds.
Idle == [pc |-> "top", job |-> None, attempts |-> 0, beat |-> 0,
         code |-> "none", doc |-> None]

\* A lock that was just taken, by whichever clock, is not yet too old.
LEMMA SkewInRange ==
  /\ maxAge \in Nat /\ maxAge > visibilityMs
  /\ \A p \in Procs : behind[p] \in 0 .. maxAge
  BY ClocksAssumption, TimersAssumption DEF maxAge

LEMMA OlderInRange ==
  ASSUME NEW age \in {NotLocked} \cup 0 .. maxAge
  PROVE  /\ Older(age) \in {NotLocked} \cup 0 .. maxAge
         /\ Older(age) = NotLocked <=> age = NotLocked
  BY SkewInRange DEF Older, NotLocked

LEMMA CreatedType ==
  ASSUME TypeOK, NEW j \in Jobs, Created(j)
  PROVE  jobs' \in [Jobs -> JobDoc]
  <1>1. [[[jobs[j] EXCEPT !.status = "queued"] EXCEPT !.attempts = 0]
           EXCEPT !.delay = 0] \in JobDoc
    <2>1. jobs[j] \in JobDoc
      BY DEF TypeOK
    <2>2. 0 \in 0 .. backoffMaxMs
      BY TimersAssumption
    <2> QED BY <2>1, <2>2 DEF JobDoc, JobStatus
  <1> QED BY <1>1 DEF Created, TypeOK

\* However old the clock was that a claim read.
LEMMA ClaimedType ==
  ASSUME NEW doc \in JobDoc, NEW p \in Procs, NEW age \in 0 .. claimMs
  PROVE  /\ Claimed(doc, p, age) \in JobDoc
         /\ Claimed(doc, p, age).status = "processing"
         /\ Claimed(doc, p, age).lockOwner = p
         /\ Claimed(doc, p, age).lockAge = AtMost(behind[p] + age, maxAge)
         /\ Claimed(doc, p, age).lockAge \in Nat
         /\ Claimed(doc, p, age).attempts = doc.attempts + 1
         /\ Claimed(doc, p, age).error = doc.error
  <1> DEFINE old == AtMost(behind[p] + age, maxAge)
  <1>1. old \in 0 .. maxAge /\ old \in Nat /\ doc.attempts + 1 \in Nat
    BY SkewInRange, ClocksAssumption DEF JobDoc, AtMost
  <1> HIDE DEF old
  <1>2. Claimed(doc, p, age) = [[[[doc EXCEPT !.status = "processing"]
                                      EXCEPT !.lockOwner = p]
                                      EXCEPT !.lockAge = old]
                                      EXCEPT !.attempts = doc.attempts + 1]
    BY DEF Claimed, old
  <1> QED BY <1>1, <1>2 DEF JobDoc, JobStatus, old

LEMMA WrittenType ==
  ASSUME TypeOK, NEW w \in Workers, NEW doc \in JobDoc, Written(w, doc)
  PROVE  jobs' \in [Jobs -> JobDoc]
  BY DEF TypeOK, Written

LEMMA ReleasedType ==
  ASSUME TypeOK, NEW w \in Workers, loop[w].job \in Jobs
  PROVE  Released(w) \in JobDoc
  <1>1. jobs[loop[w].job] \in JobDoc
    BY DEF TypeOK
  <1> QED BY <1>1 DEF Released, JobDoc, NotLocked

LEMMA TopOfLoopType ==
  ASSUME TypeOK, NEW w \in Workers, TopOfLoop(w)
  PROVE  loop' \in [Workers -> LoopState]
  <1>1. Idle \in LoopState
    BY TimersAssumption DEF Idle, LoopState, PCs, Codes
  <1> QED BY <1>1 DEF TypeOK, TopOfLoop, Idle

LEMMA RetryOrFailType ==
  ASSUME TypeOK, NEW w \in Workers, RetryOrFail(w)
  PROVE  loop' \in [Workers -> LoopState]
  <1>1. loop[w] \in LoopState
    BY DEF TypeOK
  <1>2. /\ [loop[w] EXCEPT !.pc = "fail", !.beat = 0,
                           !.code = "QUEUE_PROCESSING_FAILED"] \in LoopState
        /\ [loop[w] EXCEPT !.pc = "retry", !.beat = 0] \in LoopState
    <2>1. 0 \in 0 .. heartbeatMs
      BY TimersAssumption
    <2> QED BY <1>1, <2>1 DEF LoopState, PCs, Codes
  <1>3. \/ loop' = [loop EXCEPT ![w] = [loop[w] EXCEPT !.pc = "fail", !.beat = 0,
                           !.code = "QUEUE_PROCESSING_FAILED"]]
        \/ loop' = [loop EXCEPT ![w] = [loop[w] EXCEPT !.pc = "retry", !.beat = 0]]
    BY DEF RetryOrFail, TypeOK
  <1> QED BY <1>2, <1>3 DEF TypeOK

LEMMA GoToType ==
  ASSUME TypeOK, NEW w \in Workers, NEW pc \in PCs, GoTo(w, pc)
  PROVE  loop' \in [Workers -> LoopState]
  BY DEF TypeOK, GoTo, LoopState

LEMMA FaultsType ==
  ASSUME TypeOK, Answered \/ Fails
  PROVE  faults' \in 0 .. MaxFaults
  BY BoundsAssumption DEF TypeOK, Answered, Fails

LEMMA BackoffType == \A n : Backoff(n) \in 0 .. backoffMaxMs /\ Backoff(n) > 0
  BY TimersAssumption DEF Backoff

LEMMA TickType == ASSUME TypeOK, Tick PROVE TypeOK'
  <1>1. jobs' \in [Jobs -> JobDoc]
    <2>1. ASSUME NEW j \in Jobs
          PROVE  [jobs[j] EXCEPT !.lockAge = Older(@), !.delay = Sooner(@)]
                   \in JobDoc
      <3>1. jobs[j] \in JobDoc
        BY DEF TypeOK
      <3>2. Older(jobs[j].lockAge) \in {NotLocked} \cup 0 .. maxAge
        BY <3>1, OlderInRange DEF JobDoc
      <3>3. Sooner(jobs[j].delay) \in 0 .. backoffMaxMs
        BY <3>1, TimersAssumption DEF JobDoc, Sooner
      <3> QED BY <3>1, <3>2, <3>3 DEF JobDoc
    <2> QED BY <2>1, Zenon DEF Tick
  <1>2. loop' \in [Workers -> LoopState]
    <2>1. ASSUME NEW w \in Workers, loop[w].beat < heartbeatMs
          PROVE  [loop[w] EXCEPT !.beat = @ + 1] \in LoopState
      <3>1. loop[w] \in LoopState
        BY DEF TypeOK
      <3>2. loop[w].beat + 1 \in 0 .. heartbeatMs
        BY <3>1, <2>1, TimersAssumption DEF LoopState
      <3> QED BY <3>1, <3>2 DEF LoopState
    <2> QED BY <2>1 DEF Tick, TypeOK
  <1>3. sent' \in [Workers -> Beat \cup {None}]
    <2>1. ASSUME NEW w \in Workers, sent[w] # None
          PROVE  [sent[w] EXCEPT !.age = Older(@)] \in Beat
      <3>1. sent[w] \in Beat
        BY <2>1 DEF TypeOK
      <3>2. Older(sent[w].age) \in 0 .. maxAge
        BY <3>1, OlderInRange DEF Beat, NotLocked
      <3> QED BY <3>1, <3>2 DEF Beat
    <2> QED BY <2>1 DEF Tick
  <1> QED BY <1>1, <1>2, <1>3 DEF Tick, TypeOK

LEMMA ClientStepType ==
  ASSUME TypeOK, NEW j \in Jobs, ClientStep(j) PROVE TypeOK'
  <1>1. CASE Enqueue(j)
    BY <1>1, CreatedType DEF Enqueue, TypeOK
  <1>2. CASE RetryDlqJob(j)
    BY <1>2, CreatedType DEF RetryDlqJob, TypeOK
  <1>3. CASE DeleteDlqJob(j)
    BY <1>3 DEF DeleteDlqJob, TypeOK
  <1> QED BY <1>1, <1>2, <1>3 DEF ClientStep

LEMMA ProcStepType ==
  ASSUME TypeOK, NEW p \in Procs, ProcStep(p) PROVE TypeOK'
  <1>1. CASE Start(p)
    <2>1. ASSUME NEW w \in Workers
          PROVE  [loop[w] EXCEPT !.pc = "top"] \in LoopState
      BY DEF TypeOK, LoopState, PCs
    <2>2. loop' \in [Workers -> LoopState]
      BY <1>1, <2>1 DEF Start, TypeOK
    <2> QED BY <1>1, <2>2 DEF Start, TypeOK, ProcStates
  <1>2. CASE RegisterHandlers(p)
    BY <1>2 DEF RegisterHandlers, TypeOK
  <1>3. CASE Stop(p)
    BY <1>3 DEF Stop, TypeOK, ProcStates
  <1>4. CASE Exit(p)
    BY <1>4 DEF Exit, TypeOK, ProcStates
  <1>5. CASE Crash(p)
    <2>1. [pc |-> "off", job |-> None, attempts |-> 0, beat |-> 0,
           code |-> "none", doc |-> None] \in LoopState
      BY TimersAssumption DEF LoopState, PCs, Codes
    <2>2. loop' \in [Workers -> LoopState]
      BY <1>5, <2>1 DEF Crash, TypeOK
    <2> QED BY <1>5, <2>2 DEF Crash, TypeOK, ProcStates
  <1> QED BY <1>1, <1>2, <1>3, <1>4, <1>5 DEF ProcStep

LEMMA CleanupType == ASSUME TypeOK, CleanupOldJobs PROVE TypeOK'
  BY DEF CleanupOldJobs, TypeOK

LEMMA HeldJob ==
  ASSUME TypeOK, LoopsInOrder, NEW w \in Workers,
         loop[w].pc \notin {"off", "top", "claim"}
  PROVE  loop[w].job \in Jobs /\ Exists(loop[w].job)
  BY DEF TypeOK, LoopsInOrder, LoopState

LEMMA HeartbeatType ==
  ASSUME TypeOK, LoopsInOrder, NEW w \in Workers, Heartbeat(w)
  PROVE  TypeOK'
  <1>1. loop' \in [Workers -> LoopState]
    BY TimersAssumption DEF Heartbeat, TypeOK, LoopState
  <1>2. [job |-> loop[w].job, age |-> behind[w[1]]] \in Beat
    BY HeldJob, SkewInRange DEF Heartbeat, Beat, Workers
  <1>3. sent' \in [Workers -> Beat \cup {None}]
    BY <1>2 DEF Heartbeat, TypeOK
  <1> QED BY <1>1, <1>3 DEF Heartbeat, TypeOK

LEMMA ArrivalType ==
  ASSUME TypeOK, NEW w \in Workers, HeartbeatArrives(w) PROVE TypeOK'
  <1>1. sent[w] \in Beat
    BY DEF HeartbeatArrives, TypeOK
  <1>2. Refreshed(w[1], sent[w]) \in [Jobs -> JobDoc]
    BY <1>1 DEF Refreshed, Beat, TypeOK, JobDoc
  <1>3. sent' \in [Workers -> Beat \cup {None}]
    BY DEF HeartbeatArrives, TypeOK
  <1> QED BY <1>2, <1>3, FaultsType DEF HeartbeatArrives, TypeOK

LEMMA LoopStepType ==
  ASSUME TypeOK, LoopsInOrder, NEW w \in Workers, LoopStep(w) PROVE TypeOK'
  <1>1. CASE LeaveLoop(w)
    BY <1>1, GoToType DEF LeaveLoop, TypeOK, PCs
  <1>2. CASE RequeueStuck(w)
    <2>1. ASSUME NEW j \in Jobs PROVE Unstuck(jobs[j]) \in JobDoc
      BY DEF TypeOK, JobDoc, NotLocked, Unstuck, JobStatus
    <2>2. jobs' \in [Jobs -> JobDoc]
      BY <1>2, <2>1 DEF RequeueStuck, TypeOK
    <2> QED BY <1>2, <2>2, GoToType, FaultsType
            DEF RequeueStuck, dbRest, TypeOK, PCs
  <1>3. CASE ClaimNext(w)
    <2>1. ASSUME NEW j \in Claimable, NEW age \in 0 .. claimMs
          PROVE  Claimed(jobs[j], w[1], age) \in JobDoc
      BY ClaimedType DEF TypeOK, Claimable, Workers
    <2>2. ASSUME NEW j \in Claimable
          PROVE  [loop EXCEPT ![w].pc = "got", ![w].job = j,
                              ![w].attempts = jobs[j].attempts + 1]
                   \in [Workers -> LoopState]
      <3>1. j \in Jobs /\ jobs[j].attempts + 1 \in Nat
        BY DEF TypeOK, Claimable, JobDoc
      <3>2. loop[w] \in LoopState
        BY DEF TypeOK
      <3>3. [[[loop[w] EXCEPT !.pc = "got"] EXCEPT !.job = j]
                EXCEPT !.attempts = jobs[j].attempts + 1] \in LoopState
        BY <3>1, <3>2 DEF LoopState, PCs
      <3> QED BY <3>3 DEF TypeOK
    <2>3. jobs' \in [Jobs -> JobDoc]
      <3>1. CASE jobs' = jobs
        BY <3>1 DEF TypeOK
      <3>2. ASSUME NEW j \in Claimable, NEW age \in 0 .. claimMs,
                   jobs' = [jobs EXCEPT ![j] = Claimed(jobs[j], w[1], age)]
            PROVE  jobs' \in [Jobs -> JobDoc]
        BY <2>1, <3>2 DEF TypeOK
      <3> QED BY <1>3, <3>1, <3>2 DEF ClaimNext
    <2>4. loop' \in [Workers -> LoopState]
      BY <1>3, <2>2, TopOfLoopType DEF ClaimNext
    <2>5. faults' \in 0 .. MaxFaults
      BY <1>3, FaultsType DEF ClaimNext, TypeOK
    <2> QED BY <1>3, <2>3, <2>4, <2>5 DEF ClaimNext, dbRest, TypeOK
  <1>4. CASE Dispatch(w)
    <2>1. loop' \in [Workers -> LoopState]
      <3>1. loop[w] \in LoopState /\ 0 \in 0 .. heartbeatMs
        BY TimersAssumption DEF TypeOK
      <3>2. /\ [[loop[w] EXCEPT !.pc = "run"] EXCEPT !.beat = 0] \in LoopState
            /\ [[loop[w] EXCEPT !.pc = "fail"]
                  EXCEPT !.code = "QUEUE_INVALID_TYPE"] \in LoopState
        BY <3>1 DEF LoopState, PCs, Codes
      <3> QED BY <1>4, <3>2 DEF Dispatch, TypeOK
    <2> QED BY <1>4, <2>1 DEF Dispatch, TypeOK
  <1>5. CASE HandlerReturns(w)
    <2>1. loop' \in [Workers -> LoopState]
      <3>1. loop[w] \in LoopState /\ 0 \in 0 .. heartbeatMs
        BY TimersAssumption DEF TypeOK
      <3>2. [[loop[w] EXCEPT !.pc = "succeed"] EXCEPT !.beat = 0] \in LoopState
        BY <3>1 DEF LoopState, PCs
      <3> QED BY <1>5, <3>2 DEF HandlerReturns, TypeOK
    <2> QED BY <1>5, <2>1 DEF HandlerReturns, TypeOK
  <1>6. CASE HandlerThrows(w)
    BY <1>6, RetryOrFailType DEF HandlerThrows, TypeOK
  <1>7. CASE Succeed(w)
    <2>1. [Released(w) EXCEPT !.status = "succeeded"] \in JobDoc
      BY <1>7, HeldJob, ReleasedType DEF Succeed, JobDoc, JobStatus
    <2>2. jobs' \in [Jobs -> JobDoc]
      BY <1>7, <2>1, WrittenType DEF Succeed, TypeOK
    <2> QED BY <1>7, <2>2, TopOfLoopType, RetryOrFailType, FaultsType
            DEF Succeed, dbRest, TypeOK
  <1>8. CASE Retry(w)
    <2>1. ASSUME NEW d \in 0 .. backoffMaxMs
          PROVE  [Released(w) EXCEPT !.status = "queued", !.delay = d,
                    !.error = "QUEUE_PROCESSING_FAILED"] \in JobDoc
      BY <1>8, HeldJob, ReleasedType DEF Retry, JobDoc, JobStatus, Codes
    <2>2. jobs' \in [Jobs -> JobDoc]
      BY <1>8, <2>1, BackoffType, WrittenType DEF Retry, TypeOK
    <2> QED BY <1>8, <2>2, TopOfLoopType, FaultsType DEF Retry, dbRest, TypeOK
  <1>9. CASE Fail(w)
    <2>1. [Released(w) EXCEPT !.status = "failed", !.error = loop[w].code]
            \in JobDoc
      <3>1. loop[w].code \in Codes
        BY DEF TypeOK, LoopState
      <3> QED BY <1>9, <3>1, HeldJob, ReleasedType DEF Fail, JobDoc, JobStatus
    <2>2. jobs' \in [Jobs -> JobDoc]
      BY <1>9, <2>1, WrittenType DEF Fail, TypeOK
    <2> QED BY <1>9, <2>2, TopOfLoopType, GoToType, FaultsType
            DEF Fail, dbRest, TypeOK, PCs
  <1>10. CASE ReadFailedJob(w)
    <2>1. [status |-> jobs[loop[w].job].status,
           attempts |-> jobs[loop[w].job].attempts] \in DeadLetter
      BY <1>10, HeldJob DEF ReadFailedJob, DeadLetter, TypeOK, JobDoc, Exists
    <2>2. loop' \in [Workers -> LoopState]
      BY <1>10, <2>1, TopOfLoopType DEF ReadFailedJob, TypeOK, LoopState, PCs
    <2> QED BY <1>10, <2>2, FaultsType DEF ReadFailedJob, TypeOK
  <1>11. CASE MoveJobToDlq(w)
    <2>1. loop[w].doc \in DeadLetter
      BY <1>11 DEF MoveJobToDlq, LoopsInOrder, TypeOK, LoopState
    <2>2. dlq' \in [Jobs -> DeadLetter \cup {None}]
      BY <1>11, <2>1 DEF MoveJobToDlq, TypeOK
    <2> QED BY <1>11, <2>2, TopOfLoopType, FaultsType
            DEF MoveJobToDlq, TypeOK
  <1> QED BY <1>1, <1>2, <1>3, <1>4, <1>5, <1>6, <1>7, <1>8, <1>9, <1>10,
             <1>11 DEF LoopStep

-----------------------------------------------------------------------------
(* The ways a step moves the jobs.                                         *)

Inv == TypeOK /\ LoopsInOrder /\ LockedIffProcessing

\* Nothing of the job changes but how old its lock is and when it is due.
Kept(j) ==
  /\ jobs'[j].status = jobs[j].status
  /\ jobs'[j].lockOwner = jobs[j].lockOwner
  /\ jobs'[j].lockAge = NotLocked <=> jobs[j].lockAge = NotLocked
  /\ jobs'[j].attempts = jobs[j].attempts
  /\ jobs'[j].error = jobs[j].error

Unlocked(j) ==
  jobs'[j].lockOwner = None /\ jobs'[j].lockAge = NotLocked

Requeued(j) ==
  /\ \E p \in Procs : Stuck(p, j)
  /\ jobs'[j].status = "queued" /\ Unlocked(j)
  /\ jobs'[j].attempts = jobs[j].attempts
  /\ jobs'[j].error = jobs[j].error

Submitted(j) ==
  /\ ~Exists(j)
  /\ jobs'[j].status = "queued"
  /\ jobs'[j].attempts = 0
  /\ jobs'[j].lockOwner = jobs[j].lockOwner
  /\ jobs'[j].lockAge = jobs[j].lockAge

Taken(j) ==
  /\ jobs[j].status = "queued"
  /\ jobs'[j].status = "processing"
  /\ jobs'[j].lockOwner \in Procs
  /\ jobs'[j].lockAge # NotLocked
  /\ jobs'[j].attempts = jobs[j].attempts + 1
  /\ jobs'[j].error = jobs[j].error

\* Loop w, of the process that owns the job, records the outcome it came to.
Recorded(w, j) ==
  /\ loop[w].job = j /\ Owned(w)
  /\ Unlocked(j)
  /\ jobs'[j].attempts = jobs[j].attempts
  /\ \/ loop[w].pc = "succeed" /\ jobs'[j].status = "succeeded"
     \/ loop[w].pc = "retry" /\ jobs'[j].status = "queued"
     \/ /\ loop[w].pc = "fail" /\ jobs'[j].status = "failed"
        /\ jobs'[j].error = loop[w].code

OthersKept(j) == \A i \in Jobs \ {j} : Kept(i)

JobsStep ==
  \/ \A j \in Jobs : Kept(j) \/ Requeued(j)
  \/ \E j \in Jobs :
       /\ OthersKept(j)
       /\ Submitted(j) \/ Taken(j) \/ \E w \in Workers : Recorded(w, j)

LEMMA SameJobs == ASSUME jobs' = jobs PROVE JobsStep
  BY DEF JobsStep, Kept

LEMMA TickJobs == ASSUME TypeOK, Tick PROVE JobsStep
  <1>1. ASSUME NEW j \in Jobs PROVE Kept(j)
    <2>1. jobs[j] \in JobDoc
      BY DEF TypeOK
    <2>2. jobs'[j] = [[jobs[j] EXCEPT !.lockAge = Older(jobs[j].lockAge)]
                        EXCEPT !.delay = Sooner(jobs[j].delay)]
      BY DEF Tick
    <2>3. Older(jobs[j].lockAge) = NotLocked <=> jobs[j].lockAge = NotLocked
      BY <2>1, OlderInRange DEF JobDoc
    <2> QED BY <2>1, <2>2, <2>3 DEF Kept, JobDoc
  <1> QED BY <1>1 DEF JobsStep

LEMMA CreatedJobs ==
  ASSUME TypeOK, NEW j \in Jobs, ~Exists(j), Created(j)
  PROVE  JobsStep
  <1>1. jobs'[j] = [[[jobs[j] EXCEPT !.status = "queued"] EXCEPT !.attempts = 0]
                      EXCEPT !.delay = 0]
    BY DEF Created, TypeOK
  <1>2. jobs[j] \in JobDoc /\ \A i \in Jobs \ {j} : jobs'[i] = jobs[i]
    BY DEF Created, TypeOK
  <1>3. Submitted(j)
    BY <1>1, <1>2 DEF Submitted, JobDoc
  <1> QED BY <1>2, <1>3 DEF JobsStep, OthersKept, Kept

LEMMA RequeueJobs ==
  ASSUME TypeOK, NEW w \in Workers, RequeueStuck(w)
  PROVE  JobsStep
  <1>1. CASE jobs' = jobs
    BY <1>1, SameJobs
  <1>2. CASE jobs' = [j \in Jobs |-> IF Stuck(w[1], j)
                                  THEN Unstuck(jobs[j]) ELSE jobs[j]]
    <2>1. ASSUME NEW j \in Jobs PROVE Kept(j) \/ Requeued(j)
      <3>1. CASE ~Stuck(w[1], j)
        BY <1>2, <3>1 DEF Kept
      <3>2. CASE Stuck(w[1], j)
        <4>1. jobs[j] \in JobDoc /\ jobs'[j] = Unstuck(jobs[j])
          BY <1>2, <3>2 DEF TypeOK
        <4> QED BY <3>2, <4>1 DEF Requeued, Unlocked, Unstuck, JobDoc, Workers
      <3> QED BY <3>1, <3>2
    <2> QED BY <2>1 DEF JobsStep
  <1> QED BY <1>1, <1>2 DEF RequeueStuck

LEMMA ClaimJobs ==
  ASSUME TypeOK, NEW w \in Workers, ClaimNext(w)
  PROVE  JobsStep
  <1>1. CASE jobs' = jobs
    BY <1>1, SameJobs
  <1>2. ASSUME NEW j \in Claimable, NEW age \in 0 .. claimMs,
               jobs' = [jobs EXCEPT ![j] = Claimed(jobs[j], w[1], age)]
        PROVE  JobsStep
    <2>1. /\ j \in Jobs /\ jobs[j].status = "queued" /\ w[1] \in Procs
          /\ jobs[j] \in JobDoc
          /\ jobs'[j] = Claimed(jobs[j], w[1], age)
          /\ \A i \in Jobs \ {j} : jobs'[i] = jobs[i]
      BY <1>2 DEF Claimable, TypeOK, Workers
    <2>2. Taken(j)
      BY <2>1, ClaimedType DEF Taken, NotLocked
    <2> QED BY <2>1, <2>2 DEF JobsStep, OthersKept, Kept
  <1> QED BY <1>1, <1>2 DEF ClaimNext

LEMMA ArrivalJobs ==
  ASSUME Inv, NEW w \in Workers, HeartbeatArrives(w)
  PROVE  JobsStep
  <1> DEFINE j == sent[w].job
  <1>1. CASE jobs' = jobs
    BY <1>1, SameJobs
  <1>2. CASE /\ jobs[j].status = "processing"
             /\ jobs' = [jobs EXCEPT ![j].lockAge = sent[w].age]
    <2>1. j \in Jobs /\ sent[w].age # NotLocked /\ jobs \in [Jobs -> JobDoc]
      BY DEF Inv, TypeOK, HeartbeatArrives, Beat, NotLocked
    <2>2. jobs[j].lockAge # NotLocked
      BY <1>2, <2>1 DEF Inv, LockedIffProcessing
    <2>3. jobs'[j] = [jobs[j] EXCEPT !.lockAge = sent[w].age]
      BY <1>2, <2>1
    <2>4. Kept(j)
      BY <2>1, <2>2, <2>3 DEF Kept, JobDoc
    <2>5. \A i \in Jobs \ {j} : Kept(i)
      BY <1>2, <2>1 DEF Kept
    <2> QED BY <2>4, <2>5 DEF JobsStep
  <1> QED BY <1>1, <1>2 DEF HeartbeatArrives, Refreshed

LEMMA WrittenJobs ==
  ASSUME Inv, NEW w \in Workers, NEW doc \in JobDoc,
         loop[w].job \in Jobs, Written(w, doc),
         doc.lockOwner = None, doc.lockAge = NotLocked,
         doc.attempts = jobs[loop[w].job].attempts,
         \/ loop[w].pc = "succeed" /\ doc.status = "succeeded"
         \/ loop[w].pc = "retry" /\ doc.status = "queued"
         \/ /\ loop[w].pc = "fail" /\ doc.status = "failed"
            /\ doc.error = loop[w].code
  PROVE  JobsStep
  <1>1. CASE jobs' = jobs
    BY <1>1, SameJobs
  <1>2. CASE Owned(w) /\ jobs' = [jobs EXCEPT ![loop[w].job] = doc]
    <2>1. /\ jobs'[loop[w].job] = doc
          /\ \A i \in Jobs \ {loop[w].job} : jobs'[i] = jobs[i]
      BY <1>2 DEF Inv, TypeOK
    <2>2. Recorded(w, loop[w].job)
      BY <1>2, <2>1 DEF Recorded, Unlocked
    <2> QED BY <2>1, <2>2 DEF JobsStep, OthersKept, Kept
  <1> QED BY <1>1, <1>2 DEF Written

LEMMA ReleasedFields ==
  ASSUME TypeOK, NEW w \in Workers, loop[w].job \in Jobs
  PROVE  /\ Released(w) \in JobDoc
         /\ Released(w).lockOwner = None
         /\ Released(w).lockAge = NotLocked
         /\ Released(w).attempts = jobs[loop[w].job].attempts
  BY ReleasedType DEF Released, TypeOK, JobDoc

LEMMA OutcomeJobs ==
  ASSUME Inv, NEW w \in Workers, Succeed(w) \/ Retry(w) \/ Fail(w)
  PROVE  JobsStep
  <1>1. /\ loop[w].job \in Jobs /\ Released(w) \in JobDoc
        /\ Released(w).lockOwner = None /\ Released(w).lockAge = NotLocked
        /\ Released(w).attempts = jobs[loop[w].job].attempts
    BY HeldJob, ReleasedFields DEF Inv, Succeed, Retry, Fail
  <1>2. CASE jobs' = jobs
    BY <1>2, SameJobs
  <1>3. CASE Succeed(w) /\ jobs' # jobs
    <2> DEFINE doc == [Released(w) EXCEPT !.status = "succeeded"]
    <2>1. Written(w, doc) /\ loop[w].pc = "succeed"
      BY <1>3 DEF Succeed
    <2>2. /\ doc \in JobDoc /\ doc.status = "succeeded"
          /\ doc.lockOwner = None /\ doc.lockAge = NotLocked
          /\ doc.attempts = jobs[loop[w].job].attempts
      BY <1>1 DEF JobDoc, JobStatus
    <2> HIDE DEF doc
    <2> QED BY <1>1, <2>1, <2>2, WrittenJobs
  <1>4. CASE Retry(w) /\ jobs' # jobs
    <2> DEFINE d == Backoff(loop[w].attempts)
               doc == [Released(w) EXCEPT !.status = "queued", !.delay = d,
                                          !.error = "QUEUE_PROCESSING_FAILED"]
    <2>1. Written(w, doc) /\ loop[w].pc = "retry"
      BY <1>4 DEF Retry
    <2>2. d \in 0 .. backoffMaxMs
      BY BackoffType
    <2>3. /\ doc \in JobDoc /\ doc.status = "queued"
          /\ doc.lockOwner = None /\ doc.lockAge = NotLocked
          /\ doc.attempts = jobs[loop[w].job].attempts
      <3> HIDE DEF d
      <3> QED BY <1>1, <2>2 DEF JobDoc, JobStatus, Codes
    <2> HIDE DEF doc
    <2> QED BY <1>1, <2>1, <2>3, WrittenJobs
  <1>5. CASE Fail(w) /\ jobs' # jobs
    <2> DEFINE doc == [Released(w) EXCEPT !.status = "failed",
                                          !.error = loop[w].code]
    <2>1. Written(w, doc) /\ loop[w].pc = "fail"
      BY <1>5 DEF Fail
    <2>2. loop[w].code \in Codes
      BY DEF Inv, TypeOK, LoopState
    <2>3. /\ doc \in JobDoc /\ doc.status = "failed"
          /\ doc.error = loop[w].code
          /\ doc.lockOwner = None /\ doc.lockAge = NotLocked
          /\ doc.attempts = jobs[loop[w].job].attempts
      BY <1>1, <2>2 DEF JobDoc, JobStatus
    <2> HIDE DEF doc
    <2> QED BY <1>1, <2>1, <2>3, WrittenJobs
  <1> QED BY <1>2, <1>3, <1>4, <1>5

LEMMA NextJobs == ASSUME Inv, [Next]_vars PROVE JobsStep
  <1>1. CASE UNCHANGED vars
    BY <1>1, SameJobs DEF vars
  <1>2. CASE Tick
    BY <1>2, TickJobs DEF Inv
  <1>3. CASE CleanupOldJobs
    BY <1>3, SameJobs DEF CleanupOldJobs
  <1>4. ASSUME NEW j \in Jobs, ClientStep(j) PROVE JobsStep
    BY <1>4, CreatedJobs, SameJobs
       DEF Inv, ClientStep, Enqueue, RetryDlqJob, DeleteDlqJob, DuplicateKey
  <1>5. ASSUME NEW p \in Procs, ProcStep(p) PROVE JobsStep
    BY <1>5, SameJobs
       DEF ProcStep, Start, RegisterHandlers, Stop, Exit, Crash
  <1>6. ASSUME NEW w \in Workers, LoopStep(w) PROVE JobsStep
    <2>1. CASE Succeed(w) \/ Retry(w) \/ Fail(w)
      BY <2>1, OutcomeJobs
    <2>2. CASE RequeueStuck(w)
      BY <2>2, RequeueJobs DEF Inv
    <2>3. CASE ClaimNext(w)
      BY <2>3, ClaimJobs DEF Inv
    <2>4. CASE \/ LeaveLoop(w) \/ Dispatch(w) \/ HandlerReturns(w)
               \/ HandlerThrows(w) \/ ReadFailedJob(w) \/ MoveJobToDlq(w)
      BY <2>4, SameJobs DEF LeaveLoop, Dispatch, HandlerReturns,
           HandlerThrows, ReadFailedJob, MoveJobToDlq
    <2> QED BY <1>6, <2>1, <2>2, <2>3, <2>4 DEF LoopStep
  <1>7. ASSUME NEW w \in Workers, Heartbeat(w) PROVE JobsStep
    BY <1>7, SameJobs DEF Heartbeat
  <1>8. ASSUME NEW w \in Workers, HeartbeatArrives(w) PROVE JobsStep
    BY <1>8, ArrivalJobs
  <1> QED BY <1>1, <1>2, <1>3, <1>4, <1>5, <1>6, <1>7, <1>8 DEF Next

-----------------------------------------------------------------------------
(* The ways a step moves the loops.                                        *)

IdlePCs == {"off", "top", "claim"}

SameJob(w) ==
  loop'[w].job = loop[w].job /\ loop'[w].attempts = loop[w].attempts

LoopStays(w) ==
  /\ SameJob(w)
  /\ loop'[w].pc = loop[w].pc
  /\ loop'[w].code = loop[w].code
  /\ loop'[w].doc = loop[w].doc

GoesIdle(w) ==
  loop'[w].pc \in IdlePCs /\ (SameJob(w) \/ loop'[w].job = None)

TakesJob(w) ==
  /\ loop'[w].pc = "got"
  /\ loop'[w].job \in Jobs
  /\ jobs'[loop'[w].job].status = "processing"
  /\ jobs'[loop'[w].job].attempts = loop'[w].attempts

\* The reasons there are to go to fail.
Decided(w) ==
  \/ loop[w].code = "QUEUE_INVALID_TYPE"
  \/ /\ loop[w].code = "QUEUE_PROCESSING_FAILED"
     /\ loop[w].attempts >= maxAttempts[loop[w].job]

GoesOn(w) ==
  /\ loop[w].pc \notin IdlePCs
  /\ SameJob(w)
  /\ \/ loop'[w].pc \in {"run", "succeed", "retry", "read"}
     \/ loop'[w].pc = "fail" /\ Decided(w)'
     \/ loop'[w].pc = "dlq" /\ loop'[w].doc # None

LoopMove(w) == LoopStays(w) \/ GoesIdle(w) \/ TakesJob(w) \/ GoesOn(w)

LEMMA LoopsUnchanged == ASSUME loop' = loop PROVE \A v \in Workers : LoopMove(v)
  BY DEF LoopMove, LoopStays, SameJob

LEMMA OneLoop ==
  ASSUME TypeOK, NEW w \in Workers, NEW l, loop' = [loop EXCEPT ![w] = l],
         LoopMove(w)
  PROVE  \A v \in Workers : LoopMove(v)
  BY DEF TypeOK, LoopMove, LoopStays, SameJob

LEMMA TopLoops ==
  ASSUME TypeOK, NEW w \in Workers, TopOfLoop(w)
  PROVE  \A v \in Workers : LoopMove(v)
  <1>1. loop' = [loop EXCEPT ![w] = Idle] /\ loop'[w] = Idle
    BY DEF TopOfLoop, Idle, TypeOK
  <1>2. LoopMove(w)
    BY <1>1 DEF LoopMove, GoesIdle, IdlePCs, Idle
  <1> QED BY <1>1, <1>2, OneLoop

LEMMA GoToLoops ==
  ASSUME TypeOK, NEW w \in Workers, NEW pc, GoTo(w, pc),
         pc \in IdlePCs \/ (pc = "read" /\ loop[w].pc \notin IdlePCs)
  PROVE  \A v \in Workers : LoopMove(v)
  <1> DEFINE l == [loop[w] EXCEPT !.pc = pc]
  <1>1. loop' = [loop EXCEPT ![w] = l] /\ loop'[w] = l
    BY DEF GoTo, TypeOK
  <1>2. l.pc = pc /\ l.job = loop[w].job /\ l.attempts = loop[w].attempts
    BY DEF TypeOK, LoopState
  <1> HIDE DEF l
  <1>3. LoopMove(w)
    BY <1>1, <1>2 DEF LoopMove, GoesIdle, GoesOn, SameJob
  <1> QED BY <1>1, <1>3, OneLoop

LEMMA RetryOrFailLoops ==
  ASSUME TypeOK, NEW w \in Workers, RetryOrFail(w), loop[w].pc \notin IdlePCs
  PROVE  \A v \in Workers : LoopMove(v)
  <1>1. loop[w] \in LoopState
    BY DEF TypeOK
  <1>2. CASE /\ loop[w].attempts >= maxAttempts[loop[w].job]
             /\ loop' = [loop EXCEPT ![w] = [loop[w] EXCEPT !.pc = "fail",
                           !.beat = 0, !.code = "QUEUE_PROCESSING_FAILED"]]
    <2> DEFINE l == [loop[w] EXCEPT !.pc = "fail", !.beat = 0,
                                    !.code = "QUEUE_PROCESSING_FAILED"]
    <2>1. loop' = [loop EXCEPT ![w] = l] /\ loop'[w] = l
      BY <1>2 DEF TypeOK
    <2>2. /\ l.pc = "fail" /\ l.code = "QUEUE_PROCESSING_FAILED"
          /\ l.job = loop[w].job /\ l.attempts = loop[w].attempts
      BY <1>1 DEF LoopState
    <2> HIDE DEF l
    <2>3. LoopMove(w)
      BY <1>2, <2>1, <2>2 DEF LoopMove, GoesOn, SameJob, Decided
    <2> QED BY <2>1, <2>3, OneLoop
  <1>3. CASE loop' = [loop EXCEPT ![w] = [loop[w] EXCEPT !.pc = "retry",
                                                         !.beat = 0]]
    <2> DEFINE l == [loop[w] EXCEPT !.pc = "retry", !.beat = 0]
    <2>1. loop' = [loop EXCEPT ![w] = l] /\ loop'[w] = l
      BY <1>3 DEF TypeOK
    <2>2. /\ l.pc = "retry"
          /\ l.job = loop[w].job /\ l.attempts = loop[w].attempts
      BY <1>1 DEF LoopState
    <2> HIDE DEF l
    <2>3. LoopMove(w)
      BY <2>1, <2>2 DEF LoopMove, GoesOn, SameJob
    <2> QED BY <2>1, <2>3, OneLoop
  <1> QED BY <1>2, <1>3 DEF RetryOrFail, TypeOK

LEMMA ClaimLoops ==
  ASSUME TypeOK, NEW w \in Workers, NEW j \in Claimable,
         NEW age \in 0 .. claimMs,
         jobs' = [jobs EXCEPT ![j] = Claimed(jobs[j], w[1], age)],
         loop' = [loop EXCEPT ![w].pc = "got", ![w].job = j,
                              ![w].attempts = jobs[j].attempts + 1]
  PROVE  \A v \in Workers : LoopMove(v)
  <1> DEFINE l == [[[loop[w] EXCEPT !.pc = "got"] EXCEPT !.job = j]
                     EXCEPT !.attempts = jobs[j].attempts + 1]
  <1>1. loop' = [loop EXCEPT ![w] = l] /\ loop'[w] = l
    BY DEF TypeOK
  <1>2. l.pc = "got" /\ l.job = j /\ l.attempts = jobs[j].attempts + 1
    BY DEF TypeOK, LoopState
  <1>3. /\ j \in Jobs /\ jobs'[j] = Claimed(jobs[j], w[1], age)
        /\ jobs[j] \in JobDoc /\ w[1] \in Procs
    BY DEF TypeOK, Claimable, Workers
  <1> HIDE DEF l
  <1>4. /\ jobs'[j].status = "processing"
        /\ jobs'[j].attempts = jobs[j].attempts + 1
    BY <1>3, ClaimedType
  <1>5. LoopMove(w)
    BY <1>1, <1>2, <1>3, <1>4 DEF LoopMove, TakesJob
  <1> QED BY <1>1, <1>5, OneLoop

LEMMA StepLoops ==
  ASSUME Inv, NEW w \in Workers, LoopStep(w)
  PROVE  \A v \in Workers : LoopMove(v)
  <1> USE DEF Inv
  <1>1. CASE LeaveLoop(w)
    BY <1>1, GoToLoops DEF LeaveLoop, IdlePCs
  <1>2. CASE RequeueStuck(w)
    BY <1>2, GoToLoops DEF RequeueStuck, IdlePCs
  <1>3. CASE ClaimNext(w)
    BY <1>3, TopLoops, ClaimLoops DEF ClaimNext
  <1>4. CASE Dispatch(w)
    <2>1. loop[w] \in LoopState
      BY DEF TypeOK
    <2>2. CASE loop' = [loop EXCEPT ![w].pc = "run", ![w].beat = 0]
      <3> DEFINE l == [[loop[w] EXCEPT !.pc = "run"] EXCEPT !.beat = 0]
      <3>1. loop' = [loop EXCEPT ![w] = l] /\ loop'[w] = l
        BY <2>2 DEF TypeOK
      <3>2. /\ l.pc = "run"
            /\ l.job = loop[w].job /\ l.attempts = loop[w].attempts
        BY <2>1 DEF LoopState
      <3> HIDE DEF l
      <3>3. LoopMove(w)
        BY <1>4, <3>1, <3>2 DEF LoopMove, GoesOn, SameJob, Dispatch, IdlePCs
      <3> QED BY <3>1, <3>3, OneLoop
    <2>3. CASE loop' = [loop EXCEPT ![w].pc = "fail",
                                    ![w].code = "QUEUE_INVALID_TYPE"]
      <3> DEFINE l == [[loop[w] EXCEPT !.pc = "fail"]
                         EXCEPT !.code = "QUEUE_INVALID_TYPE"]
      <3>1. loop' = [loop EXCEPT ![w] = l] /\ loop'[w] = l
        BY <2>3 DEF TypeOK
      <3>2. /\ l.pc = "fail" /\ l.code = "QUEUE_INVALID_TYPE"
            /\ l.job = loop[w].job /\ l.attempts = loop[w].attempts
        BY <2>1 DEF LoopState
      <3> HIDE DEF l
      <3>3. LoopMove(w)
        BY <1>4, <3>1, <3>2
           DEF LoopMove, GoesOn, SameJob, Dispatch, IdlePCs, Decided
      <3> QED BY <3>1, <3>3, OneLoop
    <2> QED BY <1>4, <2>2, <2>3 DEF Dispatch
  <1>5. CASE HandlerReturns(w)
    <2> DEFINE l == [[loop[w] EXCEPT !.pc = "succeed"] EXCEPT !.beat = 0]
    <2>1. loop' = [loop EXCEPT ![w] = l] /\ loop'[w] = l
      BY <1>5 DEF TypeOK, HandlerReturns
    <2>2. /\ l.pc = "succeed"
          /\ l.job = loop[w].job /\ l.attempts = loop[w].attempts
      BY DEF LoopState, TypeOK
    <2> HIDE DEF l
    <2>3. LoopMove(w)
      BY <1>5, <2>1, <2>2 DEF LoopMove, GoesOn, SameJob, HandlerReturns, IdlePCs
    <2> QED BY <2>1, <2>3, OneLoop
  <1>6. CASE HandlerThrows(w)
    BY <1>6, RetryOrFailLoops DEF HandlerThrows, IdlePCs
  <1>7. CASE Succeed(w)
    BY <1>7, TopLoops, RetryOrFailLoops DEF Succeed, IdlePCs
  <1>8. CASE Retry(w)
    BY <1>8, TopLoops DEF Retry
  <1>9. CASE Fail(w)
    BY <1>9, TopLoops, GoToLoops DEF Fail, IdlePCs
  <1>10. CASE ReadFailedJob(w)
    <2> DEFINE copy == [status |-> jobs[loop[w].job].status,
                        attempts |-> jobs[loop[w].job].attempts]
               l == [[loop[w] EXCEPT !.pc = "dlq"] EXCEPT !.doc = copy]
    <2>1. CASE TopOfLoop(w)
      BY <2>1, TopLoops
    <2>2. CASE ~TopOfLoop(w)
      <3>1. loop' = [loop EXCEPT ![w] = l] /\ loop'[w] = l
        BY <1>10, <2>2 DEF TypeOK, ReadFailedJob
      <3>2. copy \in DeadLetter
        BY <1>10, HeldJob DEF ReadFailedJob, DeadLetter, TypeOK, JobDoc, Exists
      <3>3. copy # None
        BY <3>2, DeadLetterAssumption
      <3>4. /\ l.pc = "dlq" /\ l.doc = copy
            /\ l.job = loop[w].job /\ l.attempts = loop[w].attempts
        <4> HIDE DEF copy
        <4> QED BY DEF LoopState, TypeOK
      <3> HIDE DEF l, copy
      <3>5. LoopMove(w)
        BY <1>10, <3>1, <3>3, <3>4
           DEF LoopMove, GoesOn, SameJob, ReadFailedJob, IdlePCs
      <3> QED BY <3>1, <3>5, OneLoop
    <2> QED BY <2>1, <2>2
  <1>11. CASE MoveJobToDlq(w)
    BY <1>11, TopLoops DEF MoveJobToDlq
  <1> QED BY <1>1, <1>2, <1>3, <1>4, <1>5, <1>6, <1>7, <1>8, <1>9, <1>10,
             <1>11 DEF LoopStep

LEMMA NextLoops ==
  ASSUME Inv, [Next]_vars
  PROVE  \A v \in Workers : LoopMove(v)
  <1>1. CASE UNCHANGED vars
    BY <1>1, LoopsUnchanged DEF vars
  <1>2. CASE Tick
    <2>1. ASSUME NEW v \in Workers PROVE LoopStays(v)
      <3>1. loop[v] \in LoopState
        BY DEF Inv, TypeOK
      <3>2. \/ loop'[v] = loop[v]
            \/ loop'[v] = [loop[v] EXCEPT !.beat = loop[v].beat + 1]
        BY <1>2 DEF Tick
      <3> QED BY <3>1, <3>2 DEF LoopStays, SameJob, LoopState
    <2> QED BY <2>1 DEF LoopMove
  <1>3. CASE CleanupOldJobs
    BY <1>3, LoopsUnchanged DEF CleanupOldJobs
  <1>4. ASSUME NEW j \in Jobs, ClientStep(j)
        PROVE  \A v \in Workers : LoopMove(v)
    BY <1>4, LoopsUnchanged DEF ClientStep, Enqueue, RetryDlqJob, DeleteDlqJob
  <1>5. ASSUME NEW p \in Procs, ProcStep(p)
        PROVE  \A v \in Workers : LoopMove(v)
    <2>1. CASE Start(p) \/ Crash(p)
      <3>1. ASSUME NEW v \in Workers PROVE LoopStays(v) \/ GoesIdle(v)
        <4>1. loop[v] \in LoopState
          BY DEF Inv, TypeOK
        <4>2. \/ loop'[v] = loop[v]
              \/ loop'[v] = [loop[v] EXCEPT !.pc = "top"]
              \/ loop'[v] = [pc |-> "off", job |-> None, attempts |-> 0,
                             beat |-> 0, code |-> "none", doc |-> None]
          BY <2>1 DEF Start, Crash
        <4> QED BY <4>1, <4>2
                DEF LoopStays, GoesIdle, SameJob, IdlePCs, LoopState
      <3> QED BY <3>1 DEF LoopMove
    <2>2. CASE RegisterHandlers(p) \/ Stop(p) \/ Exit(p)
      BY <2>2, LoopsUnchanged DEF RegisterHandlers, Stop, Exit
    <2> QED BY <1>5, <2>1, <2>2 DEF ProcStep
  <1>6. ASSUME NEW w \in Workers, LoopStep(w)
        PROVE  \A v \in Workers : LoopMove(v)
    BY <1>6, StepLoops
  <1>7. ASSUME NEW w \in Workers, Heartbeat(w)
        PROVE  \A v \in Workers : LoopMove(v)
    <2>1. loop' = [loop EXCEPT ![w] = [loop[w] EXCEPT !.beat = 0]]
      BY <1>7 DEF Heartbeat, Inv, TypeOK
    <2>2. loop'[w] = [loop[w] EXCEPT !.beat = 0] /\ loop[w] \in LoopState
      BY <2>1 DEF Inv, TypeOK
    <2>3. LoopMove(w)
      BY <2>2 DEF LoopMove, LoopStays, SameJob, LoopState
    <2> QED BY <2>1, <2>3, OneLoop DEF Inv
  <1>8. ASSUME NEW w \in Workers, HeartbeatArrives(w)
        PROVE  \A v \in Workers : LoopMove(v)
    BY <1>8, LoopsUnchanged DEF HeartbeatArrives
  <1> QED BY <1>1, <1>2, <1>3, <1>4, <1>5, <1>6, <1>7, <1>8 DEF Next

-----------------------------------------------------------------------------
(* The theorems.                                                           *)

LEMMA ExistsForEver ==
  ASSUME Inv, JobsStep, NEW j \in Jobs, Exists(j)
  PROVE  Exists(j)' /\ jobs'[j].attempts >= jobs[j].attempts
  <1>1. jobs[j].attempts \in Nat
    BY DEF Inv, TypeOK, JobDoc
  <1>2. CASE Kept(j) \/ Requeued(j) \/ Taken(j)
             \/ \E w \in Workers : Recorded(w, j)
    BY <1>1, <1>2 DEF Exists, NoSuchJob, Kept, Requeued, Taken, Recorded
  <1> QED BY <1>2 DEF JobsStep, OthersKept, Submitted

LEMMA InitInv == Init => Inv
  <1> SUFFICES ASSUME Init PROVE Inv
    OBVIOUS
  <1>1. TypeOK
    <2>1. jobs \in [Jobs -> JobDoc]
      BY TimersAssumption DEF Init, JobDoc, Codes
    <2>2. loop \in [Workers -> LoopState]
      BY TimersAssumption DEF Init, LoopState, PCs, Codes
    <2>3. MaxFaults \in 0 .. MaxFaults
      BY BoundsAssumption
    <2> QED BY <2>1, <2>2, <2>3 DEF Init, TypeOK, ProcStates
  <1>2. LoopsInOrder
    BY DEF Init, LoopsInOrder
  <1>3. LockedIffProcessing
    BY DEF Init, LockedIffProcessing, NoSuchJob
  <1> QED BY <1>1, <1>2, <1>3 DEF Inv

LEMMA NextInv == Inv /\ [Next]_vars => Inv'
  <1> SUFFICES ASSUME Inv, [Next]_vars PROVE Inv'
    OBVIOUS
  <1>1. TypeOK'
    <2> USE DEF Inv
    <2>1. CASE UNCHANGED vars
      BY <2>1 DEF vars, TypeOK
    <2>2. CASE Tick
      BY <2>2, TickType
    <2>3. CASE CleanupOldJobs
      BY <2>3, CleanupType
    <2>4. ASSUME NEW j \in Jobs, ClientStep(j) PROVE TypeOK'
      BY <2>4, ClientStepType
    <2>5. ASSUME NEW p \in Procs, ProcStep(p) PROVE TypeOK'
      BY <2>5, ProcStepType
    <2>6. ASSUME NEW w \in Workers, LoopStep(w) PROVE TypeOK'
      BY <2>6, LoopStepType
    <2>7. ASSUME NEW w \in Workers, Heartbeat(w) PROVE TypeOK'
      BY <2>7, HeartbeatType
    <2>8. ASSUME NEW w \in Workers, HeartbeatArrives(w) PROVE TypeOK'
      BY <2>8, ArrivalType
    <2> QED BY <2>1, <2>2, <2>3, <2>4, <2>5, <2>6, <2>7, <2>8 DEF Next
  <1>2. JobsStep /\ \A v \in Workers : LoopMove(v)
    BY NextJobs, NextLoops
  <1>3. LoopsInOrder'
    <2> SUFFICES ASSUME NEW w \in Workers
                 PROVE  /\ loop'[w].pc \notin IdlePCs => loop'[w].job # None
                        /\ loop'[w].job # None =>
                             jobs'[loop'[w].job].status # NoSuchJob
                        /\ loop'[w].pc = "dlq" => loop'[w].doc # None
      BY DEF LoopsInOrder, IdlePCs, Exists
    <2>1. /\ loop[w].pc \notin IdlePCs => loop[w].job # None
          /\ loop[w].job # None => Exists(loop[w].job)
          /\ loop[w].pc = "dlq" => loop[w].doc # None
          /\ loop[w].job \in Jobs \cup {None}
      BY DEF Inv, LoopsInOrder, IdlePCs, TypeOK, LoopState
    <2>2. loop[w].job # None => jobs'[loop[w].job].status # NoSuchJob
      BY <1>2, <2>1, ExistsForEver DEF Exists
    <2>3. CASE LoopStays(w)
      BY <2>1, <2>2, <2>3 DEF LoopStays, SameJob, IdlePCs
    <2>4. CASE GoesIdle(w)
      BY <2>1, <2>2, <2>4 DEF GoesIdle, SameJob, IdlePCs
    <2>5. CASE TakesJob(w)
      BY <2>5, JobsAssumption DEF TakesJob, IdlePCs, NoSuchJob
    <2>6. CASE GoesOn(w)
      BY <2>1, <2>2, <2>6 DEF GoesOn, SameJob, IdlePCs
    <2> QED BY <1>2, <2>3, <2>4, <2>5, <2>6 DEF LoopMove
  <1>4. LockedIffProcessing'
    <2> SUFFICES ASSUME NEW j \in Jobs
          PROVE /\ jobs'[j].status = "processing" <=> jobs'[j].lockOwner # None
                /\ jobs'[j].status = "processing" <=> jobs'[j].lockAge # NotLocked
      BY DEF LockedIffProcessing
    <2>1. /\ jobs[j].status = "processing" <=> jobs[j].lockOwner # None
          /\ jobs[j].status = "processing" <=> jobs[j].lockAge # NotLocked
      BY DEF Inv, LockedIffProcessing
    <2>2. CASE Kept(j)
      BY <2>1, <2>2 DEF Kept
    <2>3. CASE Requeued(j)
      BY <2>3 DEF Requeued, Unlocked
    <2>4. CASE Submitted(j)
      BY <2>1, <2>4 DEF Submitted, Exists, NoSuchJob
    <2>5. CASE Taken(j)
      BY <2>5, ProcsAssumption DEF Taken, NotLocked
    <2>6. ASSUME NEW w \in Workers, Recorded(w, j)
          PROVE /\ jobs'[j].status = "processing" <=> jobs'[j].lockOwner # None
                /\ jobs'[j].status = "processing" <=> jobs'[j].lockAge # NotLocked
      BY <2>6 DEF Recorded, Unlocked
    <2> QED BY <1>2, <2>2, <2>3, <2>4, <2>5, <2>6 DEF JobsStep, OthersKept
  <1> QED BY <1>1, <1>3, <1>4 DEF Inv

LEMMA SpecInv == Spec => []Inv
  BY InitInv, NextInv, PTL DEF Spec

\* Every variable keeps its type, in every deployment.
THEOREM TypeCorrect == Spec => []TypeOK
  <1>1. Inv => TypeOK
    BY DEF Inv
  <1> QED BY <1>1, SpecInv, PTL

\* lockOwner and lockedAt are set exactly while a job is processing.
THEOREM LocksFollowStatus == Spec => []LockedIffProcessing
  <1>1. Inv => LockedIffProcessing
    BY DEF Inv
  <1> QED BY <1>1, SpecInv, PTL

\* A loop whose process owns a job works on a job that is processing: the
\* filter on lockOwner alone never reopens a job.
LEMMA OwnedIsProcessing ==
  ASSUME Inv, NEW w \in Workers, NEW j \in Jobs, loop[w].job = j, Owned(w)
  PROVE  jobs[j].status = "processing"
  BY ProcsAssumption DEF Inv, LockedIffProcessing, Owned, Workers

LEMMA NextFinal ==
  ASSUME Inv, [Next]_vars, NEW j \in Jobs, jobs[j].status \in Terminal
  PROVE  /\ jobs'[j].status = jobs[j].status
         /\ jobs'[j].attempts = jobs[j].attempts
         /\ jobs'[j].error = jobs[j].error
  <1>1. JobsStep
    BY NextJobs
  <1>2. ~Requeued(j) /\ ~Submitted(j) /\ ~Taken(j)
    BY DEF Requeued, Stuck, Submitted, Taken, Terminal, Exists, NoSuchJob
  <1>3. \A w \in Workers : ~Recorded(w, j)
    BY OwnedIsProcessing DEF Recorded, Terminal
  <1>4. Kept(j)
    BY <1>1, <1>2, <1>3 DEF JobsStep, OthersKept
  <1> QED BY <1>4 DEF Kept

\* No step of any actor changes the outcome of a job that has one.
THEOREM OutcomesAreFinal == Spec => OutcomeIsFinal
  <1>1. Inv /\ [Next]_vars =>
          [\A j \in Jobs :
             jobs[j].status \in Terminal =>
               /\ jobs'[j].status = jobs[j].status
               /\ jobs'[j].attempts = jobs[j].attempts
               /\ jobs'[j].error = jobs[j].error]_vars
    BY NextFinal
  <1> QED BY <1>1, SpecInv, PTL DEF Spec, OutcomeIsFinal

LEMMA NextReleases ==
  ASSUME Inv, [Next]_vars, NEW j \in Jobs,
         jobs[j].lockOwner # None, jobs'[j].lockOwner # jobs[j].lockOwner
  PROVE  \/ (\E p \in Procs : Stuck(p, j)) /\ jobs'[j].status = "queued"
         \/ \E w \in Workers : /\ w[1] = jobs[j].lockOwner
                              /\ loop[w].job = j
                              /\ loop[w].pc \in {"succeed", "retry", "fail"}
  <1>1. jobs[j].status = "processing"
    BY DEF Inv, LockedIffProcessing
  <1>2. ~Kept(j) /\ ~Submitted(j) /\ ~Taken(j)
    BY <1>1 DEF Kept, Submitted, Taken, Exists, NoSuchJob
  <1>3. Requeued(j) \/ \E w \in Workers : Recorded(w, j)
    BY <1>2, NextJobs DEF JobsStep, OthersKept
  <1> QED BY <1>3 DEF Requeued, Recorded, Owned

\* A lock is lost only to the requeue of a stuck job or to its own process.
THEOREM LocksReleasedByHolder == Spec => LockReleasedByHolder
  <1>1. Inv /\ [Next]_vars =>
          [\A j \in Jobs :
             jobs[j].lockOwner # None /\ jobs'[j].lockOwner # jobs[j].lockOwner =>
               \/ (\E p \in Procs : Stuck(p, j)) /\ jobs'[j].status = "queued"
               \/ \E w \in Workers : /\ w[1] = jobs[j].lockOwner
                                    /\ loop[w].job = j
                                    /\ loop[w].pc \in {"succeed", "retry", "fail"}
          ]_vars
    BY NextReleases
  <1> QED BY <1>1, SpecInv, PTL DEF Spec, LockReleasedByHolder

-----------------------------------------------------------------------------
(* Failures.  A loop in fail decided by attempts that were really spent,   *)
(* and a job that fails keeps them.                                        *)

FailsDecided == \A w \in Workers : loop[w].pc = "fail" => Decided(w)

FailInv == Inv /\ SnapshotIsPast /\ FailsDecided /\ FailedIsJustified

LEMMA NextSnapshot ==
  ASSUME Inv, Inv', SnapshotIsPast, [Next]_vars
  PROVE  SnapshotIsPast'
  <1>1. JobsStep /\ \A v \in Workers : LoopMove(v)
    BY NextJobs, NextLoops
  <1> SUFFICES ASSUME NEW w \in Workers, loop'[w].job # None
               PROVE  loop'[w].attempts <= jobs'[loop'[w].job].attempts
    BY DEF SnapshotIsPast, Inv
  <1>2. CASE TakesJob(w)
    <2>1. loop'[w].attempts \in Nat
      BY DEF Inv, TypeOK, LoopState
    <2> QED BY <1>2, <2>1 DEF TakesJob
  <1>3. CASE SameJob(w)
    <2> DEFINE j == loop[w].job
    <2>1. j \in Jobs /\ Exists(j) /\ loop[w].attempts <= jobs[j].attempts
      BY <1>3 DEF SameJob, SnapshotIsPast, LoopsInOrder, Inv, TypeOK, LoopState
    <2>2. jobs'[j].attempts >= jobs[j].attempts
      BY <1>1, <2>1, ExistsForEver
    <2>3. /\ loop[w].attempts \in Nat /\ jobs[j].attempts \in Nat
          /\ jobs'[j].attempts \in Nat
      BY <2>1 DEF Inv, TypeOK, LoopState, JobDoc
    <2> QED BY <1>3, <2>1, <2>2, <2>3 DEF SameJob
  <1> QED BY <1>1, <1>2, <1>3 DEF LoopMove, LoopStays, GoesIdle, GoesOn

LEMMA NextDecided ==
  ASSUME Inv, FailsDecided, [Next]_vars
  PROVE  FailsDecided'
  <1> SUFFICES ASSUME NEW w \in Workers, loop'[w].pc = "fail"
               PROVE  Decided(w)'
    BY DEF FailsDecided
  <1>1. LoopMove(w)
    BY NextLoops
  <1>2. CASE LoopStays(w)
    BY <1>2 DEF LoopStays, SameJob, FailsDecided, Decided
  <1> QED BY <1>1, <1>2 DEF LoopMove, GoesIdle, IdlePCs, TakesJob, GoesOn

LEMMA NextJustified ==
  ASSUME FailInv, [Next]_vars
  PROVE  FailedIsJustified'
  <1> USE DEF FailInv
  <1> SUFFICES ASSUME NEW j \in Jobs, jobs'[j].status = "failed"
               PROVE  \/ jobs'[j].error = "QUEUE_INVALID_TYPE"
                      \/ /\ jobs'[j].error = "QUEUE_PROCESSING_FAILED"
                         /\ jobs'[j].attempts >= maxAttempts[j]
    BY DEF FailedIsJustified
  <1>1. JobsStep
    BY NextJobs
  <1>2. CASE Kept(j)
    BY <1>2 DEF Kept, FailedIsJustified
  <1>3. ~Requeued(j) /\ ~Submitted(j) /\ ~Taken(j)
    BY DEF Requeued, Submitted, Taken
  <1>4. ASSUME NEW w \in Workers, Recorded(w, j)
        PROVE  \/ jobs'[j].error = "QUEUE_INVALID_TYPE"
               \/ /\ jobs'[j].error = "QUEUE_PROCESSING_FAILED"
                  /\ jobs'[j].attempts >= maxAttempts[j]
    <2>1. /\ loop[w].pc = "fail" /\ loop[w].job = j
          /\ jobs'[j].error = loop[w].code
          /\ jobs'[j].attempts = jobs[j].attempts
      BY <1>4 DEF Recorded
    <2>2. Decided(w)
      BY <2>1 DEF FailsDecided
    <2>3. loop[w].attempts <= jobs[j].attempts
      BY <2>1, JobsAssumption DEF SnapshotIsPast
    <2>4. /\ loop[w].attempts \in Nat /\ jobs[j].attempts \in Nat
          /\ maxAttempts[j] \in Int
      BY LimitsAssumption DEF Inv, TypeOK, LoopState, JobDoc
    <2> QED BY <2>1, <2>2, <2>3, <2>4 DEF Decided
  <1> QED BY <1>1, <1>2, <1>3, <1>4 DEF JobsStep, OthersKept

LEMMA SpecFailInv == Spec => []FailInv
  <1>1. Init => FailInv
    BY InitInv DEF Init, FailInv, SnapshotIsPast, FailsDecided,
       FailedIsJustified, NoSuchJob, Inv
  <1>2. FailInv /\ [Next]_vars => FailInv'
    <2> SUFFICES ASSUME FailInv, [Next]_vars PROVE FailInv'
      OBVIOUS
    <2>1. Inv'
      BY NextInv DEF FailInv
    <2> QED BY <2>1, NextSnapshot, NextDecided, NextJustified DEF FailInv
  <1> QED BY <1>1, <1>2, PTL DEF Spec

\* No loop remembers more attempts of its job than the database has counted.
THEOREM SnapshotsArePast == Spec => []SnapshotIsPast
  <1>1. FailInv => SnapshotIsPast
    BY DEF FailInv
  <1> QED BY <1>1, SpecFailInv, PTL

\* No job fails before its attempts are used up, unless for want of a handler.
THEOREM FailuresAreJustified == Spec => []FailedIsJustified
  <1>1. FailInv => FailedIsJustified
    BY DEF FailInv
  <1> QED BY <1>1, SpecFailInv, PTL

=============================================================================
