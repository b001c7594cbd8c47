------------------------- MODULE JobQueueTimedProofs -------------------------
(***************************************************************************)
(* Theorems about the queue whose timers are honoured: for any number of   *)
(* processes and loops, any intervals that meet HeartbeatAssumption and    *)
(* any clocks within the skew, a job has one worker and its worker has the *)
(* lock.                                                                   *)
(***************************************************************************)
EXTENDS JobQueueConfigured, JobQueueProofs, FiniteSetTheorems

\* The document of the job a loop works on.
DocOf(w) == jobs[loop[w].job]

\* How old a lock can be: what counts is the last heartbeat applied, or, until
\* then, the claim.  A heartbeat on its way is as old as its timer.
Fresh(w) ==
  /\ loop[w].pc = "got" => DocOf(w).lockAge <= behind[w[1]] + transitMs
  /\ loop[w].pc = "run" =>
       \/ DocOf(w).lockAge <= behind[w[1]] + loop[w].beat + transitMs
       \/ /\ sent[w] # None
          /\ sent[w].job = loop[w].job
          /\ sent[w].age = behind[w[1]] + loop[w].beat
          /\ DocOf(w).lockAge
               <= behind[w[1]] + loop[w].beat + heartbeatMs + transitMs
  /\ DocOf(w).lockAge <= behind[w[1]] + heartbeatMs + 2 * transitMs

Holds(w) ==
  /\ DocOf(w).status = "processing"
  /\ DocOf(w).lockOwner = w[1]
  /\ DocOf(w).attempts = loop[w].attempts
  /\ Fresh(w)

\* The success was recorded, but its reply was lost.
Done(w) == DocOf(w).status = "succeeded" /\ loop[w].pc \in {"retry", "fail"}

Held(w) == Busy(w) => Holds(w) \/ Done(w)

LocksHeld == \A w \in Workers : Held(w)

BeatsOnTime ==
  \A w \in Workers : sent[w] # None =>
    /\ behind[w[1]] <= sent[w].age
    /\ sent[w].age <= behind[w[1]] + transitMs

LoopsAlive ==
  \A w \in Workers : loop[w].pc # "off" => proc[w[1]] \in {"up", "stopping"}

TimeInv == Inv /\ LocksHeld /\ OneWorkerPerJob /\ BeatsOnTime /\ LoopsAlive

-----------------------------------------------------------------------------
LEMMA TimedIsNext == TimedNext => Next
  BY DEF TimedNext, Next, TimelyTick, TimelyArrival

LEMMA Intervals ==
  /\ claimMs \in Nat /\ claimMs <= transitMs
  /\ transitMs \in Nat /\ heartbeatMs \in Nat /\ visibilityMs \in Nat
  /\ maxSkew \in Nat /\ maxAge \in Nat
  /\ transitMs <= heartbeatMs
  /\ heartbeatMs + 2 * transitMs + maxSkew <= visibilityMs
  /\ maxAge = visibilityMs + maxSkew + 1
  /\ \A w \in Workers : /\ w[1] \in Procs /\ behind[w[1]] \in Nat
                        /\ behind[w[1]] <= maxSkew
  BY HeartbeatAssumption, TransitAssumption, TimersAssumption,
     ClocksAssumption
     DEF maxAge, Workers

\* A loop at work and its job.
LEMMA BusyJob ==
  ASSUME TimeInv, NEW w \in Workers, Busy(w)
  PROVE  /\ loop[w].job \in Jobs /\ Exists(loop[w].job)
         /\ DocOf(w) \in JobDoc /\ loop[w] \in LoopState
         /\ DocOf(w).lockAge \in Int /\ loop[w].beat \in 0 .. heartbeatMs
         /\ DocOf(w).status \in {"processing", "succeeded"}
  <1>1. loop[w].job \in Jobs /\ Exists(loop[w].job)
    BY HeldJob DEF TimeInv, Inv, Busy
  <1>2. DocOf(w) \in JobDoc /\ loop[w] \in LoopState
    BY <1>1 DEF TimeInv, Inv, TypeOK, DocOf
  <1>3. DocOf(w).lockAge \in Int /\ loop[w].beat \in 0 .. heartbeatMs
    BY <1>2, Intervals DEF JobDoc, LoopState, NotLocked
  <1>4. DocOf(w).status \in {"processing", "succeeded"}
    BY DEF TimeInv, LocksHeld, Held, Holds, Done
  <1> QED BY <1>1, <1>2, <1>3, <1>4

\* No clock is so far ahead that it takes the lock of a worker for stuck.
LEMMA NeverStuck ==
  ASSUME TimeInv, NEW w \in Workers, Busy(w), NEW p \in Procs
  PROVE  ~Stuck(p, loop[w].job)
  <1>1. CASE Done(w)
    BY <1>1 DEF Done, DocOf, Stuck
  <1>2. CASE Holds(w)
    <2>1. DocOf(w).lockAge <= behind[w[1]] + heartbeatMs + 2 * transitMs
      BY <1>2 DEF Holds, Fresh
    <2>2. DocOf(w).lockAge - behind[p] <= visibilityMs
      BY <2>1, BusyJob, Intervals, ClocksAssumption
    <2> QED BY <2>2, BusyJob, Intervals, ClocksAssumption DEF Stuck, DocOf
  <1> QED BY <1>1, <1>2 DEF TimeInv, LocksHeld, Held

\* What is left alone stays as it was.
LEMMA StillHeld ==
  ASSUME TimeInv, NEW v \in Workers,
         loop'[v] = loop[v], sent'[v] = sent[v],
         Busy(v) => jobs'[loop[v].job] = jobs[loop[v].job]
  PROVE  Held(v)'
  BY DEF TimeInv, LocksHeld, Held, Busy, Holds, Done, Fresh, DocOf

LEMMA OtherLoops ==
  ASSUME TypeOK, NEW w \in Workers, LoopStep(w), NEW v \in Workers, v # w
  PROVE  loop'[v] = loop[v]
  BY DEF TypeOK, LoopStep, LeaveLoop, RequeueStuck, ClaimNext, Dispatch,
         HandlerReturns, HandlerThrows, Succeed, Retry, Fail, ReadFailedJob,
         MoveJobToDlq, TopOfLoop, GoTo, RetryOrFail

\* A loop leaves the jobs of the others alone.
LEMMA OtherJobs ==
  ASSUME TimeInv, NEW w \in Workers, LoopStep(w),
         NEW v \in Workers, v # w, Busy(v)
  PROVE  jobs'[loop[v].job] = jobs[loop[v].job]
  <1> DEFINE j == loop[v].job
  <1>1. /\ j \in Jobs /\ jobs \in [Jobs -> JobDoc] /\ w[1] \in Procs
        /\ jobs[j].status # "queued"
    BY BusyJob DEF TimeInv, Inv, TypeOK, DocOf, Workers
  <1>2. CASE RequeueStuck(w)
    <2>1. ~Stuck(w[1], j)
      BY <1>1, NeverStuck
    <2> QED BY <1>1, <1>2, <2>1 DEF RequeueStuck
  <1>3. CASE ClaimNext(w)
    <2>1. j \notin Claimable
      BY <1>1 DEF Claimable
    <2> QED BY <1>1, <1>3, <2>1 DEF ClaimNext
  <1>4. CASE Succeed(w) \/ Retry(w) \/ Fail(w)
    <2>1. Busy(w)
      BY <1>4 DEF Succeed, Retry, Fail, Busy
    <2>2. loop[w].job # j
      BY <2>1 DEF TimeInv, OneWorkerPerJob
    <2> QED BY <1>1, <1>4, <2>2 DEF Succeed, Retry, Fail, Written
  <1>5. CASE \/ LeaveLoop(w) \/ Dispatch(w) \/ HandlerReturns(w)
             \/ HandlerThrows(w) \/ ReadFailedJob(w) \/ MoveJobToDlq(w)
    BY <1>5 DEF LeaveLoop, Dispatch, HandlerReturns, HandlerThrows,
                ReadFailedJob, MoveJobToDlq
  <1> QED BY <1>2, <1>3, <1>4, <1>5 DEF LoopStep

-----------------------------------------------------------------------------
(* A step of a loop.                                                       *)

\* A loop goes on with its job, or takes one that nobody works on.
OwnJob(w) ==
  Busy(w)' => \/ Busy(w) /\ loop'[w].job = loop[w].job
              \/ /\ loop'[w].job \in Jobs
                 /\ jobs[loop'[w].job].status = "queued"

LEMMA NotBusy ==
  ASSUME TypeOK, NEW w \in Workers, TopOfLoop(w)
  PROVE  Held(w)' /\ OwnJob(w)
  <1>1. loop'[w].pc = "top"
    BY DEF TopOfLoop, TypeOK
  <1> QED BY <1>1 DEF Held, OwnJob, Busy

\* From run or succeed to retry or fail.
LEMMA RetryOrFailOwn ==
  ASSUME TimeInv, NEW w \in Workers, loop[w].pc \in {"run", "succeed"},
         RetryOrFail(w),
         \/ jobs' = jobs
         \/ /\ jobs'[loop[w].job].status = "succeeded"
  PROVE  Held(w)' /\ OwnJob(w)
  <1>1. loop[w] \in LoopState
    BY DEF TimeInv, Inv, TypeOK
  <1>2. /\ loop'[w].pc \in {"retry", "fail"}
        /\ loop'[w].job = loop[w].job
        /\ loop'[w].attempts = loop[w].attempts
    BY <1>1 DEF TimeInv, Inv, TypeOK, RetryOrFail, LoopState
  <1>3. Busy(w)
    BY DEF Busy
  <1>4. OwnJob(w)
    BY <1>2, <1>3 DEF OwnJob
  <1>5. CASE jobs'[loop[w].job].status = "succeeded"
    BY <1>2, <1>4, <1>5 DEF Held, Done, DocOf
  <1>6. CASE jobs' = jobs
    <2>1. Holds(w)
      BY <1>3 DEF TimeInv, LocksHeld, Held, Done
    <2>2. Holds(w)'
      BY <1>2, <1>6, <2>1 DEF Holds, Fresh, DocOf
    <2> QED BY <1>4, <2>2 DEF Held
  <1> QED BY <1>5, <1>6

LEMMA ClaimOwn ==
  ASSUME TimeInv, NEW w \in Workers, ClaimNext(w)
  PROVE  Held(w)' /\ OwnJob(w)
  <1>1. CASE TopOfLoop(w)
    BY <1>1, NotBusy DEF TimeInv, Inv
  <1>2. ASSUME NEW j \in Claimable, NEW age \in 0 .. claimMs,
               jobs' = [jobs EXCEPT ![j] = Claimed(jobs[j], w[1], age)],
               loop' = [loop EXCEPT ![w].pc = "got", ![w].job = j,
                                    ![w].attempts = jobs[j].attempts + 1]
        PROVE  Held(w)' /\ OwnJob(w)
    <2>1. j \in Jobs /\ jobs[j].status = "queued" /\ jobs[j] \in JobDoc
      BY <1>2 DEF Claimable, TimeInv, Inv, TypeOK
    <2>2. jobs'[j] = Claimed(jobs[j], w[1], age)
      BY <1>2, <2>1 DEF TimeInv, Inv, TypeOK
    <2>3. /\ jobs'[j].status = "processing" /\ jobs'[j].lockOwner = w[1]
          /\ jobs'[j].lockAge = AtMost(behind[w[1]] + age, maxAge)
          /\ jobs'[j].lockAge \in Nat
          /\ jobs'[j].attempts = jobs[j].attempts + 1
      BY <1>2, <2>1, <2>2, ClaimedType DEF Workers
    <2>7. jobs'[j].lockAge <= behind[w[1]] + transitMs
      BY <1>2, <2>3, Intervals DEF AtMost
    <2>4. loop[w] \in LoopState /\ loop \in [Workers -> LoopState]
      BY DEF TimeInv, Inv, TypeOK
    <2>5. /\ loop'[w].pc = "got" /\ loop'[w].job = j
          /\ loop'[w].attempts = jobs[j].attempts + 1
      BY <1>2, <2>4 DEF LoopState
    <2>6. Fresh(w)'
      BY <2>3, <2>5, <2>7, Intervals DEF Fresh, DocOf
    <2> QED BY <2>1, <2>3, <2>5, <2>6 DEF Held, Holds, OwnJob, DocOf
  <1> QED BY <1>1, <1>2 DEF ClaimNext

LEMMA DispatchOwn ==
  ASSUME TimeInv, NEW w \in Workers, Dispatch(w)
  PROVE  Held(w)' /\ OwnJob(w)
  <1>1. loop[w] \in LoopState /\ loop[w].pc = "got" /\ Busy(w) /\ jobs' = jobs
    BY DEF TimeInv, Inv, TypeOK, Dispatch, Busy
  <1>2. /\ loop'[w].pc = "fail" \/ (loop'[w].pc = "run" /\ loop'[w].beat = 0)
        /\ loop'[w].job = loop[w].job
        /\ loop'[w].attempts = loop[w].attempts
    BY <1>1 DEF TimeInv, Inv, TypeOK, Dispatch, LoopState
  <1>3. Holds(w)
    BY <1>1 DEF TimeInv, LocksHeld, Held, Done
  <1>4. DocOf(w).lockAge <= behind[w[1]] + transitMs
    BY <1>1, <1>3 DEF Holds, Fresh
  <1>5. Fresh(w)'
    <2>1. DocOf(w)' = DocOf(w) /\ DocOf(w).lockAge \in Int
      BY <1>1, <1>2, BusyJob DEF DocOf
    <2> QED BY <1>2, <1>4, <2>1, Intervals DEF Fresh
  <1> QED BY <1>1, <1>2, <1>3, <1>5 DEF Held, Holds, OwnJob, DocOf

LEMMA ReturnOwn ==
  ASSUME TimeInv, NEW w \in Workers, HandlerReturns(w)
  PROVE  Held(w)' /\ OwnJob(w)
  <1>1. loop[w] \in LoopState /\ loop[w].pc = "run" /\ Busy(w) /\ jobs' = jobs
    BY DEF TimeInv, Inv, TypeOK, HandlerReturns, Busy
  <1>2. /\ loop'[w].pc = "succeed"
        /\ loop'[w].job = loop[w].job
        /\ loop'[w].attempts = loop[w].attempts
    BY <1>1 DEF TimeInv, Inv, TypeOK, HandlerReturns, LoopState
  <1>3. Holds(w)
    BY <1>1 DEF TimeInv, LocksHeld, Held, Done
  <1> QED BY <1>1, <1>2, <1>3 DEF Held, Holds, Fresh, OwnJob, DocOf

LEMMA SucceedOwn ==
  ASSUME TimeInv, NEW w \in Workers, Succeed(w)
  PROVE  Held(w)' /\ OwnJob(w)
  <1> DEFINE doc == [Released(w) EXCEPT !.status = "succeeded"]
  <1>1. CASE TopOfLoop(w)
    BY <1>1, NotBusy DEF TimeInv, Inv
  <1>2. CASE RetryOrFail(w) /\ jobs' = jobs
    BY <1>2, RetryOrFailOwn DEF Succeed
  <1>3. CASE RetryOrFail(w) /\ Written(w, doc)
    <2>1. Busy(w) /\ loop[w].pc = "succeed"
      BY DEF Succeed, Busy
    <2>2. Holds(w)
      BY <2>1 DEF TimeInv, LocksHeld, Held, Done
    <2>3. Owned(w)
      BY <2>2 DEF Holds, Owned, DocOf
    <2>4. loop[w].job \in Jobs /\ jobs \in [Jobs -> JobDoc]
      BY <2>1, BusyJob DEF TimeInv, Inv, TypeOK
    <2>5. doc.status = "succeeded"
      BY <2>4, ReleasedType DEF TimeInv, Inv, JobDoc
    <2> HIDE DEF doc
    <2>6. jobs'[loop[w].job].status = "succeeded"
      BY <1>3, <2>3, <2>4, <2>5 DEF Written
    <2> QED BY <1>3, <2>1, <2>6, RetryOrFailOwn
  <1> QED BY <1>1, <1>2, <1>3 DEF Succeed

LEMMA StepOwn ==
  ASSUME TimeInv, NEW w \in Workers, LoopStep(w)
  PROVE  Held(w)' /\ OwnJob(w)
  <1>1. CASE ClaimNext(w)
    BY <1>1, ClaimOwn
  <1>2. CASE Dispatch(w)
    BY <1>2, DispatchOwn
  <1>3. CASE HandlerReturns(w)
    BY <1>3, ReturnOwn
  <1>4. CASE HandlerThrows(w)
    BY <1>4, RetryOrFailOwn DEF HandlerThrows
  <1>5. CASE Succeed(w)
    BY <1>5, SucceedOwn
  <1>6. CASE \/ LeaveLoop(w) \/ RequeueStuck(w) \/ Retry(w) \/ Fail(w)
             \/ ReadFailedJob(w) \/ MoveJobToDlq(w)
    <2>1. TopOfLoop(w) \/ loop'[w].pc \in {"off", "claim", "read", "dlq"}
      BY <1>6 DEF LeaveLoop, RequeueStuck, Retry, Fail, ReadFailedJob,
           MoveJobToDlq, GoTo, TimeInv, Inv, TypeOK, LoopState
    <2>2. CASE loop'[w].pc \in {"off", "claim", "read", "dlq"}
      BY <2>2 DEF Held, OwnJob, Busy
    <2> QED BY <2>1, <2>2, NotBusy DEF TimeInv, Inv
  <1> QED BY <1>1, <1>2, <1>3, <1>4, <1>5, <1>6 DEF LoopStep

\* Whoever moves, a job never gets a second worker.
LEMMA StillOne ==
  ASSUME TimeInv, NEW w \in Workers, OwnJob(w),
         \A v \in Workers \ {w} : loop'[v] = loop[v]
  PROVE  OneWorkerPerJob'
  <1> SUFFICES ASSUME NEW u \in Workers, NEW v \in Workers, u # v,
                      Busy(u)', Busy(v)'
               PROVE  loop'[u].job # loop'[v].job
    BY DEF OneWorkerPerJob
  <1>1. \A x \in Workers : Busy(x) => jobs[loop[x].job].status # "queued"
    BY BusyJob DEF DocOf
  <1>2. \A x \in Workers \ {w} : Busy(x)' => Busy(x)
    BY DEF Busy
  <1>3. CASE u # w /\ v # w
    BY <1>2, <1>3 DEF TimeInv, OneWorkerPerJob
  <1>4. CASE u = w
    BY <1>1, <1>2, <1>4 DEF TimeInv, OneWorkerPerJob, OwnJob
  <1>5. CASE v = w
    BY <1>1, <1>2, <1>5 DEF TimeInv, OneWorkerPerJob, OwnJob
  <1> QED BY <1>3, <1>4, <1>5

LEMMA LoopStepTime ==
  ASSUME TimeInv, NEW w \in Workers, LoopStep(w)
  PROVE  LocksHeld' /\ OneWorkerPerJob' /\ BeatsOnTime' /\ LoopsAlive'
  <1>1. sent' = sent /\ proc' = proc
    BY DEF LoopStep, LeaveLoop, RequeueStuck, ClaimNext, Dispatch, dbRest,
           HandlerReturns, HandlerThrows, Succeed, Retry, Fail, ReadFailedJob,
           MoveJobToDlq
  <1>2. \A v \in Workers \ {w} : loop'[v] = loop[v]
    BY OtherLoops DEF TimeInv, Inv
  <1>3. ASSUME NEW v \in Workers PROVE Held(v)'
    <2>1. CASE v = w
      BY <2>1, StepOwn
    <2>2. CASE v # w
      BY <1>1, <1>2, <2>2, OtherJobs, StillHeld
    <2> QED BY <2>1, <2>2
  <1>4. OneWorkerPerJob'
    BY <1>2, StepOwn, StillOne
  <1>5. loop[w].pc # "off"
    BY DEF LoopStep, LeaveLoop, RequeueStuck, ClaimNext, Dispatch,
           HandlerReturns, HandlerThrows, Succeed, Retry, Fail, ReadFailedJob,
           MoveJobToDlq
  <1> QED BY <1>1, <1>2, <1>3, <1>4, <1>5
          DEF TimeInv, LocksHeld, BeatsOnTime, LoopsAlive

-----------------------------------------------------------------------------
(* Heartbeats and the clock.                                               *)

LEMMA HeartbeatTime ==
  ASSUME TimeInv, NEW w \in Workers, Heartbeat(w)
  PROVE  LocksHeld' /\ OneWorkerPerJob' /\ BeatsOnTime' /\ LoopsAlive'
  <1>1. /\ loop[w].pc = "run" /\ Busy(w) /\ loop[w] \in LoopState
        /\ jobs' = jobs /\ proc' = proc
        /\ loop[w].beat = heartbeatMs /\ sent[w] = None
    BY DEF Heartbeat, Busy, TimeInv, Inv, TypeOK
  <1>2. /\ loop'[w].pc = "run" /\ loop'[w].job = loop[w].job
        /\ loop'[w].attempts = loop[w].attempts /\ loop'[w].beat = 0
        /\ \A v \in Workers \ {w} : loop'[v] = loop[v] /\ sent'[v] = sent[v]
    BY <1>1 DEF Heartbeat, TimeInv, Inv, TypeOK, LoopState
  <1>3. sent'[w] = [job |-> loop[w].job, age |-> behind[w[1]]]
    BY DEF Heartbeat, TimeInv, Inv, TypeOK
  <1>4. sent'[w] \in Beat /\ sent'[w] # None
    BY <1>1, <1>3, BusyJob, SkewInRange, BeatAssumption, Intervals DEF Beat
  <1>5. Holds(w)
    BY <1>1 DEF TimeInv, LocksHeld, Held, Done
  <1>6. DocOf(w).lockAge <= behind[w[1]] + heartbeatMs + transitMs
    BY <1>1, <1>5 DEF Holds, Fresh
  <1>7. DocOf(w)' = DocOf(w) /\ DocOf(w).lockAge \in Int
    BY <1>1, <1>2, BusyJob DEF DocOf
  <1>8. Fresh(w)'
    BY <1>1, <1>2, <1>3, <1>4, <1>6, <1>7, Intervals DEF Fresh
  <1>9. Held(w)' /\ OwnJob(w)
    BY <1>1, <1>2, <1>5, <1>7, <1>8 DEF Held, Holds, OwnJob
  <1>10. LocksHeld'
    BY <1>1, <1>2, <1>9, StillHeld DEF LocksHeld
  <1>11. BeatsOnTime'
    BY <1>2, <1>3, Intervals DEF TimeInv, BeatsOnTime
  <1>12. LoopsAlive'
    BY <1>1, <1>2 DEF TimeInv, LoopsAlive
  <1> QED BY <1>2, <1>9, <1>10, <1>11, <1>12, StillOne

\* Of the loops of a process none can tell whose heartbeat arrives: it makes
\* no lock older than the time it was on its way.
LEMMA ArrivalTime ==
  ASSUME TimeInv, NEW w \in Workers, TimelyArrival(w)
  PROVE  LocksHeld' /\ OneWorkerPerJob' /\ BeatsOnTime' /\ LoopsAlive'
  <1>1. /\ loop' = loop /\ proc' = proc /\ sent[w] # None
        /\ sent'[w] = None /\ \A v \in Workers \ {w} : sent'[v] = sent[v]
    BY DEF TimelyArrival, HeartbeatArrives, TimeInv, Inv, TypeOK
  <1>2. sent[w] \in Beat /\ sent[w].job \in Jobs /\ sent[w].age \in Nat
    BY <1>1, Intervals DEF TimeInv, Inv, TypeOK, Beat
  <1>3. /\ behind[w[1]] <= sent[w].age
        /\ sent[w].age <= behind[w[1]] + transitMs
    BY <1>1 DEF TimeInv, BeatsOnTime
  <1>4. jobs' = Refreshed(w[1], sent[w]) \/ (proc[w[1]] = "crashed" /\ jobs' = jobs)
    BY DEF TimelyArrival, HeartbeatArrives, Answered, Fails, TimeInv, Inv, TypeOK
  <1>5. ASSUME NEW v \in Workers, Busy(v) PROVE Holds(v)' \/ Done(v)'
    <2>1. /\ loop[v].job \in Jobs /\ DocOf(v) \in JobDoc
          /\ DocOf(v).lockAge \in Int /\ loop[v].beat \in Nat
          /\ loop[v].beat <= heartbeatMs /\ jobs \in [Jobs -> JobDoc]
      BY <1>5, BusyJob, Intervals DEF TimeInv, Inv, TypeOK
    <2>2. \/ /\ jobs'[loop[v].job] = [DocOf(v) EXCEPT !.lockAge = sent[w].age]
             /\ DocOf(v).status = "processing"
             /\ DocOf(v).lockOwner = w[1] /\ sent[w].job = loop[v].job
          \/ /\ jobs'[loop[v].job] = DocOf(v)
             /\ v = w /\ sent[w].job = loop[v].job =>
                  ~(DocOf(v).status = "processing" /\ DocOf(v).lockOwner = w[1])
      <3>1. CASE jobs' = Refreshed(w[1], sent[w])
        BY <1>2, <2>1, <3>1 DEF Refreshed, DocOf
      <3>2. CASE proc[w[1]] = "crashed" /\ jobs' = jobs
        <4>1. v # w
          BY <1>5, <3>2 DEF TimeInv, LoopsAlive, Busy
        <4> QED BY <3>2, <4>1 DEF DocOf
      <3> QED BY <1>4, <3>1, <3>2
    <2>3. CASE Done(v)
      BY <1>1, <2>1, <2>2, <2>3 DEF Done, DocOf
    <2>4. CASE /\ Holds(v)
               /\ jobs'[loop[v].job] = [DocOf(v) EXCEPT !.lockAge = sent[w].age]
               /\ DocOf(v).lockOwner = w[1]
      <3>1. v[1] = w[1]
        BY <2>4 DEF Holds
      <3>2. /\ DocOf(v)'.lockAge = sent[w].age
            /\ DocOf(v)'.status = "processing"
            /\ DocOf(v)'.lockOwner = v[1]
            /\ DocOf(v)'.attempts = loop[v].attempts
        BY <1>1, <2>1, <2>4, <3>1 DEF Holds, DocOf, JobDoc
      <3>3. /\ sent[w].age <= behind[v[1]] + loop[v].beat + transitMs
            /\ sent[w].age <= behind[v[1]] + heartbeatMs + 2 * transitMs
        BY <1>2, <1>3, <2>1, <3>1, Intervals
      <3>4. Fresh(v)'
        BY <1>1, <1>3, <3>1, <3>2, <3>3 DEF Fresh
      <3> QED BY <1>1, <3>2, <3>4 DEF Holds
    <2>5. CASE /\ Holds(v)
               /\ jobs'[loop[v].job] = DocOf(v)
               /\ v = w /\ sent[w].job = loop[v].job =>
                    ~(DocOf(v).status = "processing" /\ DocOf(v).lockOwner = w[1])
      <3>1. DocOf(v)' = DocOf(v)
        BY <1>1, <2>5 DEF DocOf
      <3>2. v = w => sent[w].job # loop[v].job
        BY <2>5 DEF Holds
      <3>3. v # w => sent'[v] = sent[v]
        BY <1>1
      <3>4. Fresh(v)'
        BY <1>1, <2>5, <3>1, <3>2, <3>3 DEF Holds, Fresh
      <3> QED BY <1>1, <2>5, <3>1, <3>4 DEF Holds
    <2>6. Holds(v) \/ Done(v)
      BY <1>5 DEF TimeInv, LocksHeld, Held
    <2> QED BY <2>2, <2>3, <2>4, <2>5, <2>6
  <1>6. LocksHeld'
    BY <1>1, <1>5 DEF LocksHeld, Held, Busy
  <1> QED BY <1>1, <1>6 DEF TimeInv, OneWorkerPerJob, BeatsOnTime, LoopsAlive,
                            Busy

\* A lock, the timer of its loop and a heartbeat on its way grow old together.
LEMMA TickTime ==
  ASSUME TimeInv, TimelyTick
  PROVE  LocksHeld' /\ OneWorkerPerJob' /\ BeatsOnTime' /\ LoopsAlive'
  <1>1. proc' = proc /\ Tick /\ \A w \in Workers : ~Urgent(w)
    BY DEF TimelyTick, Tick
  <1>2. ASSUME NEW w \in Workers
        PROVE  /\ loop'[w].pc = loop[w].pc /\ loop'[w].job = loop[w].job
               /\ loop'[w].attempts = loop[w].attempts
               /\ loop[w].pc = "run" => /\ loop'[w].beat = loop[w].beat + 1
                                        /\ loop[w].beat < heartbeatMs
    <2>1. loop[w] \in LoopState /\ loop[w].beat \in 0 .. heartbeatMs
      BY DEF TimeInv, Inv, TypeOK, LoopState
    <2>2. loop[w].pc = "run" => loop[w].beat < heartbeatMs
      <3>1. loop[w].pc = "run" => loop[w].beat # heartbeatMs
        BY <1>1 DEF Urgent
      <3>2. heartbeatMs \in Nat
        BY TimersAssumption
      <3> QED BY <2>1, <3>1, <3>2
    <2>3. loop'[w] = IF loop[w].pc = "run" /\ loop[w].beat < heartbeatMs
                     THEN [loop[w] EXCEPT !.beat = loop[w].beat + 1]
                     ELSE loop[w]
      BY <1>1 DEF Tick
    <2> QED BY <2>1, <2>2, <2>3 DEF LoopState
  <1>3. ASSUME NEW w \in Workers, sent[w] # None
        PROVE  /\ sent'[w] # None /\ sent'[w].job = sent[w].job
               /\ sent'[w].age = sent[w].age + 1 /\ sent[w].age \in Nat
               /\ sent[w].age < behind[w[1]] + transitMs
    <2>1. sent[w] \in Beat /\ sent[w].age \in Nat
      BY <1>3, Intervals DEF TimeInv, Inv, TypeOK, Beat
    <2>2. sent[w].age < behind[w[1]] + transitMs
      BY <1>1, <1>3, <2>1, Intervals DEF TimeInv, BeatsOnTime, Urgent
    <2>3. sent[w].age # maxAge /\ sent[w].age # NotLocked
      BY <2>1, <2>2, Intervals DEF NotLocked
    <2>4. sent'[w] = [sent[w] EXCEPT !.age = Older(sent[w].age)]
      BY <1>1, <1>3 DEF Tick
    <2>5. sent'[w] = [sent[w] EXCEPT !.age = sent[w].age + 1]
      BY <2>3, <2>4 DEF Older
    <2>6. sent'[w].job = sent[w].job /\ sent'[w].age = sent[w].age + 1
      BY <2>1, <2>5 DEF Beat
    <2>7. sent'[w] # None
      <3>1. sent[w].age + 1 \in 0 .. maxAge
        BY <2>1, <2>2, Intervals
      <3>2. sent'[w] \in Beat
        BY <2>1, <2>5, <3>1 DEF Beat
      <3> QED BY <3>2, BeatAssumption
    <2> QED BY <2>1, <2>2, <2>6, <2>7
  <1>4. ASSUME NEW w \in Workers, Busy(w) PROVE Holds(w)'
    <2>1. /\ loop[w].pc = "run" /\ Holds(w)
      BY <1>1, <1>4 DEF Urgent, Busy, TimeInv, LocksHeld, Held, Done
    <2>2. /\ loop[w].job \in Jobs /\ DocOf(w) \in JobDoc
          /\ DocOf(w).lockAge \in Int /\ loop[w].beat \in Nat
      BY <1>4, BusyJob, Intervals
    <2>3. DocOf(w)' = [[DocOf(w) EXCEPT !.lockAge = Older(DocOf(w).lockAge)]
                         EXCEPT !.delay = Sooner(DocOf(w).delay)]
      BY <1>1, <1>2, <2>2 DEF Tick, DocOf
    <2>4. /\ DocOf(w)'.status = "processing" /\ DocOf(w)'.lockOwner = w[1]
          /\ DocOf(w)'.attempts = loop'[w].attempts
          /\ DocOf(w)'.lockAge = Older(DocOf(w).lockAge)
      BY <1>2, <2>1, <2>2, <2>3 DEF Holds, JobDoc
    <2>5. /\ DocOf(w)'.lockAge <= DocOf(w).lockAge + 1
          /\ DocOf(w)'.lockAge \in Int
      BY <2>2, <2>4, Intervals DEF Older, NotLocked
    <2>6. CASE DocOf(w).lockAge <= behind[w[1]] + loop[w].beat + transitMs
      <3>1. DocOf(w)'.lockAge <= behind[w[1]] + loop'[w].beat + transitMs
        BY <1>2, <2>1, <2>2, <2>5, <2>6, Intervals
      <3>2. DocOf(w)'.lockAge <= behind[w[1]] + heartbeatMs + 2 * transitMs
        BY <1>2, <2>1, <2>2, <2>5, <2>6, Intervals
      <3>3. Fresh(w)'
        BY <1>2, <2>1, <3>1, <3>2 DEF Fresh
      <3> QED BY <2>4, <3>3 DEF Holds
    <2>7. CASE /\ sent[w] # None
               /\ sent[w].job = loop[w].job
               /\ sent[w].age = behind[w[1]] + loop[w].beat
               /\ DocOf(w).lockAge
                    <= behind[w[1]] + loop[w].beat + heartbeatMs + transitMs
      <3>1. /\ sent'[w] # None /\ sent'[w].job = loop'[w].job
            /\ sent'[w].age = behind[w[1]] + loop'[w].beat
            /\ loop[w].beat < transitMs
        BY <1>2, <1>3, <2>1, <2>2, <2>7, Intervals
      <3>2. DocOf(w)'.lockAge
              <= behind[w[1]] + loop'[w].beat + heartbeatMs + transitMs
        BY <1>2, <2>1, <2>2, <2>5, <2>7, Intervals
      <3>3. DocOf(w)'.lockAge <= behind[w[1]] + heartbeatMs + 2 * transitMs
        BY <1>2, <2>1, <2>2, <2>5, <2>7, <3>1, Intervals
      <3>4. Fresh(w)'
        BY <1>2, <2>1, <3>1, <3>2, <3>3 DEF Fresh
      <3> QED BY <2>4, <3>4 DEF Holds
    <2> QED BY <2>1, <2>6, <2>7 DEF Holds, Fresh
  <1>5. \A w \in Workers : Busy(w)' => Busy(w)
    BY <1>2 DEF Busy
  <1>6. LocksHeld'
    BY <1>4, <1>5 DEF LocksHeld, Held
  <1>7. OneWorkerPerJob'
    BY <1>2, <1>5 DEF TimeInv, OneWorkerPerJob
  <1>8. BeatsOnTime'
    <2> SUFFICES ASSUME NEW w \in Workers, sent'[w] # None
                 PROVE  /\ behind[w[1]] <= sent'[w].age
                        /\ sent'[w].age <= behind[w[1]] + transitMs
      BY DEF BeatsOnTime
    <2>1. sent[w] # None
      BY <1>1 DEF Tick
    <2> QED BY <1>3, <2>1, Intervals DEF TimeInv, BeatsOnTime
  <1>9. LoopsAlive'
    BY <1>1, <1>2 DEF TimeInv, LoopsAlive
  <1> QED BY <1>6, <1>7, <1>8, <1>9

-----------------------------------------------------------------------------
(* Everything else.                                                        *)

LEMMA ProcTime ==
  ASSUME TimeInv, NEW p \in Procs, ProcStep(p)
  PROVE  LocksHeld' /\ OneWorkerPerJob' /\ BeatsOnTime' /\ LoopsAlive'
  <1>1. jobs' = jobs /\ sent' = sent
    BY DEF ProcStep, Start, RegisterHandlers, Stop, Exit, Crash
  <1>2. \A w \in Workers : w = <<w[1], w[2]>> /\ w[1] \in Procs /\ w[2] \in Slots
    BY DEF Workers
  <1>3. ASSUME NEW w \in Workers
        PROVE  loop'[w] = loop[w] \/ loop'[w].pc \in {"off", "top"}
    <2>1. loop[w] \in LoopState
      BY DEF TimeInv, Inv, TypeOK
    <2> QED BY <2>1 DEF ProcStep, Start, RegisterHandlers, Stop, Exit, Crash,
                        LoopState
  <1>4. \A w \in Workers : Busy(w)' => Busy(w) /\ loop'[w] = loop[w]
    BY <1>3 DEF Busy
  <1>5. LocksHeld'
    BY <1>1, <1>4, StillHeld DEF LocksHeld, Held
  <1>6. OneWorkerPerJob'
    BY <1>4 DEF TimeInv, OneWorkerPerJob
  <1>7. BeatsOnTime'
    BY <1>1 DEF TimeInv, BeatsOnTime
  <1>8. LoopsAlive'
    <2> SUFFICES ASSUME NEW w \in Workers, loop'[w].pc # "off"
                 PROVE  proc'[w[1]] \in {"up", "stopping"}
      BY DEF LoopsAlive
    <2>1. loop[w] \in LoopState /\ proc \in [Procs -> ProcStates]
      BY DEF TimeInv, Inv, TypeOK
    <2>2. CASE Start(p)
      BY <1>2, <2>1, <2>2 DEF Start, TimeInv, LoopsAlive
    <2>3. CASE RegisterHandlers(p)
      BY <2>3 DEF RegisterHandlers, TimeInv, LoopsAlive
    <2>4. CASE Stop(p)
      BY <1>2, <2>1, <2>4 DEF Stop, TimeInv, LoopsAlive
    <2>5. CASE Exit(p)
      <3>1. w[1] # p
        BY <1>2, <2>5 DEF Exit
      <3> QED BY <1>2, <2>1, <2>5, <3>1 DEF Exit, TimeInv, LoopsAlive
    <2>6. CASE Crash(p)
      <3>1. w[1] # p /\ loop'[w] = loop[w]
        BY <2>6 DEF Crash
      <3> QED BY <1>2, <2>1, <2>6, <3>1 DEF Crash, TimeInv, LoopsAlive
    <2> QED BY <2>2, <2>3, <2>4, <2>5, <2>6 DEF ProcStep
  <1> QED BY <1>5, <1>6, <1>7, <1>8

LEMMA ClientTime ==
  ASSUME TimeInv, CleanupOldJobs \/ \E j \in Jobs : ClientStep(j)
  PROVE  LocksHeld' /\ OneWorkerPerJob' /\ BeatsOnTime' /\ LoopsAlive'
  <1>1. loop' = loop /\ sent' = sent /\ proc' = proc
    BY DEF CleanupOldJobs, ClientStep, Enqueue, RetryDlqJob, DeleteDlqJob
  <1>2. \A i \in Jobs : Exists(i) => jobs'[i] = jobs[i]
    BY DEF CleanupOldJobs, ClientStep, Enqueue, RetryDlqJob, DeleteDlqJob,
           Created, DuplicateKey, TimeInv, Inv, TypeOK
  <1>3. LocksHeld'
    BY <1>1, <1>2, BusyJob, StillHeld DEF LocksHeld
  <1> QED BY <1>1, <1>3
          DEF TimeInv, OneWorkerPerJob, BeatsOnTime, LoopsAlive, Busy

LEMMA InitTime == Init => TimeInv
  <1> SUFFICES ASSUME Init PROVE TimeInv
    OBVIOUS
  <1>1. \A w \in Workers : loop[w].pc = "off" /\ sent[w] = None
    BY DEF Init
  <1> QED BY <1>1, InitInv DEF TimeInv, LocksHeld, Held, OneWorkerPerJob,
                               BeatsOnTime, LoopsAlive, Busy

LEMMA NextTime == TimeInv /\ [TimedNext]_vars => TimeInv'
  <1> SUFFICES ASSUME TimeInv, [TimedNext]_vars PROVE TimeInv'
    OBVIOUS
  <1>1. Inv'
    BY TimedIsNext, NextInv DEF TimeInv
  <1>2. CASE UNCHANGED vars
    BY <1>1, <1>2 DEF vars, TimeInv, LocksHeld, Held, Holds, Done, Fresh, DocOf,
                      OneWorkerPerJob, BeatsOnTime, LoopsAlive, Busy
  <1>3. CASE TimedNext
    BY <1>1, <1>3, TickTime, ClientTime, ProcTime, LoopStepTime, HeartbeatTime,
       ArrivalTime DEF TimedNext, TimeInv
  <1> QED BY <1>2, <1>3

LEMMA TimedSpecInv == TimedSpec => []TimeInv
  BY InitTime, NextTime, PTL DEF TimedSpec

-----------------------------------------------------------------------------
\* With timely heartbeats no two loops ever work on the same job.
THEOREM OneWorkerAtATime == TimedSpec => []OneWorkerPerJob
  <1>1. TimeInv => OneWorkerPerJob
    BY DEF TimeInv
  <1> QED BY <1>1, TimedSpecInv, PTL

\* A loop at work holds the lock of its job, which is never old enough for a
\* process to requeue it.
THEOREM WorkersHoldLocks == TimedSpec => []WorkerHoldsLock
  <1>1. TimeInv => WorkerHoldsLock
    BY DEF TimeInv, LocksHeld, Held, Holds, Done, Fresh, DocOf, Owned,
           WorkerHoldsLock
  <1> QED BY <1>1, TimedSpecInv, PTL

-----------------------------------------------------------------------------
(* Dead letters.                                                           *)

LettersOfEnded ==
  /\ \A w \in Workers :
       /\ loop[w].pc \in {"read", "dlq"} => DocOf(w).status \in Terminal
       /\ loop[w].pc = "dlq" => loop[w].doc.status \in Terminal
  /\ NoLiveDeadLetter

LEMMA EndedStays ==
  ASSUME Inv, JobsStep, NEW j \in Jobs, jobs[j].status \in Terminal
  PROVE  jobs'[j].status \in Terminal
  <1>1. CASE Kept(j)
    BY <1>1 DEF Kept
  <1>2. ~Requeued(j) /\ ~Submitted(j) /\ ~Taken(j)
    BY DEF Requeued, Stuck, Submitted, Exists, NoSuchJob, Taken, Terminal
  <1>3. ASSUME NEW w \in Workers PROVE ~Recorded(w, j)
    BY ProcsAssumption
       DEF Recorded, Owned, Inv, LockedIffProcessing, Terminal, Workers
  <1> QED BY <1>1, <1>2, <1>3 DEF JobsStep, OthersKept

\* The worker that fails a job holds it, or the job has succeeded.
LEMMA FailEnds ==
  ASSUME TimeInv, NEW w \in Workers, Fail(w), loop'[w].pc = "read"
  PROVE  /\ loop'[w].job = loop[w].job /\ loop[w].job \in Jobs
         /\ jobs'[loop[w].job].status \in Terminal
  <1> DEFINE doc == [Released(w) EXCEPT !.status = "failed",
                                        !.error = loop[w].code]
  <1>1. Busy(w) /\ loop[w] \in LoopState /\ loop \in [Workers -> LoopState]
    BY DEF Fail, Busy, TimeInv, Inv, TypeOK
  <1>2. loop[w].job \in Jobs /\ jobs \in [Jobs -> JobDoc]
    BY <1>1, BusyJob DEF TimeInv, Inv, TypeOK
  <1>3. Written(w, doc) /\ GoTo(w, "read")
    BY <1>1 DEF Fail, TopOfLoop
  <1>4. loop'[w].job = loop[w].job
    BY <1>1, <1>3 DEF GoTo, LoopState
  <1>5. doc.status = "failed"
    BY <1>2, ReleasedType DEF TimeInv, Inv, JobDoc
  <1>6. CASE Holds(w)
    <2>1. Owned(w)
      BY <1>6 DEF Holds, Owned, DocOf
    <2> HIDE DEF doc
    <2> QED BY <1>2, <1>3, <1>4, <1>5, <2>1 DEF Written, Terminal
  <1>7. CASE Done(w)
    <2>1. ~Owned(w)
      BY <1>2, <1>7, ProcsAssumption
         DEF Done, DocOf, Owned, TimeInv, Inv, LockedIffProcessing, Workers
    <2> QED BY <1>2, <1>3, <1>4, <1>7, <2>1 DEF Written, Done, DocOf, Terminal
  <1> QED BY <1>1, <1>6, <1>7 DEF TimeInv, LocksHeld, Held

\* How a loop comes to file a dead letter.
LEMMA ReadingLoops ==
  ASSUME TimeInv, [TimedNext]_vars, NEW v \in Workers,
         loop'[v].pc \in {"read", "dlq"}
  PROVE  \/ /\ loop'[v].pc = loop[v].pc /\ loop'[v].job = loop[v].job
            /\ loop'[v].doc = loop[v].doc
         \/ Fail(v) /\ loop'[v].pc = "read"
         \/ /\ loop[v].pc = "read" /\ loop'[v].job = loop[v].job
            /\ loop'[v].pc = "dlq"
            /\ loop'[v].doc.status = jobs[loop[v].job].status
            /\ jobs' = jobs
  <1>1. loop[v] \in LoopState /\ loop \in [Workers -> LoopState]
    BY DEF TimeInv, Inv, TypeOK
  <1>2. CASE loop' = loop
    BY <1>2
  <1>3. CASE TimelyTick
    BY <1>1, <1>3 DEF TimelyTick, Tick, LoopState
  <1>4. ASSUME NEW p \in Procs, ProcStep(p), loop' # loop
        PROVE  loop'[v] = loop[v] \/ loop'[v].pc \in {"off", "top"}
    BY <1>1, <1>4 DEF ProcStep, Start, RegisterHandlers, Stop, Exit, Crash,
                      LoopState
  <1>5. ASSUME NEW w \in Workers, Heartbeat(w)
        PROVE  /\ loop'[v].pc = loop[v].pc /\ loop'[v].job = loop[v].job
               /\ loop'[v].doc = loop[v].doc
    BY <1>1, <1>5 DEF Heartbeat, LoopState
  <1>6. ASSUME NEW w \in Workers, LoopStep(w), v # w
        PROVE  loop'[v] = loop[v]
    BY <1>6, OtherLoops DEF TimeInv, Inv
  <1>7. CASE LoopStep(v)
    <2>1. CASE Fail(v)
      <3>1. loop'[v].pc # "dlq"
        BY <1>1, <2>1 DEF Fail, GoTo, TopOfLoop, LoopState
      <3> QED BY <2>1, <3>1
    <2>2. CASE ReadFailedJob(v)
      <3> DEFINE copy == [status |-> jobs[loop[v].job].status,
                          attempts |-> jobs[loop[v].job].attempts]
                 l == [[loop[v] EXCEPT !.pc = "dlq"] EXCEPT !.doc = copy]
      <3>1. ~TopOfLoop(v)
        BY <1>1 DEF TopOfLoop
      <3>2. loop'[v] = l /\ jobs' = jobs /\ loop[v].pc = "read"
        BY <1>1, <2>2, <3>1 DEF ReadFailedJob
      <3>3. l.pc = "dlq" /\ l.job = loop[v].job /\ l.doc = copy
        <4> HIDE DEF copy
        <4> QED BY <1>1 DEF LoopState
      <3>4. copy.status = jobs[loop[v].job].status
        OBVIOUS
      <3> HIDE DEF copy, l
      <3> QED BY <3>2, <3>3, <3>4
    <2>3. CASE \/ LeaveLoop(v) \/ RequeueStuck(v) \/ ClaimNext(v)
               \/ Dispatch(v) \/ HandlerReturns(v) \/ HandlerThrows(v)
               \/ Succeed(v) \/ Retry(v) \/ MoveJobToDlq(v)
      <3>1. RetryOrFail(v) => loop'[v].pc \notin {"read", "dlq"}
        BY <1>1 DEF RetryOrFail, LoopState
      <3>2. CASE LeaveLoop(v) \/ RequeueStuck(v)
        BY <1>1, <3>2 DEF LeaveLoop, RequeueStuck, GoTo, LoopState
      <3>3. CASE ClaimNext(v)
        <4>1. TopOfLoop(v) => loop'[v].pc = "top"
          BY <1>1 DEF TopOfLoop
        <4>2. ASSUME NEW j, NEW n,
                     loop' = [loop EXCEPT ![v].pc = "got", ![v].job = j,
                                          ![v].attempts = n]
              PROVE  loop'[v].pc = "got"
          BY <1>1, <4>2 DEF LoopState
        <4>3. \/ TopOfLoop(v)
              \/ \E j \in Claimable :
                   loop' = [loop EXCEPT ![v].pc = "got", ![v].job = j,
                                        ![v].attempts = jobs[j].attempts + 1]
          BY <3>3 DEF ClaimNext
        <4>4. loop'[v].pc \in {"top", "got"}
          BY <4>1, <4>2, <4>3
        <4> QED BY <4>4
      <3>4. CASE Dispatch(v)
        BY <1>1, <3>4 DEF Dispatch, LoopState
      <3>5. CASE HandlerReturns(v)
        BY <1>1, <3>5 DEF HandlerReturns, LoopState
      <3>6. CASE HandlerThrows(v)
        BY <3>1, <3>6 DEF HandlerThrows
      <3>7. CASE Succeed(v) \/ Retry(v) \/ MoveJobToDlq(v)
        <4>1. TopOfLoop(v) => loop'[v].pc = "top"
          BY <1>1 DEF TopOfLoop
        <4> QED BY <3>1, <3>7, <4>1 DEF Succeed, Retry, MoveJobToDlq
      <3> QED BY <2>3, <3>2, <3>3, <3>4, <3>5, <3>6, <3>7
    <2> QED BY <1>7, <2>1, <2>2, <2>3 DEF LoopStep
  <1>8. CASE UNCHANGED vars \/ CleanupOldJobs \/ (\E j \in Jobs : ClientStep(j))
             \/ \E w \in Workers : TimelyArrival(w)
    <2>1. loop' = loop
      BY <1>8 DEF vars, CleanupOldJobs, ClientStep, Enqueue, RetryDlqJob,
                  DeleteDlqJob, TimelyArrival, HeartbeatArrives
    <2> QED BY <1>2, <2>1
  <1> QED BY <1>2, <1>3, <1>4, <1>5, <1>6, <1>7, <1>8 DEF TimedNext

LEMMA NextLetters ==
  TimeInv /\ LettersOfEnded /\ [TimedNext]_vars => LettersOfEnded'
  <1> SUFFICES ASSUME TimeInv, LettersOfEnded, [TimedNext]_vars
               PROVE  LettersOfEnded'
    OBVIOUS
  <1>1. Inv /\ JobsStep
    BY TimedIsNext, NextJobs DEF TimeInv
  <1>2. ASSUME NEW v \in Workers, loop'[v].pc \in {"read", "dlq"}
        PROVE  /\ DocOf(v)'.status \in Terminal
               /\ loop'[v].pc = "dlq" => loop'[v].doc.status \in Terminal
    <2>1. loop[v].pc \in {"read", "dlq"} =>
            loop[v].job \in Jobs /\ jobs[loop[v].job].status \in Terminal
      BY <1>1, HeldJob DEF LettersOfEnded, DocOf, Inv
    <2>2. CASE /\ loop'[v].pc = loop[v].pc /\ loop'[v].job = loop[v].job
               /\ loop'[v].doc = loop[v].doc
      BY <1>1, <1>2, <2>1, <2>2, EndedStays DEF LettersOfEnded, DocOf
    <2>3. CASE Fail(v) /\ loop'[v].pc = "read"
      BY <2>3, FailEnds DEF DocOf
    <2>4. CASE /\ loop[v].pc = "read" /\ loop'[v].job = loop[v].job
               /\ loop'[v].pc = "dlq"
               /\ loop'[v].doc.status = jobs[loop[v].job].status
               /\ jobs' = jobs
      BY <2>1, <2>4 DEF DocOf
    <2> QED BY <1>2, <2>2, <2>3, <2>4, ReadingLoops
  <1>3. NoLiveDeadLetter'
    <2>1. ASSUME NEW w \in Workers, MoveJobToDlq(w), NEW j \in Jobs
          PROVE  dlq'[j] = dlq[j] \/ dlq'[j].status \in Terminal
      BY <1>1, <2>1 DEF MoveJobToDlq, LettersOfEnded, Inv, TypeOK
    <2>2. CASE \E w \in Workers : MoveJobToDlq(w)
      BY <2>1, <2>2 DEF LettersOfEnded, NoLiveDeadLetter
    <2>3. CASE \A j \in Jobs : dlq'[j] \in {dlq[j], None}
      BY <2>3 DEF LettersOfEnded, NoLiveDeadLetter
    <2>4. \/ \E w \in Workers : MoveJobToDlq(w)
          \/ \A j \in Jobs : dlq'[j] \in {dlq[j], None}
      BY <1>1 DEF TimedNext, vars, TimelyTick, Tick, CleanupOldJobs, ClientStep,
           Enqueue, RetryDlqJob, DeleteDlqJob, ProcStep, Start,
           RegisterHandlers, Stop, Exit, Crash, LoopStep, LeaveLoop,
           RequeueStuck, ClaimNext, Dispatch, HandlerReturns, HandlerThrows,
           Succeed, Retry, Fail, ReadFailedJob, dbRest, Heartbeat,
           TimelyArrival, HeartbeatArrives, Inv, TypeOK
    <2> QED BY <2>2, <2>3, <2>4
  <1> QED BY <1>2, <1>3 DEF LettersOfEnded

\* On time, no dead letter is the copy of a job that will run again.
THEOREM DeadLettersAreEnded == TimedSpec => []NoLiveDeadLetter
  <1> DEFINE LInv == TimeInv /\ LettersOfEnded
  <1>1. Init => LInv
    <2>1. Init => LettersOfEnded
      BY DEF Init, LettersOfEnded, NoLiveDeadLetter
    <2> QED BY <2>1, InitTime
  <1>2. LInv /\ [TimedNext]_vars => LInv'
    BY NextTime, NextLetters
  <1>3. LInv => NoLiveDeadLetter
    BY DEF LettersOfEnded
  <1> HIDE DEF LInv
  <1> QED BY <1>1, <1>2, <1>3, PTL DEF TimedSpec

-----------------------------------------------------------------------------
(* Attempts.                                                               *)

Crashed == {p \in Procs : proc[p] = "crashed"}

\* Each crash and each failure so far pays for an attempt.
Cost == Cardinality(Crashed) + (MaxFaults - faults)

Worked(j) == \E w \in Workers : Busy(w) /\ loop[w].job = j

\* An attempt is left, or paid for, while the job waits for one, and once no
\* worker is there to count it.
Paid(j) ==
  /\ jobs[j].attempts <= Limit(j) + Cost
  /\ (\/ jobs[j].status = "queued"
      \/ jobs[j].status = "processing" /\ ~Worked(j))
     => jobs[j].attempts < Limit(j) + Cost

AttemptsPaid ==
  /\ \A j \in Jobs : Paid(j)
  /\ \A w \in Workers :
       loop[w].pc = "retry" => loop[w].attempts < maxAttempts[loop[w].job]

LEMMA LimitType ==
  \A j \in Jobs : /\ maxAttempts[j] \in Int /\ Limit(j) \in Nat
                  /\ Limit(j) >= 1 /\ Limit(j) >= maxAttempts[j]
  BY LimitsAssumption DEF Limit

LEMMA CrashedCounts ==
  /\ IsFiniteSet(Crashed) /\ Cardinality(Crashed) \in Nat
  /\ IsFiniteSet(Crashed') /\ Cardinality(Crashed') \in Nat
  BY FiniteProcsAssumption, FS_Subset, FS_CardinalityType DEF Crashed

\* Nothing is ever refunded.
LEMMA CostGrows ==
  ASSUME TypeOK, [TimedNext]_vars
  PROVE  /\ Cost \in Nat /\ Cost' \in Int /\ Cost' >= Cost
         /\ Fails => Cost' > Cost
         /\ (\E p \in Procs : Crash(p)) => Cost' > Cost
  <1>1. /\ faults' = faults \/ Fails
        /\ (\E p \in Procs : Crash(p)) => faults' = faults
    BY DEF TimedNext, vars, TimelyTick, Tick, CleanupOldJobs, ClientStep,
           Enqueue, RetryDlqJob, DeleteDlqJob, ProcStep, Start,
           RegisterHandlers, Stop, Exit, Crash, LoopStep, LeaveLoop,
           RequeueStuck, ClaimNext, Dispatch, HandlerReturns, HandlerThrows,
           Succeed, Retry, Fail, ReadFailedJob, MoveJobToDlq, Heartbeat,
           TimelyArrival, HeartbeatArrives, Answered, Fails
  <1>2. Crashed \subseteq Crashed'
    <2>1. CASE proc' = proc
      BY <2>1 DEF Crashed
    <2>2. ASSUME NEW p \in Procs, ProcStep(p) PROVE Crashed \subseteq Crashed'
      BY <2>2 DEF ProcStep, Start, RegisterHandlers, Stop, Exit, Crash, TypeOK,
                  Crashed
    <2>3. proc' = proc \/ \E p \in Procs : ProcStep(p)
      BY DEF TimedNext, vars, TimelyTick, Tick, CleanupOldJobs, ClientStep,
             Enqueue, RetryDlqJob, DeleteDlqJob, LoopStep, LeaveLoop, dbRest,
             RequeueStuck, ClaimNext, Dispatch, HandlerReturns, HandlerThrows,
             Succeed, Retry, Fail, ReadFailedJob, MoveJobToDlq, Heartbeat,
             TimelyArrival, HeartbeatArrives
    <2> QED BY <2>1, <2>2, <2>3
  <1>3. Cardinality(Crashed) <= Cardinality(Crashed')
    BY <1>2, CrashedCounts, FS_Subset
  <1>4. /\ faults \in Nat /\ MaxFaults \in Nat /\ faults <= MaxFaults
        /\ Fails => faults' = faults - 1
    BY BoundsAssumption DEF TypeOK, Fails
  <1>5. ASSUME NEW p \in Procs, Crash(p)
        PROVE  Cardinality(Crashed') = Cardinality(Crashed) + 1
    <2>1. Crashed' = Crashed \cup {p} /\ p \notin Crashed
      BY <1>5 DEF Crash, TypeOK, Crashed
    <2> QED BY <2>1, CrashedCounts, FS_AddElement
  <1>6. Cost \in Nat /\ Cost' \in Int /\ Cost' >= Cost
    BY <1>1, <1>3, <1>4, CrashedCounts DEF Cost
  <1>7. Fails => Cost' > Cost
    BY <1>3, <1>4, CrashedCounts DEF Cost
  <1>8. (\E p \in Procs : Crash(p)) => Cost' > Cost
    BY <1>1, <1>4, <1>5, CrashedCounts DEF Cost
  <1> QED BY <1>6, <1>7, <1>8

\* A job that does not move stays paid for, and gets to pay for the loss of
\* its worker.
LEMMA StillPaid ==
  ASSUME TypeOK, [TimedNext]_vars, NEW j \in Jobs, Paid(j),
         jobs'[j].attempts = jobs[j].attempts,
         \/ jobs'[j].status = jobs[j].status
         \/ jobs'[j].status = "queued" /\ jobs[j].status = "processing"
              /\ ~Worked(j)
         \/ jobs'[j].status \in Terminal \cup {NoSuchJob},
         \/ Worked(j) => Worked(j)'
         \/ Cost' > Cost
         \/ jobs'[j].status # "processing"
  PROVE  Paid(j)'
  <1>1. jobs[j].attempts \in Nat /\ Limit(j) \in Nat
    BY LimitType DEF TypeOK, JobDoc
  <1>2. Cost \in Nat /\ Cost' \in Int /\ Cost' >= Cost
    BY CostGrows
  <1> QED BY <1>1, <1>2 DEF Paid, Terminal, NoSuchJob

\* The loops but w go on working on what they work on.
LEMMA StillWorked ==
  ASSUME TimeInv, NEW w \in Workers, LoopStep(w), NEW j \in Jobs, Worked(j)
  PROVE  Worked(j)' \/ (Busy(w) /\ loop[w].job = j)
  <1>1. PICK v \in Workers : Busy(v) /\ loop[v].job = j
    BY DEF Worked
  <1>2. CASE v = w
    BY <1>1, <1>2
  <1>3. CASE v # w
    <2>1. loop'[v] = loop[v]
      BY <1>3, OtherLoops DEF TimeInv, Inv
    <2> QED BY <1>1, <2>1 DEF Worked, Busy
  <1> QED BY <1>2, <1>3

\* A worker that records an outcome holds its job, or it has succeeded.
LEMMA OutcomeOwned ==
  ASSUME TimeInv, NEW w \in Workers, loop[w].pc \in {"succeed", "retry", "fail"},
         NEW doc, Written(w, doc)
  PROVE  \/ /\ jobs' = [jobs EXCEPT ![loop[w].job] = doc]
            /\ jobs[loop[w].job].attempts = loop[w].attempts
            /\ Owned(w)
         \/ jobs' = jobs /\ jobs[loop[w].job].status = "succeeded" /\ ~Owned(w)
  <1>1. Busy(w)
    BY DEF Busy
  <1>2. loop[w].job \in Jobs
    BY <1>1, BusyJob
  <1>3. CASE Holds(w)
    BY <1>3 DEF Holds, DocOf, Owned, Written
  <1>4. CASE Done(w)
    <2>1. ~Owned(w)
      BY <1>2, <1>4, ProcsAssumption
         DEF Done, DocOf, Owned, TimeInv, Inv, LockedIffProcessing, Workers
    <2> QED BY <1>4, <2>1 DEF Written, Done, DocOf
  <1> QED BY <1>1, <1>3, <1>4 DEF TimeInv, LocksHeld, Held

LEMMA RetriesLeft ==
  ASSUME TimeInv, [TimedNext]_vars, NEW v \in Workers, loop'[v].pc = "retry"
  PROVE  \/ /\ loop[v].pc = "retry" /\ loop'[v].attempts = loop[v].attempts
            /\ loop'[v].job = loop[v].job
         \/ loop'[v].attempts < maxAttempts[loop'[v].job]
  <1>1. loop[v] \in LoopState /\ loop \in [Workers -> LoopState]
    BY DEF TimeInv, Inv, TypeOK
  <1>2. CASE loop'[v] = loop[v]
    BY <1>2
  <1>3. CASE TimelyTick
    BY <1>1, <1>3 DEF TimelyTick, Tick, LoopState
  <1>4. ASSUME NEW p \in Procs, ProcStep(p)
        PROVE  loop'[v] = loop[v] \/ loop'[v].pc \in {"off", "top"}
    BY <1>1, <1>4 DEF ProcStep, Start, RegisterHandlers, Stop, Exit, Crash,
                      LoopState
  <1>5. ASSUME NEW w \in Workers, Heartbeat(w)
        PROVE  loop'[v] = loop[v] \/ loop'[v].pc = "run"
    BY <1>1, <1>5 DEF Heartbeat, LoopState
  <1>6. ASSUME NEW w \in Workers, LoopStep(w), v # w
        PROVE  loop'[v] = loop[v]
    BY <1>6, OtherLoops DEF TimeInv, Inv
  <1>7. CASE LoopStep(v)
    <2>1. ASSUME loop[v].pc \in {"run", "succeed"}, RetryOrFail(v)
          PROVE  \/ loop'[v].attempts < maxAttempts[loop'[v].job]
                 \/ loop'[v].pc # "retry"
      <3>1. loop[v].job \in Jobs
        BY <2>1, HeldJob DEF TimeInv, Inv
      <3>2. maxAttempts[loop[v].job] \in Int /\ loop[v].attempts \in Nat
        BY <1>1, <3>1, LimitType DEF LoopState
      <3> QED BY <1>1, <2>1, <3>2 DEF RetryOrFail, LoopState
    <2>2. TopOfLoop(v) => loop'[v].pc = "top"
      BY <1>1 DEF TopOfLoop
    <2>3. ASSUME NEW pc, GoTo(v, pc) PROVE loop'[v].pc = pc
      BY <1>1, <2>3 DEF GoTo, LoopState
    <2>4. CASE ClaimNext(v)
      <3>1. ASSUME NEW j, NEW n,
                   loop' = [loop EXCEPT ![v].pc = "got", ![v].job = j,
                                        ![v].attempts = n]
            PROVE  loop'[v].pc = "got"
        BY <1>1, <3>1 DEF LoopState
      <3> QED BY <2>2, <2>4, <3>1 DEF ClaimNext
    <2>5. CASE Dispatch(v) \/ HandlerReturns(v)
      BY <1>1, <2>5 DEF Dispatch, HandlerReturns, LoopState
    <2>6. CASE ReadFailedJob(v)
      <3>1. loop'[v].pc = "dlq" \/ TopOfLoop(v)
        BY <1>1, <2>6 DEF ReadFailedJob, LoopState
      <3> QED BY <2>2, <3>1
    <2>7. CASE LeaveLoop(v) \/ RequeueStuck(v)
      BY <2>3, <2>7 DEF LeaveLoop, RequeueStuck
    <2>8. CASE Retry(v) \/ Fail(v) \/ MoveJobToDlq(v)
      BY <2>2, <2>3, <2>8 DEF Retry, Fail, MoveJobToDlq
    <2>9. CASE Succeed(v) \/ HandlerThrows(v)
      BY <2>1, <2>2, <2>9 DEF Succeed, HandlerThrows
    <2> QED BY <1>7, <2>4, <2>5, <2>6, <2>7, <2>8, <2>9 DEF LoopStep
  <1>8. CASE UNCHANGED vars \/ CleanupOldJobs \/ (\E j \in Jobs : ClientStep(j))
             \/ \E w \in Workers : TimelyArrival(w)
    BY <1>2, <1>8
       DEF vars, CleanupOldJobs, ClientStep, Enqueue, RetryDlqJob,
           DeleteDlqJob, TimelyArrival, HeartbeatArrives
  <1> QED BY <1>2, <1>3, <1>4, <1>5, <1>6, <1>7, <1>8 DEF TimedNext

\* A claim spends what was left.
LEMMA ClaimPaid ==
  ASSUME TimeInv, AttemptsPaid, [TimedNext]_vars,
         NEW w \in Workers, ClaimNext(w), NEW j \in Jobs
  PROVE  Paid(j)'
  <1>1. ~Busy(w) /\ LoopStep(w) /\ Paid(j) /\ TypeOK
    BY DEF ClaimNext, Busy, LoopStep, AttemptsPaid, TimeInv, Inv
  <1>2. Worked(j) => Worked(j)'
    BY <1>1, StillWorked
  <1>3. CASE jobs'[j] = jobs[j]
    BY <1>1, <1>2, <1>3, StillPaid
  <1>4. CASE jobs'[j] # jobs[j]
    <2>1. /\ j \in Claimable
          /\ \E age \in 0 .. claimMs :
               jobs' = [jobs EXCEPT ![j] = Claimed(jobs[j], w[1], age)]
          /\ \/ loop' = [loop EXCEPT ![w].pc = "got", ![w].job = j,
                                     ![w].attempts = jobs[j].attempts + 1]
             \/ Fails
      BY <1>1, <1>4 DEF ClaimNext, Claimable, TypeOK
    <2>2. jobs[j].status = "queued" /\ jobs[j] \in JobDoc
      BY <1>1, <2>1 DEF Claimable, TypeOK
    <2>3. \E age \in 0 .. claimMs : jobs'[j] = Claimed(jobs[j], w[1], age)
      BY <1>1, <2>1 DEF TypeOK
    <2>4. /\ jobs'[j].status = "processing"
          /\ jobs'[j].attempts = jobs[j].attempts + 1
      BY <2>2, <2>3, ClaimedType DEF Workers
    <2>5. /\ jobs[j].attempts \in Nat /\ Limit(j) \in Nat
          /\ Cost \in Nat /\ Cost' \in Int /\ Cost' >= Cost
          /\ Fails => Cost' > Cost
          /\ jobs[j].attempts < Limit(j) + Cost
      BY <1>1, <2>2, CostGrows, LimitType DEF JobDoc, Paid
    <2>6. CASE Fails
      BY <2>4, <2>5, <2>6 DEF Paid
    <2>7. CASE loop' = [loop EXCEPT ![w].pc = "got", ![w].job = j,
                                    ![w].attempts = jobs[j].attempts + 1]
      <3>1. loop'[w].pc = "got" /\ loop'[w].job = j
        BY <1>1, <2>7 DEF TypeOK, LoopState
      <3>2. Worked(j)'
        BY <3>1 DEF Worked, Busy
      <3> QED BY <2>4, <2>5, <3>2 DEF Paid
    <2> QED BY <2>1, <2>6, <2>7
  <1> QED BY <1>3, <1>4

\* An outcome: only retry queues the job again, and it has attempts left.
LEMMA OutcomePaid ==
  ASSUME TimeInv, AttemptsPaid, [TimedNext]_vars,
         NEW w \in Workers, Succeed(w) \/ Retry(w) \/ Fail(w), NEW j \in Jobs
  PROVE  Paid(j)'
  <1>1. Busy(w) /\ LoopStep(w) /\ Paid(j) /\ TypeOK
    BY DEF Succeed, Retry, Fail, Busy, LoopStep, AttemptsPaid, TimeInv, Inv
  <1>2. loop[w].job \in Jobs /\ jobs \in [Jobs -> JobDoc]
    BY <1>1, BusyJob DEF TypeOK
  <1>3. ASSUME loop[w].job # j PROVE Paid(j)'
    <2>1. jobs'[j] = jobs[j]
      BY <1>2, <1>3 DEF Succeed, Retry, Fail, Written
    <2>2. Worked(j) => Worked(j)'
      BY <1>1, <1>3, StillWorked
    <2> QED BY <1>1, <2>1, <2>2, StillPaid
  <1>4. ASSUME loop[w].job = j, jobs' = jobs PROVE Paid(j)'
    <2>1. CASE jobs[j].status = "succeeded"
      BY <1>1, <1>4, <2>1, StillPaid
    <2>2. CASE Fails
      BY <1>1, <1>4, <2>2, CostGrows, StillPaid
    <2>3. CASE jobs[j].status # "succeeded" /\ ~Fails
      <3>1. ASSUME NEW doc, Written(w, doc), doc.status \in Terminal \cup {"queued"}
            PROVE  FALSE
        <4>1. Holds(w)
          BY <1>1, <1>4, <2>3 DEF TimeInv, LocksHeld, Held, Done, DocOf
        <4>2. jobs'[j] = doc /\ jobs[j].status = "processing"
          BY <1>2, <1>4, <3>1, <4>1 DEF Holds, Owned, Written, DocOf
        <4> QED BY <1>4, <3>1, <4>2 DEF Terminal
      <3>2. Released(w) \in JobDoc
        BY <1>1, <1>2, ReleasedType
      <3>3. CASE Succeed(w)
        <4>1. [Released(w) EXCEPT !.status = "succeeded"].status = "succeeded"
          BY <3>2 DEF JobDoc
        <4> QED BY <2>3, <3>1, <3>3, <4>1 DEF Succeed, Terminal
      <3>4. CASE Retry(w)
        <4> DEFINE d == Backoff(loop[w].attempts)
        <4>1. [Released(w) EXCEPT !.status = "queued", !.delay = d,
                 !.error = "QUEUE_PROCESSING_FAILED"].status = "queued"
          BY <3>2 DEF JobDoc
        <4> QED BY <2>3, <3>1, <3>4, <4>1 DEF Retry
      <3>5. CASE Fail(w)
        <4>1. [Released(w) EXCEPT !.status = "failed",
                                  !.error = loop[w].code].status = "failed"
          BY <3>2 DEF JobDoc
        <4> QED BY <2>3, <3>1, <3>5, <4>1 DEF Fail, Terminal
      <3> QED BY <3>3, <3>4, <3>5
    <2> QED BY <2>1, <2>2, <2>3
  <1>5. ASSUME loop[w].job = j, jobs' # jobs PROVE Paid(j)'
    <2>1. Released(w) \in JobDoc /\ Released(w).attempts = jobs[j].attempts
      BY <1>1, <1>2, <1>5, ReleasedFields
    <2>2. CASE Succeed(w)
      <3> DEFINE doc == [Released(w) EXCEPT !.status = "succeeded"]
      <3>1. Written(w, doc)
        BY <1>5, <2>2 DEF Succeed
      <3>2. doc.status = "succeeded" /\ doc.attempts = jobs[j].attempts
        BY <2>1 DEF JobDoc
      <3> HIDE DEF doc
      <3>3. jobs'[j] = doc
        BY <1>2, <1>5, <3>1 DEF Written
      <3> QED BY <1>1, <3>2, <3>3, StillPaid DEF Terminal
    <2>3. CASE Fail(w)
      <3> DEFINE doc == [Released(w) EXCEPT !.status = "failed",
                                            !.error = loop[w].code]
      <3>1. Written(w, doc)
        BY <1>5, <2>3 DEF Fail
      <3>2. doc.status = "failed" /\ doc.attempts = jobs[j].attempts
        BY <2>1 DEF JobDoc
      <3> HIDE DEF doc
      <3>3. jobs'[j] = doc
        BY <1>2, <1>5, <3>1 DEF Written
      <3> QED BY <1>1, <3>2, <3>3, StillPaid DEF Terminal
    <2>4. CASE Retry(w)
      <3> DEFINE d == Backoff(loop[w].attempts)
                 doc == [Released(w) EXCEPT !.status = "queued", !.delay = d,
                                            !.error = "QUEUE_PROCESSING_FAILED"]
      <3>1. Written(w, doc) /\ loop[w].pc = "retry"
        BY <1>5, <2>4 DEF Retry
      <3>2. doc.attempts = jobs[j].attempts
        BY <2>1 DEF JobDoc
      <3> HIDE DEF doc
      <3>3. jobs'[j] = doc /\ jobs[j].attempts = loop[w].attempts
        BY <1>2, <1>5, <3>1, OutcomeOwned
      <3>4. jobs[j].attempts < maxAttempts[j]
        BY <1>5, <3>1, <3>3 DEF AttemptsPaid
      <3>5. /\ jobs[j].attempts \in Nat /\ maxAttempts[j] \in Int
            /\ Limit(j) \in Nat /\ Limit(j) >= maxAttempts[j]
            /\ Cost \in Nat /\ Cost' \in Int /\ Cost' >= Cost
        BY <1>1, <1>2, <1>5, CostGrows, LimitType DEF JobDoc
      <3> QED BY <3>2, <3>3, <3>4, <3>5 DEF Paid
    <2> QED BY <2>2, <2>3, <2>4
  <1> QED BY <1>3, <1>4, <1>5

LEMMA RequeuePaid ==
  ASSUME TimeInv, AttemptsPaid, [TimedNext]_vars,
         NEW w \in Workers, RequeueStuck(w), NEW j \in Jobs
  PROVE  Paid(j)'
  <1>1. ~Busy(w) /\ LoopStep(w) /\ Paid(j) /\ TypeOK
    BY DEF RequeueStuck, Busy, LoopStep, AttemptsPaid, TimeInv, Inv
  <1>2. Worked(j) => Worked(j)'
    BY <1>1, StillWorked
  <1>3. CASE jobs'[j] = jobs[j]
    BY <1>1, <1>2, <1>3, StillPaid
  <1>4. CASE jobs'[j] # jobs[j]
    <2>1. Stuck(w[1], j) /\ jobs'[j] = Unstuck(jobs[j])
      BY <1>4 DEF RequeueStuck
    <2>2. ~Worked(j) /\ jobs[j].status = "processing"
      BY <2>1, NeverStuck DEF Worked, Stuck, Workers
    <2>3. jobs[j] \in JobDoc
      BY <1>1 DEF TypeOK
    <2>4. jobs'[j].status = "queued" /\ jobs'[j].attempts = jobs[j].attempts
      BY <2>1, <2>3 DEF Unstuck, JobDoc
    <2> QED BY <1>1, <2>2, <2>4, StillPaid
  <1> QED BY <1>3, <1>4

LEMMA LoopStepPaid ==
  ASSUME TimeInv, AttemptsPaid, [TimedNext]_vars,
         NEW w \in Workers, LoopStep(w), NEW j \in Jobs
  PROVE  Paid(j)'
  <1>1. CASE ClaimNext(w)
    BY <1>1, ClaimPaid
  <1>2. CASE RequeueStuck(w)
    BY <1>2, RequeuePaid
  <1>3. CASE Succeed(w) \/ Retry(w) \/ Fail(w)
    BY <1>3, OutcomePaid
  <1>4. CASE \/ LeaveLoop(w) \/ Dispatch(w) \/ HandlerReturns(w)
             \/ HandlerThrows(w) \/ ReadFailedJob(w) \/ MoveJobToDlq(w)
    <2>1. jobs' = jobs /\ TypeOK /\ Paid(j)
      BY <1>4 DEF LeaveLoop, Dispatch, HandlerReturns, HandlerThrows,
                  ReadFailedJob, MoveJobToDlq, TimeInv, Inv, AttemptsPaid
    <2>2. Busy(w) => Busy(w)' /\ loop'[w].job = loop[w].job
      <3>1. loop[w] \in LoopState /\ loop \in [Workers -> LoopState]
        BY <2>1 DEF TypeOK
      <3>2. CASE LeaveLoop(w) \/ ReadFailedJob(w) \/ MoveJobToDlq(w)
        BY <3>2 DEF LeaveLoop, ReadFailedJob, MoveJobToDlq, Busy
      <3>3. CASE Dispatch(w) \/ HandlerReturns(w)
        BY <3>1, <3>3 DEF Dispatch, HandlerReturns, Busy, LoopState
      <3>4. CASE HandlerThrows(w)
        BY <3>1, <3>4 DEF HandlerThrows, RetryOrFail, Busy, LoopState
      <3> QED BY <1>4, <3>2, <3>3, <3>4
    <2>3. Worked(j) => Worked(j)'
      BY <2>2, StillWorked DEF Worked
    <2> QED BY <2>1, <2>3, StillPaid
  <1> QED BY <1>1, <1>2, <1>3, <1>4 DEF LoopStep

LEMMA NextPaid ==
  TimeInv /\ AttemptsPaid /\ [TimedNext]_vars => AttemptsPaid'
  <1> SUFFICES ASSUME TimeInv, AttemptsPaid, [TimedNext]_vars
               PROVE  AttemptsPaid'
    OBVIOUS
  <1>1. TypeOK /\ jobs \in [Jobs -> JobDoc]
    BY DEF TimeInv, Inv, TypeOK
  <1>2. ASSUME NEW j \in Jobs PROVE Paid(j)'
    <2>1. Paid(j)
      BY DEF AttemptsPaid
    <2>2. ASSUME jobs'[j].status = jobs[j].status,
                 jobs'[j].attempts = jobs[j].attempts,
                 \A w \in Workers : Busy(w) =>
                   Busy(w)' /\ loop'[w].job = loop[w].job
          PROVE  Paid(j)'
      <3>1. Worked(j) => Worked(j)'
        BY <2>2 DEF Worked
      <3> QED BY <1>1, <2>1, <2>2, <3>1, StillPaid
    <2>3. CASE UNCHANGED vars \/ CleanupOldJobs
      BY <2>2, <2>3 DEF vars, CleanupOldJobs, Busy
    <2>4. CASE TimelyTick
      <3>1. jobs'[j] = [[jobs[j] EXCEPT !.lockAge = Older(jobs[j].lockAge)]
                          EXCEPT !.delay = Sooner(jobs[j].delay)]
        BY <2>4 DEF TimelyTick, Tick
      <3>2. /\ jobs'[j].status = jobs[j].status
            /\ jobs'[j].attempts = jobs[j].attempts
        BY <1>1, <3>1 DEF JobDoc
      <3>3. ASSUME NEW w \in Workers
            PROVE  loop'[w].pc = loop[w].pc /\ loop'[w].job = loop[w].job
        BY <1>1, <2>4 DEF TimelyTick, Tick, TypeOK, LoopState
      <3> QED BY <2>2, <3>2, <3>3 DEF Busy
    <2>5. ASSUME NEW i \in Jobs, ClientStep(i) PROVE Paid(j)'
      <3>1. loop' = loop
        BY <2>5 DEF ClientStep, Enqueue, RetryDlqJob, DeleteDlqJob
      <3>2. CASE jobs'[j] = jobs[j]
        BY <2>2, <3>1, <3>2 DEF Busy
      <3>3. CASE jobs'[j] # jobs[j]
        <4>1. Created(j)
          BY <1>1, <2>5, <3>3
             DEF ClientStep, Enqueue, RetryDlqJob, DeleteDlqJob, Created
        <4>2. jobs'[j] = [[[jobs[j] EXCEPT !.status = "queued"]
                             EXCEPT !.attempts = 0] EXCEPT !.delay = 0]
          BY <1>1, <4>1 DEF Created
        <4>3. jobs'[j].attempts = 0
          BY <1>1, <4>2 DEF JobDoc
        <4>4. Limit(j) \in Nat /\ Limit(j) > 0
          BY LimitType
        <4>5. Cost' \in Int /\ Cost' >= 0
          BY <1>1, CostGrows
        <4> QED BY <4>3, <4>4, <4>5 DEF Paid
      <3> QED BY <3>2, <3>3
    <2>6. ASSUME NEW p \in Procs, ProcStep(p) PROVE Paid(j)'
      <3>1. jobs' = jobs
        BY <2>6 DEF ProcStep, Start, RegisterHandlers, Stop, Exit, Crash
      <3>2. CASE Crash(p)
        BY <1>1, <2>1, <3>1, <3>2, CostGrows, StillPaid
      <3>3. CASE Start(p)
        <4>1. \A w \in Workers : Busy(w) => w[1] # p
          BY <3>3 DEF Start, Busy, TimeInv, LoopsAlive
        <4>2. \A w \in Workers : Busy(w) => loop'[w] = loop[w]
          BY <3>3, <4>1 DEF Start
        <4> QED BY <2>2, <3>1, <4>2 DEF Busy
      <3>4. CASE RegisterHandlers(p) \/ Stop(p) \/ Exit(p)
        BY <2>2, <3>1, <3>4 DEF RegisterHandlers, Stop, Exit, Busy
      <3> QED BY <2>6, <3>2, <3>3, <3>4 DEF ProcStep
    <2>7. ASSUME NEW w \in Workers, LoopStep(w) PROVE Paid(j)'
      BY <2>7, LoopStepPaid
    <2>8. ASSUME NEW w \in Workers, Heartbeat(w) PROVE Paid(j)'
      <3>1. jobs' = jobs
        BY <2>8 DEF Heartbeat
      <3>2. ASSUME NEW v \in Workers
            PROVE  loop'[v].pc = loop[v].pc /\ loop'[v].job = loop[v].job
        BY <1>1, <2>8 DEF Heartbeat, TypeOK, LoopState
      <3> QED BY <2>2, <3>1, <3>2 DEF Busy
    <2>9. ASSUME NEW w \in Workers, TimelyArrival(w) PROVE Paid(j)'
      <3>1. loop' = loop /\ (jobs' = jobs \/ jobs' = Refreshed(w[1], sent[w]))
        BY <2>9 DEF TimelyArrival, HeartbeatArrives
      <3>2. /\ jobs'[j].status = jobs[j].status
            /\ jobs'[j].attempts = jobs[j].attempts
        BY <1>1, <3>1 DEF Refreshed, JobDoc
      <3> QED BY <2>2, <3>1, <3>2 DEF Busy
    <2> QED BY <2>3, <2>4, <2>5, <2>6, <2>7, <2>8, <2>9 DEF TimedNext
  <1>3. \A w \in Workers :
          loop'[w].pc = "retry" => loop'[w].attempts < maxAttempts[loop'[w].job]
    BY RetriesLeft DEF AttemptsPaid
  <1> QED BY <1>2, <1>3 DEF AttemptsPaid

\* On time, every attempt beyond a job's limit was paid for by a crash or by a
\* failure of the database.
THEOREM AttemptsLimited == TimedSpec => []ExtraAttemptsPaidFor
  <1> DEFINE PInv == TimeInv /\ AttemptsPaid
  <1>1. Init => PInv
    <2> SUFFICES ASSUME Init PROVE AttemptsPaid
      BY InitTime
    <2>1. \A j \in Jobs : /\ jobs[j].attempts = 0 /\ jobs[j].status = NoSuchJob
                          /\ Limit(j) \in Nat
      BY LimitType DEF Init
    <2>2. Cost \in Nat
      BY BoundsAssumption, CrashedCounts DEF Init, Cost
    <2>3. \A w \in Workers : loop[w].pc = "off"
      BY DEF Init
    <2> QED BY <2>1, <2>2, <2>3 DEF AttemptsPaid, Paid, NoSuchJob
  <1>2. PInv /\ [TimedNext]_vars => PInv'
    BY NextTime, NextPaid
  <1>3. PInv => ExtraAttemptsPaidFor
    <2> SUFFICES ASSUME PInv, NEW j \in Jobs
          PROVE  jobs[j].attempts <= Limit(j) + Cardinality(Crashed)
                                       + (MaxFaults - faults)
      BY DEF ExtraAttemptsPaidFor, Crashed
    <2>1. /\ faults \in Nat /\ MaxFaults \in Nat /\ Limit(j) \in Nat
          /\ Cardinality(Crashed) \in Nat /\ jobs[j].attempts \in Nat
      BY BoundsAssumption, LimitType, CrashedCounts
         DEF TimeInv, Inv, TypeOK, JobDoc
    <2> QED BY <2>1 DEF AttemptsPaid, Paid, Cost
  <1> HIDE DEF PInv
  <1> QED BY <1>1, <1>2, <1>3, PTL DEF TimedSpec

-----------------------------------------------------------------------------
(* Backoff.                                                                *)

LEMMA LoopStepDelays ==
  ASSUME TimeInv, NEW w \in Workers, LoopStep(w), NEW j \in Jobs
  PROVE  \/ jobs'[j].delay = jobs[j].delay
         \/ jobs'[j].delay = BackoffAfter(jobs'[j].attempts)
  <1>1. TypeOK /\ jobs \in [Jobs -> JobDoc] /\ jobs[j] \in JobDoc
    BY DEF TimeInv, Inv, TypeOK
  <1>2. CASE RequeueStuck(w)
    <2>1. Unstuck(jobs[j]).delay = jobs[j].delay
      BY <1>1 DEF Unstuck, JobDoc
    <2>2. jobs'[j] = jobs[j] \/ jobs'[j] = Unstuck(jobs[j])
      BY <1>2 DEF RequeueStuck
    <2> QED BY <2>1, <2>2
  <1>3. CASE ClaimNext(w)
    <2>1. ASSUME NEW age
          PROVE  Claimed(jobs[j], w[1], age).delay = jobs[j].delay
      <3>1. ASSUME NEW a
            PROVE  [jobs[j] EXCEPT !.status = "processing", !.lockOwner = w[1],
                       !.lockAge = a, !.attempts = jobs[j].attempts + 1].delay
                     = jobs[j].delay
        BY <1>1 DEF JobDoc
      <3> QED BY <3>1 DEF Claimed
    <2>2. \/ jobs'[j] = jobs[j]
          \/ \E age \in 0 .. claimMs : jobs'[j] = Claimed(jobs[j], w[1], age)
      BY <1>1, <1>3 DEF ClaimNext, Claimable
    <2> QED BY <2>1, <2>2
  <1>4. CASE \/ LeaveLoop(w) \/ Dispatch(w) \/ HandlerReturns(w)
             \/ HandlerThrows(w) \/ ReadFailedJob(w) \/ MoveJobToDlq(w)
    BY <1>4 DEF LeaveLoop, Dispatch, HandlerReturns, HandlerThrows,
                ReadFailedJob, MoveJobToDlq
  <1>5. CASE (Succeed(w) \/ Retry(w) \/ Fail(w)) /\ jobs'[j] # jobs[j]
    <2>1. loop[w].pc \in {"succeed", "retry", "fail"} /\ Busy(w)
      BY <1>5 DEF Succeed, Retry, Fail, Busy
    <2>2. loop[w].job = j
      BY <1>1, <1>5, BusyJob, <2>1 DEF Succeed, Retry, Fail, Written
    <2>3. /\ Released(w) \in JobDoc /\ Released(w).attempts = jobs[j].attempts
          /\ Released(w).delay = jobs[j].delay
      BY <1>1, <2>2, ReleasedType DEF Released, JobDoc
    <2>4. CASE Succeed(w)
      <3>1. [Released(w) EXCEPT !.status = "succeeded"].delay = jobs[j].delay
        BY <2>3 DEF JobDoc
      <3> QED BY <1>1, <1>5, <2>2, <2>4, <3>1 DEF Succeed, Written
    <2>5. CASE Fail(w)
      <3>1. [Released(w) EXCEPT !.status = "failed",
                                !.error = loop[w].code].delay = jobs[j].delay
        BY <2>3 DEF JobDoc
      <3> QED BY <1>1, <1>5, <2>2, <2>5, <3>1 DEF Fail, Written
    <2>6. CASE Retry(w)
      <3> DEFINE d == Backoff(loop[w].attempts)
                 doc == [Released(w) EXCEPT !.status = "queued", !.delay = d,
                                            !.error = "QUEUE_PROCESSING_FAILED"]
      <3>1. Written(w, doc)
        BY <1>5, <2>6 DEF Retry
      <3>2. doc.delay = d /\ doc.attempts = jobs[j].attempts
        <4> HIDE DEF d
        <4> QED BY <2>3 DEF JobDoc
      <3>3. d = BackoffAfter(loop[w].attempts)
        BY DEF Backoff, BackoffAfter
      <3> HIDE DEF doc, d
      <3>4. jobs'[j] = doc /\ jobs[j].attempts = loop[w].attempts
        BY <1>1, <1>5, <2>1, <2>2, <3>1, OutcomeOwned
      <3> QED BY <3>2, <3>3, <3>4
    <2> QED BY <1>5, <2>4, <2>5, <2>6
  <1> QED BY <1>2, <1>3, <1>4, <1>5 DEF LoopStep

LEMMA NextDelays ==
  ASSUME TimeInv, [TimedNext]_vars, NEW j \in Jobs
  PROVE  \/ jobs'[j].delay <= jobs[j].delay
         \/ jobs'[j].delay = BackoffAfter(jobs'[j].attempts)
  <1>1. jobs \in [Jobs -> JobDoc] /\ jobs[j] \in JobDoc /\ jobs[j].delay \in Nat
    BY DEF TimeInv, Inv, TypeOK, JobDoc
  <1>2. CASE TimelyTick
    <2>1. jobs'[j] = [[jobs[j] EXCEPT !.lockAge = Older(jobs[j].lockAge)]
                        EXCEPT !.delay = Sooner(jobs[j].delay)]
      BY <1>2 DEF TimelyTick, Tick
    <2> QED BY <1>1, <2>1 DEF JobDoc, Sooner
  <1>3. ASSUME NEW i \in Jobs, ClientStep(i)
        PROVE  jobs'[j].delay = jobs[j].delay \/ jobs'[j].delay = 0
    <2>1. jobs' = jobs \/ Created(i)
      BY <1>3 DEF ClientStep, Enqueue, RetryDlqJob, DeleteDlqJob
    <2>2. jobs[i] \in JobDoc
      BY DEF TimeInv, Inv, TypeOK
    <2>3. [[[jobs[i] EXCEPT !.status = "queued"] EXCEPT !.attempts = 0]
             EXCEPT !.delay = 0].delay = 0
      BY <2>2 DEF JobDoc
    <2>4. CASE Created(i) /\ i = j
      BY <1>1, <2>3, <2>4 DEF Created
    <2>5. CASE Created(i) /\ i # j
      BY <1>1, <2>5 DEF Created
    <2> QED BY <2>1, <2>4, <2>5
  <1>4. ASSUME NEW w \in Workers, TimelyArrival(w)
        PROVE  jobs'[j].delay = jobs[j].delay
    BY <1>1, <1>4 DEF TimelyArrival, HeartbeatArrives, Refreshed, JobDoc
  <1>5. ASSUME NEW w \in Workers, LoopStep(w)
        PROVE  \/ jobs'[j].delay = jobs[j].delay
               \/ jobs'[j].delay = BackoffAfter(jobs'[j].attempts)
    BY <1>5, LoopStepDelays
  <1>6. CASE \/ UNCHANGED vars \/ CleanupOldJobs \/ (\E p \in Procs : ProcStep(p))
             \/ \E w \in Workers : Heartbeat(w)
    BY <1>1, <1>6 DEF vars, CleanupOldJobs, ProcStep, Start, RegisterHandlers,
                      Stop, Exit, Crash, Heartbeat
  <1> QED BY <1>1, <1>2, <1>3, <1>4, <1>5, <1>6 DEF TimedNext

\* On time, a job that is retried waits as its own attempts say, whatever copy
\* the loop worked from.
THEOREM BackoffsFit == TimedSpec => BackoffFitsAttempts
  <1>1. TimeInv /\ [TimedNext]_vars =>
          [\A j \in Jobs :
             jobs'[j].delay > jobs[j].delay =>
               jobs'[j].delay = BackoffAfter(jobs'[j].attempts)]_vars
    <2> SUFFICES ASSUME TimeInv, [TimedNext]_vars, NEW j \in Jobs,
                        jobs'[j].delay > jobs[j].delay
                 PROVE  jobs'[j].delay = BackoffAfter(jobs'[j].attempts)
      OBVIOUS
    <2>1. jobs[j].delay \in Int /\ jobs'[j].delay \in Int
      <3>1. Inv /\ Inv'
        BY TimedIsNext, NextInv DEF TimeInv
      <3> QED BY <3>1 DEF Inv, TypeOK, JobDoc
    <2>2. ~(jobs'[j].delay <= jobs[j].delay)
      BY <2>1
    <2> QED BY <2>2, NextDelays
  <1> QED BY <1>1, TimedSpecInv, PTL DEF TimedSpec, BackoffFitsAttempts
=============================================================================
