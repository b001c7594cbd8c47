------------------------ MODULE JobRefinementProofs ------------------------
(***************************************************************************)
(* JobQueue implements JobLifecycle: each way a step moves the jobs        *)
(* (JobsStep) is a step of the lifecycle.                                  *)
(***************************************************************************)
EXTENDS JobQueueProofs

\* A job that was never submitted was never tried.
AbsentUntried == \A j \in Jobs : ~Exists(j) => jobs[j].attempts = 0

RefinementInv == FailInv /\ AbsentUntried

LEMMA NextAbsent ==
  ASSUME Inv, AbsentUntried, [Next]_vars
  PROVE  AbsentUntried'
  <1> SUFFICES ASSUME NEW j \in Jobs, jobs'[j].status = NoSuchJob
               PROVE  jobs'[j].attempts = 0
    BY DEF AbsentUntried, Exists
  <1>1. ~Exists(j)
    BY NextJobs, ExistsForEver DEF Exists
  <1>2. \A w \in Workers : ~Recorded(w, j)
    BY DEF Recorded, NoSuchJob
  <1>3. Kept(j)
    BY <1>2, NextJobs
       DEF JobsStep, OthersKept, Requeued, Submitted, Taken, NoSuchJob
  <1> QED BY <1>1, <1>3 DEF Kept, AbsentUntried

LEMMA SpecRefinementInv == Spec => []RefinementInv
  <1>1. Init => AbsentUntried
    BY DEF Init, AbsentUntried
  <1>2. FailInv /\ AbsentUntried /\ [Next]_vars => AbsentUntried'
    BY NextAbsent DEF FailInv
  <1> QED BY <1>1, <1>2, SpecFailInv, PTL DEF Spec, RefinementInv

-----------------------------------------------------------------------------
(* The mapped variables, job by job.                                       *)

Cause(j) == IF jobs[j].status = "failed" THEN jobs[j].error ELSE "none"

phaseMap == [j \in Jobs |-> jobs[j].status]
triesMap == [j \in Jobs |-> jobs[j].attempts]
causeMap == [j \in Jobs |-> Cause(j)]

\* The mapped state differs from the next one in job j only.
LEMMA OthersMapped ==
  ASSUME NEW j \in Jobs, OthersKept(j)
  PROVE  /\ phaseMap' = [phaseMap EXCEPT ![j] = jobs'[j].status]
         /\ triesMap' = [triesMap EXCEPT ![j] = jobs'[j].attempts]
         /\ causeMap' = [causeMap EXCEPT ![j] = Cause(j)']
  BY DEF OthersKept, Kept, phaseMap, triesMap, causeMap, Cause

LEMMA SameTries ==
  ASSUME NEW j \in Jobs, OthersKept(j), jobs'[j].attempts = jobs[j].attempts
  PROVE  triesMap' = triesMap
  BY OthersMapped DEF triesMap

LEMMA SameCause ==
  ASSUME NEW j \in Jobs, OthersKept(j),
         jobs[j].status # "failed", jobs'[j].status # "failed"
  PROVE  causeMap' = causeMap
  BY OthersMapped DEF causeMap, Cause

LEMMA GivenBack ==
  ASSUME \A j \in Jobs : Kept(j) \/ Requeued(j)
  PROVE  \E given \in SUBSET Jobs : Lifecycle!GiveBack(given)
  <1> DEFINE given == {j \in Jobs : ~Kept(j)}
  <1>1. \A j \in given : jobs[j].status = "processing" /\ Requeued(j)
    BY DEF Requeued, Stuck
  <1>2. phaseMap' = [j \in Jobs |-> IF j \in given THEN "queued"
                                                  ELSE phaseMap[j]]
    BY <1>1 DEF phaseMap, Kept, Requeued
  <1>3. triesMap' = triesMap /\ causeMap' = causeMap
    BY <1>1 DEF triesMap, causeMap, Cause, Kept, Requeued
  <1> QED BY <1>1, <1>2, <1>3
          DEF Lifecycle!GiveBack, phaseMap, triesMap, causeMap, Cause

LEMMA SubmitMapped ==
  ASSUME AbsentUntried, NEW j \in Jobs, OthersKept(j), Submitted(j)
  PROVE  Lifecycle!Submit(j)
  <1>1. phaseMap' = [phaseMap EXCEPT ![j] = "queued"]
    BY OthersMapped DEF Submitted
  <1>2. triesMap' = triesMap
    BY SameTries DEF Submitted, AbsentUntried
  <1>3. causeMap' = causeMap
    BY SameCause DEF Submitted, Exists, NoSuchJob
  <1> QED BY <1>1, <1>2, <1>3
          DEF Lifecycle!Submit, Submitted, Exists, NoSuchJob,
              phaseMap, triesMap, causeMap, Cause

LEMMA TakeMapped ==
  ASSUME NEW j \in Jobs, OthersKept(j), Taken(j)
  PROVE  Lifecycle!Take(j)
  <1>1. phaseMap' = [phaseMap EXCEPT ![j] = "processing"]
    BY OthersMapped DEF Taken
  <1>2. triesMap' = [triesMap EXCEPT ![j] = triesMap[j] + 1]
    BY OthersMapped DEF Taken, triesMap
  <1>3. causeMap' = causeMap
    BY SameCause DEF Taken
  <1> QED BY <1>1, <1>2, <1>3
          DEF Lifecycle!Take, Taken, phaseMap, triesMap, causeMap, Cause

LEMMA RecordMapped ==
  ASSUME FailInv, NEW j \in Jobs, OthersKept(j), NEW w \in Workers,
         Recorded(w, j)
  PROVE  Lifecycle!LifecycleNext
  <1>1. jobs[j].status = "processing"
    BY OwnedIsProcessing DEF FailInv, Recorded
  <1>2. triesMap' = triesMap
    BY SameTries DEF Recorded
  <1>3. CASE jobs'[j].status = "succeeded"
    <2>1. phaseMap' = [phaseMap EXCEPT ![j] = "succeeded"]
      BY <1>3, OthersMapped
    <2>2. causeMap' = causeMap
      BY <1>1, <1>3, SameCause
    <2>3. Lifecycle!Complete(j)
      BY <1>1, <1>2, <2>1, <2>2
         DEF Lifecycle!Complete, phaseMap, triesMap, causeMap, Cause
    <2> QED BY <2>3 DEF Lifecycle!LifecycleNext
  <1>4. CASE jobs'[j].status = "queued"
    <2>1. phaseMap' = [i \in Jobs |-> IF i \in {j} THEN "queued"
                                                  ELSE phaseMap[i]]
      BY <1>4, OthersMapped DEF phaseMap
    <2>2. causeMap' = causeMap
      BY <1>1, <1>4, SameCause
    <2>3. Lifecycle!GiveBack({j})
      BY <1>1, <1>2, <2>1, <2>2
         DEF Lifecycle!GiveBack, phaseMap, triesMap, causeMap, Cause
    <2> QED BY <2>3 DEF Lifecycle!LifecycleNext
  <1>5. CASE jobs'[j].status = "failed"
    <2>1. loop[w].pc = "fail" /\ loop[w].job = j
      BY <1>5 DEF Recorded
    <2>2. Decided(w)
      BY <2>1 DEF FailInv, FailsDecided
    <2>3. PICK why \in {"QUEUE_PROCESSING_FAILED", "QUEUE_INVALID_TYPE"} :
                 why = loop[w].code
      BY <2>2 DEF Decided
    <2>4. /\ loop[w].attempts <= jobs[j].attempts
          /\ loop[w].attempts \in Nat /\ jobs[j].attempts \in Nat
          /\ maxAttempts[j] \in Int
      BY <2>1, JobsAssumption, LimitsAssumption
         DEF FailInv, SnapshotIsPast, Inv, TypeOK, LoopState, JobDoc
    <2>5. why = "QUEUE_PROCESSING_FAILED" => jobs[j].attempts >= maxAttempts[j]
      BY <2>1, <2>2, <2>3, <2>4 DEF Decided
    <2>6. phaseMap' = [phaseMap EXCEPT ![j] = "failed"]
      BY <1>5, OthersMapped
    <2>7. causeMap' = [causeMap EXCEPT ![j] = why]
      <3>1. Cause(j)' = why
        BY <1>5, <2>3 DEF Cause, Recorded
      <3> QED BY <3>1, OthersMapped
    <2>8. Lifecycle!Abandon(j, why)
      BY <1>1, <1>2, <2>5, <2>6, <2>7
         DEF Lifecycle!Abandon, phaseMap, triesMap, causeMap, Cause
    <2> QED BY <2>8 DEF Lifecycle!LifecycleNext
  <1> QED BY <1>3, <1>4, <1>5 DEF Recorded

LEMMA JobsStepMapped ==
  ASSUME RefinementInv, JobsStep
  PROVE  Lifecycle!LifecycleNext
  <1>1. CASE \A j \in Jobs : Kept(j) \/ Requeued(j)
    BY <1>1, GivenBack DEF Lifecycle!LifecycleNext
  <1>2. ASSUME NEW j \in Jobs, OthersKept(j),
               Submitted(j) \/ Taken(j) \/ \E w \in Workers : Recorded(w, j)
        PROVE  Lifecycle!LifecycleNext
    BY <1>2, SubmitMapped, TakeMapped, RecordMapped
       DEF RefinementInv, Lifecycle!LifecycleNext
  <1> QED BY <1>1, <1>2 DEF JobsStep

\* Every behaviour of the queue is one of the lifecycle of its jobs.
THEOREM LifecycleImplemented == Spec => ImplementsLifecycle
  <1>1. Init => Lifecycle!LifecycleInit
    BY DEF Init, Lifecycle!LifecycleInit, NoSuchJob
  <1>2. RefinementInv /\ [Next]_vars
          => [Lifecycle!LifecycleNext]_(Lifecycle!lifecycleVars)
    BY NextJobs, JobsStepMapped DEF RefinementInv, FailInv
  <1> QED BY <1>1, <1>2, SpecRefinementInv, PTL
          DEF Spec, ImplementsLifecycle, Lifecycle!LifecycleSpec
=============================================================================
