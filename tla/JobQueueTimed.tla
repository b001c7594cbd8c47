--------------------------- MODULE JobQueueTimed ---------------------------
(***************************************************************************)
(* JobQueue when its timers are honoured: no tick passes while a reply of  *)
(* the database is awaited with a job in hand, none while a heartbeat is   *)
(* due, and a heartbeat is applied within transitMs of being sent, a claim *)
(* within claimMs of reading the clock.  This is the regime the lock       *)
(* timeout is configured for, and the only one in which it can promise     *)
(* that a job has one worker at a time; JobQueueConfigured says of which   *)
(* settings this is true.                                                  *)
(***************************************************************************)
EXTENDS JobQueue

CONSTANT transitMs      \* the longest a heartbeat is on its way, in ticks

ASSUME FiniteProcsAssumption == IsFiniteSet(Procs)
ASSUME TransitAssumption == transitMs \in Nat

\* Steps that take no time: the reply to a claim, the write of an outcome,
\* the heartbeat at the end of its interval, and its arrival in the end.
Urgent(w) ==
  \/ loop[w].pc \in {"got", "succeed", "retry", "fail"}
  \/ loop[w].pc = "run" /\ loop[w].beat = heartbeatMs
  \/ sent[w] # None /\ sent[w].age = behind[w[1]] + transitMs

TimelyTick == Tick /\ \A w \in Workers : ~Urgent(w)

TimelyArrival(w) == HeartbeatArrives(w) /\ Answered

TimedNext ==
  \/ TimelyTick
  \/ CleanupOldJobs
  \/ \E j \in Jobs : ClientStep(j)
  \/ \E p \in Procs : ProcStep(p)
  \/ \E w \in Workers : LoopStep(w) \/ Heartbeat(w) \/ TimelyArrival(w)

TimedSpec == Init /\ [][TimedNext]_vars

\* Time goes on, a process that was started comes up, its event loop serves
\* every loop and timer, and handlers return.  Crashes, stops and clients are
\* owed nothing.
FairSpec ==
  /\ TimedSpec
  /\ WF_vars(TimelyTick)
  /\ \A p \in Procs : WF_vars(Start(p)) /\ WF_vars(RegisterHandlers(p))
  /\ \A w \in Workers : /\ WF_vars(LoopStep(w))
                        /\ WF_vars(Heartbeat(w)) /\ WF_vars(TimelyArrival(w))

-----------------------------------------------------------------------------
\* A loop between the claim of a job and the write of its outcome.
Busy(w) == loop[w].pc \in {"got", "run", "succeed", "retry", "fail"}

\* No two loops, of one process or of two, work on the same job.
OneWorkerPerJob ==
  \A v, w \in Workers :
    v # w /\ Busy(v) /\ Busy(w) => loop[v].job # loop[w].job

\* A loop that is working holds the lock, and holds it long enough: it is
\* never older than the heartbeat interval and two transits, so that no
\* process whose clock is at most maxSkew ahead takes it for stuck.  (After
\* a lost reply to succeed the job has succeeded, and has no lock.)
WorkerHoldsLock ==
  \A w \in Workers :
    Busy(w) =>
      \/ /\ jobs[loop[w].job].status = "processing"
         /\ Owned(w)
         /\ jobs[loop[w].job].lockAge
              <= behind[w[1]] + heartbeatMs + 2 * transitMs
         /\ loop[w].attempts = jobs[loop[w].job].attempts
      \/ /\ jobs[loop[w].job].status = "succeeded"
         /\ loop[w].pc \in {"retry", "fail"}

\* A dead letter is never a copy of a job that will run again.
NoLiveDeadLetter ==
  \A j \in Jobs : dlq[j] # None => dlq[j].status \in Terminal

\* A job is tried once whatever its limit.
Limit(j) == IF maxAttempts[j] < 1 THEN 1 ELSE maxAttempts[j]

\* Each attempt beyond the limit is the price of a crash or of a database
\* failure: without them maxAttempts is a limit.
ExtraAttemptsPaidFor ==
  \A j \in Jobs :
    jobs[j].attempts <= Limit(j)
                          + Cardinality({p \in Procs : proc[p] = "crashed"})
                          + (MaxFaults - faults)

\* What the backoff settings make of a job's n-th attempt.
BackoffAfter(n) ==
  LET d == backoffBaseMs * backoffFactor ^ (n - 1)
  IN  IF d \in 1 .. backoffMaxMs THEN d ELSE backoffMaxMs

\* A retried job waits as its stored attempts say.  retryOrFail computes the
\* wait from a copy as old as the claim, and writes it to whatever document
\* its process holds by then: on time that is the document it copied.
BackoffFitsAttempts ==
  [][\A j \in Jobs :
       jobs'[j].delay > jobs[j].delay =>
         jobs'[j].delay = BackoffAfter(jobs'[j].attempts)]_vars

\* Every job submitted ends, though processes crash and the database fails.
EveryJobEnds ==
  \A j \in Jobs : Exists(j) ~> jobs[j].status \in Terminal
=============================================================================
