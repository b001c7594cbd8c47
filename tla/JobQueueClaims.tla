--------------------------- MODULE JobQueueClaims ---------------------------
(***************************************************************************)
(* What the documents and the comments of the queue say of it, and the     *)
(* code does not do.  Each of these is checked to be violated.             *)
(***************************************************************************)
EXTENDS JobQueueTimed

\* dead-letter.controller.ts:71, "DLQ job retried successfully": the
\* job of an existing dead letter can be submitted again.
DlqRetrySucceeds == \A j \in Jobs : dlq[j] # None => ~DuplicateKey(j)

\* dead-letter-job.schema.ts:9, "Stores permanently failed jobs": a dead
\* letter is the record of a job that failed.
DlqStoresFailedJobs == \A j \in Jobs : dlq[j] # None => dlq[j].status = "failed"

\* queue-imports.md:33, "After max attempts, job moves to dead letter queue":
\* a job of a known type fails after maxAttempts, not before.
KnownTypesUseTheirAttempts ==
  \A j \in Routable :
    jobs[j].status = "failed" => jobs[j].attempts >= maxAttempts[j]

\* environment.md:49, "Failed jobs move here after max attempts": a job that a
\* loop has just recorded as failed gets its dead letter.
FailedReachesDlq ==
  \A j \in Jobs :
    (\E w \in Workers : loop[w].pc = "read" /\ loop[w].job = j)
      ~> dlq[j] # None
=============================================================================
