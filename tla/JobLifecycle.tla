---------------------------- MODULE JobLifecycle ----------------------------
(***************************************************************************)
(* What the queue promises about one submission, with no workers, locks or *)
(* clocks: a job waits, is tried, is given back or brought to one of two   *)
(* ends, and an end is for ever.  JobQueue is shown to implement this.     *)
(***************************************************************************)
EXTENDS Integers

CONSTANTS Jobs, maxAttempts

VARIABLES
  phase,   \* where each job is: its status field, or "absent"
  tries,   \* how often it was taken
  cause    \* why it failed

lifecycleVars == <<phase, tries, cause>>

LifecycleInit ==
  /\ phase = [j \in Jobs |-> "absent"]
  /\ tries = [j \in Jobs |-> 0]
  /\ cause = [j \in Jobs |-> "none"]

\* A job is submitted once.
Submit(j) ==
  /\ phase[j] = "absent"
  /\ phase' = [phase EXCEPT ![j] = "queued"]
  /\ UNCHANGED <<tries, cause>>

Take(j) ==
  /\ phase[j] = "queued"
  /\ phase' = [phase EXCEPT ![j] = "processing"]
  /\ tries' = [tries EXCEPT ![j] = @ + 1]
  /\ UNCHANGED cause

\* One job after a failed try, or at once all those whose worker went silent.
GiveBack(given) ==
  /\ \A j \in given : phase[j] = "processing"
  /\ phase' = [j \in Jobs |-> IF j \in given THEN "queued" ELSE phase[j]]
  /\ UNCHANGED <<tries, cause>>

Complete(j) ==
  /\ phase[j] = "processing"
  /\ phase' = [phase EXCEPT ![j] = "succeeded"]
  /\ UNCHANGED <<tries, cause>>

Abandon(j, why) ==
  /\ phase[j] = "processing"
  /\ why = "QUEUE_PROCESSING_FAILED" => tries[j] >= maxAttempts[j]
  /\ phase' = [phase EXCEPT ![j] = "failed"]
  /\ cause' = [cause EXCEPT ![j] = why]
  /\ UNCHANGED tries

LifecycleNext ==
  \/ \E j \in Jobs :
       \/ Submit(j) \/ Take(j) \/ Complete(j)
       \/ \E why \in {"QUEUE_PROCESSING_FAILED", "QUEUE_INVALID_TYPE"} :
            Abandon(j, why)
  \/ \E given \in SUBSET Jobs : GiveBack(given)

LifecycleSpec == LifecycleInit /\ [][LifecycleNext]_lifecycleVars
=============================================================================
