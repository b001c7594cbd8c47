------------------------- MODULE JobQueueConfigured -------------------------
(***************************************************************************)
(* JobQueueTimed with the settings environment.md describes: the heartbeat *)
(* extends the lock before it times out.  Nothing in the code enforces the *)
(* assumption, for each setting is validated alone.                        *)
(***************************************************************************)
EXTENDS JobQueueTimed

\* transitMs counts twice: a heartbeat that was sent just before its job was
\* retried, and claimed again by the same process, sets the new lock back.
ASSUME HeartbeatAssumption ==
  /\ claimMs <= transitMs
  /\ transitMs <= heartbeatMs
  /\ heartbeatMs + 2 * transitMs + maxSkew <= visibilityMs
=============================================================================
