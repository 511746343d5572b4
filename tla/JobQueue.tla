------------------------------ MODULE JobQueue ------------------------------
(***************************************************************************)
(* What the services rely on of BullMQ, for the job of one deduplicated    *)
(* key: enqueueDeduped() adds it, a worker runs it under a lock, a run     *)
(* that throws is retried after a delay and dead-lettered at the last      *)
(* attempt.  A worker that does not renew its lock loses the job to        *)
(* another one (the job is "stalled") and goes on without knowing.         *)
(***************************************************************************)
EXTENDS Naturals

CONSTANTS
  Run,       \* executions of the processor that may be under way
  Attempts   \* JobsOptions.attempts

ASSUME JobQueueAssumption ==
  /\ "nobody" \notin Run
  /\ Attempts \in Nat \ {0}

Job == [state : {"none", "waiting", "active", "delayed", "failed"},
        made : 0 .. Attempts, stalled : BOOLEAN, holder : Run \cup {"nobody"}]

NoJob == [state |-> "none", made |-> 0, stalled |-> FALSE, holder |-> "nobody"]
NewJob == [NoJob EXCEPT !.state = "waiting"]

\* Queue.add() under a custom id: ignored if the id exists, in any state.
Added(j) == IF j.state = "none" THEN NewJob ELSE j

\* Job.remove() goes by the id and refuses a job that is running.
Cleared(j) == IF j.state = "active" THEN j ELSE NoJob

-----------------------------------------------------------------------------
(* enqueueDeduped(), one step per call to Redis                            *)

Enqueuing == {"checking", "clearing", "adding"}

\* Mutant: a plain add(), which a dead-lettered job makes a no-op.
AddOnly(at, j) == IF at = "adding" THEN "idle" ELSE "adding"

\* getJob() and isFailed(), remove() if it has failed, add().
EnqueueMoves(at, j) ==
  CASE at = "checking" -> IF j.state = "failed" THEN "clearing" ELSE "adding"
    [] at = "clearing" -> "adding"
    [] at = "adding" -> "idle"

EnqueueSends(at, j) ==
  CASE at = "checking" -> j
    [] at = "clearing" -> Cleared(j)
    [] at = "adding" -> Added(j)

-----------------------------------------------------------------------------
(* The worker's side                                                       *)

Taken(j, r) == [j EXCEPT !.state = "active", !.holder = r]
Promoted(j) == [j EXCEPT !.state = "waiting"]

\* What a run that has lost its lock reports is refused.
IfHolder(j, r, k) == IF j.holder = r THEN k ELSE j

\* removeOnComplete is set on every queue.
Completed(j, r) == IfHolder(j, r, NoJob)

\* Mutant: attempts are never exhausted.
RefusedAgain(j) == [j EXCEPT !.state = "delayed", !.made = @ + 1, !.holder = "nobody"]

\* Another attempt after the backoff, or dead-lettered and kept.
Refused(j) ==
  [j EXCEPT !.state = IF j.made + 1 < Attempts THEN "delayed" ELSE "failed",
            !.made = @ + 1, !.holder = "nobody"]

Thrown(j, r) == IfHolder(j, r, Refused(j))

\* moveToDelayed(): the attempt does not count.
Deferred(j, r) ==
  IfHolder(j, r, [j EXCEPT !.state = "delayed", !.holder = "nobody"])

\* maxStalledCount is 1: a job that stalls again is failed.
Stalled(j) ==
  [j EXCEPT !.state = IF j.stalled THEN "failed" ELSE "waiting",
            !.stalled = TRUE, !.holder = "nobody"]
=============================================================================
