------------------------------ MODULE QueueJob ------------------------------
(***************************************************************************)
(* One BullMQ job under a fixed job id, as the queue services, processors  *)
(* and recovery schedulers use it: [state, made, owner] with the attempts  *)
(* made so far and the worker that holds it.  "waiting" includes the jobs  *)
(* a backoff or moveToDelayed delays.                                      *)
(***************************************************************************)
EXTENDS Naturals

CONSTANTS
  Holders,     \* workers that may hold the job
  NoOne,       \* the owner of a job that is not active
  Attempts     \* opts.attempts

JobStates == {"absent", "waiting", "active", "completed", "failed"}

Jobs == [state : JobStates, made : 0..Attempts, owner : Holders \cup {NoOne}]

\* A job no worker holds, or none.
Idle(state, made) == [state |-> state, made |-> made, owner |-> NoOne]
NoJob == Idle("absent", 0)
Queued(made) == Idle("waiting", made)

Taken(job, w) == [job EXCEPT !.state = "active", !.owner = w]

\* The job is active and was not given to another worker meanwhile.
Holds(job, w) == job.state = "active" /\ job.owner = w

\* Mutant: every error leads to another attempt.
M_Thrown(job) == Queued(job.made + 1)

\* The worker's function returns, throws DelayedError, or throws: a thrown
\* error leads to another attempt, the last one to a failed job.  Attempts
\* beyond the last (a failed job that is retried) are not counted further.
Completed(job) == Idle("completed", job.made)
Delayed(job) == Queued(job.made)
Thrown(job) == IF job.made + 1 < Attempts THEN Queued(job.made + 1)
               ELSE Idle("failed", Attempts)

\* BullMQ finds the lock of an active job expired: it queues the job again,
\* or fails it if that happened before.
Stalled(job) == {Queued(job.made), Idle("failed", job.made)}

\* add leaves a job that exists under the id alone.
Added(job) == IF job.state = "absent" THEN Queued(0) ELSE job

\* Mutant: a job that has ended is taken for one that waits.
M_Ensured(job) == Added(job)

\* ensureJob: a failed job is retried, a completed one removed and added
\* anew, a missing one added, any other left as it is.
Ensured(job) ==
  IF job.state = "failed" THEN Queued(job.made)
  ELSE IF job.state \in {"completed", "absent"} THEN Queued(0)
  ELSE job

\* ensureJob reads the state of the job before it acts on it: when a worker
\* gets in between, or a call throws, the job is left as it was found then,
\* or removed and not added.
Overtaken(job) == {job} \cup {j \in {NoJob} : job.state = "completed"}

\* The clean-up after a termination spares active and completed jobs.
Removed(job) == IF job.state \in {"active", "completed"} THEN job ELSE NoJob
=============================================================================
