------------------------------ MODULE JobQueue ------------------------------
(***************************************************************************)
(* The row of task_queue_jobs and what the operations of SqlTaskQueue      *)
(* (infrastructure/persistence/task_queue.py) write to it.  The operators  *)
(* are constant-level: the modules that own a job table (TaskQueue,        *)
(* Publishing, Generation) apply them to the rows they keep.               *)
(*                                                                         *)
(* Of the three timestamps of a row only comparisons matter.  The test     *)
(* claimed_at < now - STUCK_JOB_THRESHOLD is the flag `stuck': a claim     *)
(* clears it and the passage of time sets it.  The test run_at <= now is   *)
(* not part of the row: full-jitter backoff draws its delay from           *)
(* [0, ceiling), so a pending job may be due at once or any time later,    *)
(* and the using module says when it is.                                   *)
(***************************************************************************)
EXTENDS Naturals

JobStatuses == {"absent", "pending", "running", "succeeded", "dead"}

\* A job row.  "absent" stands for a row that was never inserted.
JobRows == [status: JobStatuses, attempts: Nat, stuck: BOOLEAN]

NoJob == [status |-> "absent", attempts |-> 0, stuck |-> FALSE]

\* The INSERT of TaskQueue.enqueue.
Enqueued == [status |-> "pending", attempts |-> 0, stuck |-> FALSE]

\* The UPDATE of TaskQueue.claim: claimed_at is now, so the job is not stuck.
Claimed(job) == [job EXCEPT !.status = "running", !.stuck = FALSE]

\* Mutant: complete() forgets the status.
CompletedNot(job) == job

\* The UPDATE of TaskQueue.complete.  Neither the current status nor the
\* claimant is part of its WHERE clause.
Completed(job) == [job EXCEPT !.status = "succeeded"]

\* Mutant: > for >= in the retry-or-dead decision.
FailedAsLate(job, seen, max_attempts) ==
    [job EXCEPT !.status = IF seen + 1 > max_attempts THEN "dead" ELSE "pending",
                !.attempts = seen + 1]

\* The UPDATE of TaskQueue.fail after its get() returned a row with `seen'
\* attempts.  The row may have moved on since; fail() does not look again.
FailedAs(job, seen, max_attempts) ==
    [job EXCEPT !.status = IF seen + 1 >= max_attempts THEN "dead" ELSE "pending",
                !.attempts = seen + 1]

\* TaskQueue.fail when nothing intervenes between its get() and its UPDATE.
Failed(job, max_attempts) == FailedAs(job, job.attempts, max_attempts)

\* Mutants: the reaper's WHERE clause without claimed_at, without status, and
\* with the wrong status.
ReapableFresh(job) == job.status = "running"
ReapableAnyStatus(job) == job.stuck
ReapablePending(job) == job.status = "pending" /\ job.stuck

\* The rows TaskQueue.reap_stuck selects.
Reapable(job) == job.status = "running" /\ job.stuck

\* A job the queue still owes an execution or an outcome.
Unsettled(job) == job.status \in {"pending", "running"}
=============================================================================
