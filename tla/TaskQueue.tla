------------------------------ MODULE TaskQueue ------------------------------
(***************************************************************************)
(* The durable work list of decision D19: outbox events, the relay that    *)
(* turns them into task_queue_jobs rows, the workers of one job type that  *)
(* claim, complete and fail those rows, and the reaper of stuck jobs, all  *)
(* for one tenant.  Claims of one job_type never see rows of another, so   *)
(* the queues of two types do not interact.                                *)
(*                                                                         *)
(* Every use case is one READ COMMITTED transaction.  A step of this       *)
(* module is a transaction where that is indistinguishable from what the   *)
(* database does, and is split where it is not:                            *)
(*   - the relay reads the unpublished events without locking them;        *)
(*   - a start transaction holds the row lock of the job it claims until   *)
(*     it commits or rolls back, and concurrent claims skip that row;      *)
(*   - fail() reads `attempts' without a lock and writes it back later.    *)
(* complete() is one UPDATE; reap_stuck() locks the rows it then fails.    *)
(***************************************************************************)
EXTENDS JobQueue, SequencesExt

CONSTANTS
    MaxEvents,      \* bound: events the use cases write to the outbox
    Relays,         \* concurrent invocations of RelayOutboxEventsForTenant
    RelayLimit,     \* its `limit' argument
    Workers,        \* worker processes of this job type
    MaxAttempts,    \* max_attempts of every job
    SlowWorkers     \* may a live worker outlast STUCK_JOB_THRESHOLD?

Events == 1..MaxEvents      \* in the order of created_at

\* A relay enqueues an event at most once: it publishes it in the same
\* transaction.  So the event and the relay name the job row.
JobIds == Events \X Relays

ASSUME TaskQueueAssumptions ==
    /\ MaxEvents \in Nat
    /\ RelayLimit \in Nat \ {0}
    /\ MaxAttempts \in Nat \ {0}
    /\ SlowWorkers \in BOOLEAN

NoOne == <<0, "none">>     \* the job of an idle worker: no event is numbered 0

VARIABLES
    emitted,    \* number of rows of outbox_events
    published,  \* the events with a published_at
    relay,      \* relay |-> the batch its open transaction has read
    jobs,       \* task_queue_jobs
    line,       \* the pending jobs whose run_at has come, by run_at
    worker,     \* what each worker is doing, to which job
    executed,   \* job |-> how often a worker started on it (history)
    done        \* job |-> how often a worker committed its effects (history)

vars == <<emitted, published, relay, jobs, line, worker, executed, done>>
outbox == <<emitted, published, relay>>
history == <<executed, done>>

\* pc: idle; claiming = start transaction open, row locked; working = after
\* the start transaction, the provider call; failing = fail() has read
\* `seen' attempts and has not written yet.
WorkerStates == [pc: {"idle", "claiming", "working", "failing"},
                 job: JobIds \cup {NoOne},
                 seen: Nat]

Idle == [pc |-> "idle", job |-> NoOne, seen |-> 0]

TypeOK ==
    /\ emitted \in 0..MaxEvents
    /\ published \in SUBSET Events
    /\ relay \in [Relays -> SUBSET Events]
    /\ jobs \in [JobIds -> JobRows]
    /\ line \in Seq(JobIds)
    /\ worker \in [Workers -> WorkerStates]
    /\ executed \in [JobIds -> Nat]
    /\ done \in [JobIds -> Nat]

Init ==
    /\ emitted = 0
    /\ published = {}
    /\ relay = [r \in Relays |-> {}]
    /\ jobs = [j \in JobIds |-> NoJob]
    /\ line = <<>>
    /\ worker = [w \in Workers |-> Idle]
    /\ executed = [j \in JobIds |-> 0]
    /\ done = [j \in JobIds |-> 0]

------------------------------------------------------------------------------
(* The outbox and its relay *)

\* OutboxEventRepository.add, in the transaction of the use case that
\* changed the state the event is about.
EmitEvent ==
    /\ emitted < MaxEvents
    /\ emitted' = emitted + 1
    /\ UNCHANGED <<published, relay, jobs, line, worker, history>>

\* OutboxEventRepository.list_unpublished: the oldest rows, no lock.
OldestUnpublished ==
    LET open == (1..emitted) \ published
    IN  {e \in open : Cardinality({f \in open : f < e}) < RelayLimit}

\* Mutant: the events are marked published when they are read.
RelayReadMarks(r) ==
    /\ relay[r] = {}
    /\ OldestUnpublished # {}
    /\ relay' = [relay EXCEPT ![r] = OldestUnpublished]
    /\ published' = published \cup OldestUnpublished
    /\ UNCHANGED <<emitted, jobs, line, worker, history>>

\* RelayOutboxEventsForTenant opens its transaction and reads its batch.
RelayRead(r) ==
    /\ relay[r] = {}
    /\ OldestUnpublished # {}
    /\ relay' = [relay EXCEPT ![r] = OldestUnpublished]
    /\ UNCHANGED <<emitted, published, jobs, line, worker, history>>

\* It enqueues one job per event, marks each event published and commits.
RelayCommit(r) ==
    /\ relay[r] # {}
    /\ jobs' = [j \in JobIds |-> IF j[2] = r /\ j[1] \in relay[r]
                                 THEN Enqueued ELSE jobs[j]]
    /\ published' = published \cup relay[r]
    /\ relay' = [relay EXCEPT ![r] = {}]
    /\ UNCHANGED <<emitted, line, worker, history>>

\* The relay dies, or one of its statements raises: the transaction is
\* rolled back.
RelayCrash(r) ==
    /\ relay[r] # {}
    /\ relay' = [relay EXCEPT ![r] = {}]
    /\ UNCHANGED <<emitted, published, jobs, line, worker, history>>

------------------------------------------------------------------------------
(* The queue and its workers *)

\* The clock reaches run_at of a pending job: it queues behind the jobs
\* whose run_at came earlier.
BecomeDue(j) ==
    /\ jobs[j].status = "pending"
    /\ \A i \in DOMAIN line : line[i] # j
    /\ line' = Append(line, j)
    /\ UNCHANGED <<outbox, jobs, worker, history>>

Holds(w, j) == worker[w].pc = "claiming" /\ worker[w].job = j

\* TaskQueue.claim: ORDER BY run_at LIMIT 1 FOR UPDATE SKIP LOCKED.
ClaimBegin(w) ==
    /\ worker[w].pc = "idle"
    /\ \E i \in DOMAIN line :
          /\ \A v \in Workers : ~Holds(v, line[i])
          /\ \A k \in 1..(i - 1) : \E v \in Workers : Holds(v, line[k])
          /\ worker' = [worker EXCEPT ![w] = [pc |-> "claiming", job |-> line[i], seen |-> 0]]
    /\ UNCHANGED <<outbox, jobs, line, history>>

\* The start transaction commits; its caller goes on to the provider call.
ClaimCommit(w) ==
    LET j == worker[w].job IN
    /\ worker[w].pc = "claiming"
    /\ jobs' = [jobs EXCEPT ![j] = Claimed(@)]
    /\ line' = RemoveFirst(line, j)
    /\ worker' = [worker EXCEPT ![w].pc = "working"]
    /\ executed' = [executed EXCEPT ![j] = @ + 1]
    /\ UNCHANGED <<outbox, done>>

\* The start transaction finds the job's subject missing or malformed,
\* calls fail() itself and commits.
ClaimFail(w) ==
    LET j == worker[w].job IN
    /\ worker[w].pc = "claiming"
    /\ jobs' = [jobs EXCEPT ![j] = Failed(Claimed(@), MaxAttempts)]
    /\ line' = RemoveFirst(line, j)
    /\ worker' = [worker EXCEPT ![w] = Idle]
    /\ UNCHANGED <<outbox, history>>

\* The start transaction raises: the claim is rolled back with it and the
\* job is pending, due and in its old place.
ClaimRollback(w) ==
    /\ worker[w].pc = "claiming"
    /\ worker' = [worker EXCEPT ![w] = Idle]
    /\ UNCHANGED <<outbox, jobs, line, history>>

\* An UPDATE of the row waits for the transaction that has it locked.
Unlocked(j) == \A v \in Workers : ~Holds(v, j)

\* The complete transaction: the handler's effects and TaskQueue.complete.
Complete(w) ==
    LET j == worker[w].job IN
    /\ worker[w].pc = "working"
    /\ Unlocked(j)
    /\ jobs' = [jobs EXCEPT ![j] = Completed(@)]
    /\ line' = RemoveFirst(line, j)
    /\ worker' = [worker EXCEPT ![w] = Idle]
    /\ done' = [done EXCEPT ![j] = @ + 1]
    /\ UNCHANGED <<outbox, executed>>

\* The fail transaction: TaskQueue.fail reads the row ...
FailRead(w) ==
    /\ worker[w].pc = "working"
    /\ worker' = [worker EXCEPT ![w].pc = "failing",
                                ![w].seen = jobs[worker[w].job].attempts]
    /\ UNCHANGED <<outbox, jobs, line, history>>

\* ... and writes it.
FailCommit(w) ==
    LET j == worker[w].job IN
    /\ worker[w].pc = "failing"
    /\ Unlocked(j)
    /\ jobs' = [jobs EXCEPT ![j] = FailedAs(@, worker[w].seen, MaxAttempts)]
    /\ line' = RemoveFirst(line, j)
    /\ worker' = [worker EXCEPT ![w] = Idle]
    /\ UNCHANGED <<outbox, history>>

\* The worker process dies (an open transaction is rolled back) and is
\* replaced.
Crash(w) ==
    /\ worker[w].pc # "idle"
    /\ worker' = [worker EXCEPT ![w] = Idle]
    /\ UNCHANGED <<outbox, jobs, line, history>>

WorkingOn(w, j) == worker[w].pc \in {"working", "failing"} /\ worker[w].job = j

\* STUCK_JOB_THRESHOLD passes since the claim.
BecomeStuck(j) ==
    /\ jobs[j].status = "running"
    /\ ~jobs[j].stuck
    /\ SlowWorkers \/ \A w \in Workers : ~WorkingOn(w, j)
    /\ jobs' = [jobs EXCEPT ![j].stuck = TRUE]
    /\ UNCHANGED <<outbox, line, worker, history>>

\* ReapStuckTaskQueueJobs: every stuck job goes through fail().
Reap ==
    /\ \E j \in JobIds : Reapable(jobs[j])
    /\ jobs' = [j \in JobIds |-> IF Reapable(jobs[j]) THEN Failed(jobs[j], MaxAttempts)
                                                      ELSE jobs[j]]
    /\ UNCHANGED <<outbox, line, worker, history>>

RelayStep(r) == RelayRead(r) \/ RelayCommit(r) \/ RelayCrash(r)
WorkerStep(w) ==
    \/ ClaimBegin(w) \/ ClaimCommit(w) \/ ClaimFail(w) \/ ClaimRollback(w)
    \/ Complete(w) \/ FailRead(w) \/ FailCommit(w) \/ Crash(w)
ClockStep(j) == BecomeDue(j) \/ BecomeStuck(j)

Next ==
    \/ EmitEvent
    \/ \E r \in Relays : RelayStep(r)
    \/ \E w \in Workers : WorkerStep(w)
    \/ \E j \in JobIds : ClockStep(j)
    \/ Reap

Spec == Init /\ [][Next]_vars

------------------------------------------------------------------------------
(* Fairness *)

\* What the deployment must provide for work to get done.  The relay and the
\* reaper are called periodically and clocks advance; a relay that keeps being
\* called is not rolled back for ever (strong fairness of its commit).  A free
\* worker polls, and one that called the provider reports back or dies.  No
\* fairness is assumed of crashes, rollbacks and provider outcomes.  The last
\* conjunct is what the code needs and only partly earns: a job whose start
\* transaction is attempted again and again is not rolled back every time.
Fairness ==
    /\ WF_vars(Reap)
    /\ \A r \in Relays : WF_vars(RelayRead(r)) /\ SF_vars(RelayCommit(r))
    /\ \A j \in JobIds : WF_vars(BecomeDue(j)) /\ WF_vars(BecomeStuck(j))
    /\ \A w \in Workers :
          /\ WF_vars(ClaimBegin(w))
          /\ WF_vars(Complete(w) \/ FailRead(w) \/ Crash(w))
          /\ WF_vars(FailCommit(w) \/ Crash(w))
    /\ \A j \in JobIds :
          SF_vars(\E w \in Workers : Holds(w, j) /\ (ClaimCommit(w) \/ ClaimFail(w)))

FairSpec == Spec /\ Fairness

------------------------------------------------------------------------------
(* Properties *)

\* The retry-or-dead decision of fail() and the status it writes agree in
\* every reachable row, also after a late fail() has overwritten a newer row:
\* a job that can still run has attempts left, and a dead one has none.
StatusMatchesAttempts ==
    \A j \in JobIds :
        /\ jobs[j].status \in {"absent", "pending", "running"} => jobs[j].attempts < MaxAttempts
        /\ jobs[j].status = "dead" => jobs[j].attempts >= MaxAttempts

\* "No committed but never enqueued gaps": an event is marked published only
\* together with a job for it, whatever batches concurrent and crashing relays
\* read before.
NoEventLost ==
    \A e \in published : \E r \in Relays : jobs[<<e, r>>].status # "absent"

\* The relay never inserts a second job for an event it already relayed: what
\* an open relay transaction has read has no job of that relay yet.
RelayBatchIsNew ==
    \A r \in Relays : \A e \in relay[r] : jobs[<<e, r>>].status = "absent"

\* A worker whose start transaction is open has locked a row that is still
\* pending and still due, so its UPDATE claims what its subselect chose.
ClaimedRowIsPending ==
    \A w \in Workers : worker[w].pc = "claiming" =>
        /\ jobs[worker[w].job].status = "pending"
        /\ worker[w].job \in Range(line)

\* While no worker outlasts the threshold, a job has at most one worker, and
\* that worker's job is running: the reaper never takes a job from a worker
\* that is alive.
OneWorkerPerJob ==
    \A v, w \in Workers : \A j \in JobIds :
        WorkingOn(v, j) => /\ jobs[j].status = "running"
                           /\ WorkingOn(w, j) => v = w

\* D19: "bounded retries".  A worker starts on a job at most max_attempts
\* times, whatever mixture of failures, crashes and reaps it goes through.
BoundedExecutions == \A j \in JobIds : executed[j] <= MaxAttempts

\* While no worker outlasts the threshold, the effects of a job are committed
\* at most once, crashes, retries and reaps included.
EffectsOnce == \A j \in JobIds : done[j] <= 1

\* While no worker outlasts the threshold, a job that succeeded or is dead is
\* never written again, although complete() and fail() do not look at the
\* status they overwrite.
SettledForGood ==
    [][\A j \in JobIds : jobs[j].status \in {"succeeded", "dead"} => jobs'[j] = jobs[j]]_vars

\* Every event written to the outbox gets a job, and every job of it ends
\* succeeded or dead and stays so.  Crashes are unlimited: each costs an
\* attempt.
EveryEventSettles ==
    \A e \in Events : (emitted >= e) ~>
        [](/\ \E r \in Relays : jobs[<<e, r>>].status # "absent"
           /\ \A r \in Relays : ~Unsettled(jobs[<<e, r>>]))
==============================================================================
