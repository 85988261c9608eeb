----------------------------- MODULE Publishing -----------------------------
(***************************************************************************)
(* Posting to one channel account (decision D21): publications and their   *)
(* lifecycle, the due_at poller, the publish worker                        *)
(* (agents/publish_channel.py) with its start, complete, fail and defer    *)
(* transactions, human cancellation, the per-account rate limit and the    *)
(* provider.                                                               *)
(*                                                                         *)
(* A use case is one READ COMMITTED transaction that gets the publication  *)
(* without locking it, decides, and writes the changed columns back by     *)
(* primary key.  Where another transaction can commit in between, the read *)
(* and the commit are separate steps.  The poller locks the rows it reads  *)
(* and the rate limiter is one upsert: each is a single step.              *)
(*                                                                         *)
(* due_at is abstracted to now (reached), later (still ahead, or inside    *)
(* the poller's dispatch grace) and tomorrow (the end of the rate-limit    *)
(* window).                                                                *)
(***************************************************************************)
EXTENDS JobQueue, FiniteSets

CONSTANTS
    Pubs,           \* bound: the publications that may be created
    Variants,       \* product variants posted to this channel account
    JobSlots,       \* bound: outstanding publish jobs per publication
    Workers,        \* processes running PublishChannelAgent
    Cancellers,     \* people running CancelPublication
    MaxAttempts,    \* max_attempts of a job
    RateLimit,      \* publish_rate_limit_per_account_per_day
    SlowWorkers,    \* may a live worker outlast STUCK_JOB_THRESHOLD?
    Crashes         \* may a worker die between two steps?

ASSUME PublishingAssumptions ==
    /\ MaxAttempts \in Nat \ {0}
    /\ RateLimit \in Nat
    /\ SlowWorkers \in BOOLEAN
    /\ Crashes \in BOOLEAN

None == "none"      \* no variant, no job, a row that does not exist
ASSUME NoneIsNothing == None \notin Pubs \cup Variants

VARIABLES
    pubs,       \* the publications table
    keys,       \* number of idempotency keys handed out
    jobs,       \* task_queue_jobs of type publication.publish_requested
    used,       \* count of the current row of rate_limit_windows
    worker,     \* what each worker is doing
    cancel,     \* what each canceller's open transaction has read
    known,      \* idempotency keys the provider has seen
    posts       \* publication |-> posts made for it on the provider's side

vars == <<pubs, keys, jobs, used, worker, cancel, known, posts>>
provider == <<known, posts>>

PubStatuses == {"scheduled", "dispatching", "published", "failed", "dead", "cancelled"}
LiveStatuses == {"scheduled", "dispatching", "failed"}
DueTimes == {"now", "later", "tomorrow"}

\* status None: the row was not created yet.
PubRows == [status: PubStatuses \cup {None}, variant: Variants \cup {None},
            key: Nat, due: DueTimes]

JobIds == Pubs \X JobSlots
NoJobId == <<None, None>>

\* pc: starting = start transaction open; checking = before the rate limit;
\* limited / allowed = after it; posted / broken = after the provider call;
\* closing = complete, fail or defer transaction open, having read that the
\* publication is dispatching and that the job has `seen' attempts.
WorkerStates ==
    [pc: {"idle", "starting", "checking", "limited", "allowed", "posted", "broken", "closing"},
     job: JobIds \cup {NoJobId},
     then: {"none", "complete", "fail", "defer"},
     seen: Nat,
     key: Nat,
     until: DueTimes]

Idle == [pc |-> "idle", job |-> NoJobId, then |-> "none", seen |-> 0, key |-> 0, until |-> "now"]

TypeOK ==
    /\ pubs \in [Pubs -> PubRows]
    /\ keys \in Nat
    /\ jobs \in [JobIds -> JobRows]
    /\ used \in Nat
    /\ worker \in [Workers -> WorkerStates]
    /\ cancel \in [Cancellers -> Pubs \cup {None}]
    /\ known \in SUBSET Nat
    /\ posts \in [Pubs -> Nat]

Init ==
    /\ pubs = [p \in Pubs |-> [status |-> None, variant |-> None, key |-> 0, due |-> "now"]]
    /\ keys = 0
    /\ jobs = [j \in JobIds |-> NoJob]
    /\ used = 0
    /\ worker = [w \in Workers |-> Idle]
    /\ cancel = [c \in Cancellers |-> None]
    /\ known = {}
    /\ posts = [p \in Pubs |-> 0]

PubOf(w) == worker[w].job[1]

------------------------------------------------------------------------------
(* Creating, releasing, cancelling *)

\* Mutant: the unique index is missing.
IndexAllowsAll(p, variant, status) == TRUE

\* The partial unique index ix_publications_live_per_channel_variant: may p
\* have this status for this variant now?
IndexAllows(p, variant, status) ==
    status \in LiveStatuses =>
        \A q \in Pubs \ {p} : pubs[q].variant = variant => pubs[q].status \notin LiveStatuses

\* Mutant: the idempotency key is derived from the variant.
CreatePublicationSameKey(p, variant) ==
    /\ pubs[p].status = None
    /\ IndexAllows(p, variant, "scheduled")
    /\ pubs' = [pubs EXCEPT ![p] = [status |-> "scheduled", variant |-> variant,
                                    key |-> 1, due |-> "now"]]
    /\ UNCHANGED <<keys, jobs, used, worker, cancel, provider>>

\* CreatePublication: the get_live check and the index refuse a second live
\* row; the idempotency key is committed here, before any provider call.
CreatePublication(p, variant) ==
    /\ pubs[p].status = None
    /\ IndexAllows(p, variant, "scheduled")
    /\ keys' = keys + 1
    /\ \E due \in {"now", "later"} :
          pubs' = [pubs EXCEPT ![p] = [status |-> "scheduled", variant |-> variant,
                                       key |-> keys + 1, due |-> due]]
    /\ UNCHANGED <<jobs, used, worker, cancel, provider>>

\* Rows of settled jobs nobody works on are recycled for later jobs.
FreeSlots(p) ==
    {s \in JobSlots : /\ ~Unsettled(jobs[<<p, s>>])
                      /\ \A w \in Workers : worker[w].job # <<p, s>>}

Due(p) == pubs[p].status = "scheduled" /\ pubs[p].due = "now"

\* ReleaseScheduledPublicationsForTenant: for due rows, push due_at past the
\* dispatch grace and enqueue a job.  The status stays scheduled.
ReleaseScheduled ==
    \E batch \in (SUBSET {p \in Pubs : Due(p) /\ FreeSlots(p) # {}}) \ {{}} :
        /\ pubs' = [p \in Pubs |-> IF p \in batch THEN [pubs[p] EXCEPT !.due = "later"] ELSE pubs[p]]
        /\ jobs' = [j \in JobIds |-> IF j[1] \in batch /\ j[2] = CHOOSE s \in FreeSlots(j[1]) : TRUE
                                     THEN Enqueued ELSE jobs[j]]
        /\ UNCHANGED <<keys, used, worker, cancel, provider>>

\* CancelPublication reads a scheduled row (any other status raises) ...
CancelRead(c, p) ==
    /\ cancel[c] = None
    /\ pubs[p].status = "scheduled"
    /\ cancel' = [cancel EXCEPT ![c] = p]
    /\ UNCHANGED <<pubs, keys, jobs, used, worker, provider>>

\* ... and writes the status.
CancelCommit(c) ==
    /\ cancel[c] # None
    /\ pubs' = [pubs EXCEPT ![cancel[c]].status = "cancelled"]
    /\ cancel' = [cancel EXCEPT ![c] = None]
    /\ UNCHANGED <<keys, jobs, used, worker, provider>>

------------------------------------------------------------------------------
(* The publish worker *)

Claimable(j) == jobs[j].status = "pending" /\ \A v \in Workers :
                    ~(worker[v].pc = "starting" /\ worker[v].job = j)

\* Mutants: mark_dispatching accepts every status; a new key per attempt.
StartReadUnguarded(w, j) ==
    /\ worker[w].pc = "idle"
    /\ Claimable(j)
    /\ worker' = [worker EXCEPT ![w] = [Idle EXCEPT !.pc = "starting", !.job = j,
                                                    !.key = pubs[j[1]].key]]
    /\ UNCHANGED <<pubs, keys, jobs, used, cancel, provider>>

StartReadNewKey(w, j) ==
    /\ worker[w].pc = "idle"
    /\ Claimable(j)
    /\ pubs[j[1]].status \in {"scheduled", "failed"}
    /\ worker' = [worker EXCEPT ![w] = [Idle EXCEPT !.pc = "starting", !.job = j,
                                                    !.key = keys + jobs[j].attempts]]
    /\ UNCHANGED <<pubs, keys, jobs, used, cancel, provider>>

\* StartPublicationPublish claims a job (its row is now locked) and reads a
\* publication that is scheduled or failed.
StartRead(w, j) ==
    LET pub == pubs[j[1]] IN
    /\ worker[w].pc = "idle"
    /\ Claimable(j)
    /\ pub.status \in {"scheduled", "failed"}
    /\ worker' = [worker EXCEPT ![w] = [Idle EXCEPT !.pc = "starting", !.job = j,
                                                    !.key = pub.key]]
    /\ UNCHANGED <<pubs, keys, jobs, used, cancel, provider>>

\* It finds a publication in any other status: the job is failed instead.
StartRefuse(w, j) ==
    /\ worker[w].pc = "idle"
    /\ Claimable(j)
    /\ pubs[j[1]].status \notin {"scheduled", "failed"}
    /\ jobs' = [jobs EXCEPT ![j] = Failed(Claimed(@), MaxAttempts)]
    /\ UNCHANGED <<pubs, keys, used, worker, cancel, provider>>

\* mark_dispatching, commit.
StartCommit(w) ==
    LET p == PubOf(w) IN
    /\ worker[w].pc = "starting"
    /\ IndexAllows(p, pubs[p].variant, "dispatching")
    /\ pubs' = [pubs EXCEPT ![p].status = "dispatching"]
    /\ jobs' = [jobs EXCEPT ![worker[w].job] = Claimed(@)]
    /\ worker' = [worker EXCEPT ![w].pc = "checking"]
    /\ UNCHANGED <<keys, used, cancel, provider>>

\* The UPDATE violates the unique index: the claim is rolled back with it.
StartRollback(w) ==
    LET p == PubOf(w) IN
    /\ worker[w].pc = "starting"
    /\ ~IndexAllows(p, pubs[p].variant, "dispatching")
    /\ worker' = [worker EXCEPT ![w] = Idle]
    /\ UNCHANGED <<pubs, keys, jobs, used, cancel, provider>>

\* Mutant: <= for <.
RateAllowsOneMore == used <= RateLimit

\* SqlRateLimiter.allow: INSERT count = 1, or on conflict count + 1 WHERE
\* count < limit.  The first call of a window is not compared with the limit.
RateAllows == used = 0 \/ used < RateLimit

CheckRate(w) ==
    /\ worker[w].pc = "checking"
    /\ \/ /\ RateAllows
          /\ used' = used + 1
          /\ worker' = [worker EXCEPT ![w].pc = "allowed"]
       \/ /\ ~RateAllows
          /\ used' = used
          /\ worker' = [worker EXCEPT ![w].pc = "limited", ![w].until = "tomorrow"]
    /\ UNCHANGED <<pubs, keys, jobs, cancel, provider>>

\* ChannelPublisher.publish with the publication's key: the provider makes a
\* post unless it knows the key.
Post(w) ==
    /\ known' = known \cup {worker[w].key}
    /\ posts' = [posts EXCEPT ![PubOf(w)] = IF worker[w].key \in known THEN @ ELSE @ + 1]

\* The call succeeds.
PublishOk(w) ==
    /\ worker[w].pc = "allowed"
    /\ Post(w)
    /\ worker' = [worker EXCEPT ![w].pc = "posted"]
    /\ UNCHANGED <<pubs, keys, jobs, used, cancel>>

\* validate() rejects the payload, or a call raises, before or after the
\* provider acted on it.
PublishError(w) ==
    /\ worker[w].pc = "allowed"
    /\ Post(w) \/ UNCHANGED provider
    /\ worker' = [worker EXCEPT ![w].pc = "broken"]
    /\ UNCHANGED <<pubs, keys, jobs, used, cancel>>

Outcome == [posted |-> "complete", broken |-> "fail", limited |-> "defer"]

\* CompletePublicationPublish, FailPublicationPublish or
\* DeferPublicationPublish opens its transaction and reads a dispatching
\* publication, and fail() the attempts of the job.
CloseRead(w) ==
    LET p == PubOf(w) IN
    /\ worker[w].pc \in DOMAIN Outcome
    /\ pubs[p].status = "dispatching"
    /\ worker' = [worker EXCEPT ![w].pc = "closing",
                                ![w].then = Outcome[worker[w].pc],
                                ![w].seen = jobs[worker[w].job].attempts]
    /\ UNCHANGED <<pubs, keys, jobs, used, cancel, provider>>

\* It reads any other status: the entity method raises, the transaction is
\* rolled back and the job stays running.
CloseRaise(w) ==
    /\ worker[w].pc \in DOMAIN Outcome
    /\ pubs[PubOf(w)].status # "dispatching"
    /\ worker' = [worker EXCEPT ![w] = Idle]
    /\ UNCHANGED <<pubs, keys, jobs, used, cancel, provider>>

\* An UPDATE of the job row waits for a start transaction that holds it.
JobFree(w) == \A v \in Workers \ {w} :
                  ~(worker[v].pc = "starting" /\ worker[v].job = worker[w].job)

Closing(w, outcome) == worker[w].pc = "closing" /\ worker[w].then = outcome /\ JobFree(w)

\* mark_published and TaskQueue.complete, commit.
CompletePublish(w) ==
    /\ Closing(w, "complete")
    /\ pubs' = [pubs EXCEPT ![PubOf(w)].status = "published"]
    /\ jobs' = [jobs EXCEPT ![worker[w].job] = Completed(@)]
    /\ worker' = [worker EXCEPT ![w] = Idle]
    /\ UNCHANGED <<keys, used, cancel, provider>>

\* Mutants: the publication does not follow its job to dead; the job is not
\* told about the failure.
FailPublishNeverDead(w) ==
    /\ Closing(w, "fail")
    /\ pubs' = [pubs EXCEPT ![PubOf(w)].status = "failed"]
    /\ jobs' = [jobs EXCEPT ![worker[w].job] = FailedAs(@, worker[w].seen, MaxAttempts)]
    /\ worker' = [worker EXCEPT ![w] = Idle]
    /\ UNCHANGED <<keys, used, cancel, provider>>

FailPublishJobForgotten(w) ==
    /\ Closing(w, "fail")
    /\ pubs' = [pubs EXCEPT ![PubOf(w)].status = "failed"]
    /\ worker' = [worker EXCEPT ![w] = Idle]
    /\ UNCHANGED <<keys, jobs, used, cancel, provider>>

\* What TaskQueue.fail makes of the job, and record_attempt_failure of the
\* publication.
FailedRow(w) == FailedAs(jobs[worker[w].job], worker[w].seen, MaxAttempts)
FailedStatus(w) == IF FailedRow(w).status = "dead" THEN "dead" ELSE "failed"

\* TaskQueue.fail and record_attempt_failure, commit.
FailPublish(w) ==
    LET p == PubOf(w) IN
    /\ Closing(w, "fail")
    /\ IndexAllows(p, pubs[p].variant, FailedStatus(w))
    /\ pubs' = [pubs EXCEPT ![p].status = FailedStatus(w)]
    /\ jobs' = [jobs EXCEPT ![worker[w].job] = FailedRow(w)]
    /\ worker' = [worker EXCEPT ![w] = Idle]
    /\ UNCHANGED <<keys, used, cancel, provider>>

\* defer and TaskQueue.complete, commit.
DeferPublish(w) ==
    LET p == PubOf(w) IN
    /\ Closing(w, "defer")
    /\ IndexAllows(p, pubs[p].variant, "scheduled")
    /\ pubs' = [pubs EXCEPT ![p].status = "scheduled", ![p].due = worker[w].until]
    /\ jobs' = [jobs EXCEPT ![worker[w].job] = Completed(@)]
    /\ worker' = [worker EXCEPT ![w] = Idle]
    /\ UNCHANGED <<keys, used, cancel, provider>>

\* The publication was cancelled behind the open transaction and replaced by
\* a live one: the write violates the unique index and is rolled back.
CloseRollback(w) ==
    LET p == PubOf(w) IN
    /\ \/ Closing(w, "fail") /\ ~IndexAllows(p, pubs[p].variant, FailedStatus(w))
       \/ Closing(w, "defer") /\ ~IndexAllows(p, pubs[p].variant, "scheduled")
    /\ worker' = [worker EXCEPT ![w] = Idle]
    /\ UNCHANGED <<pubs, keys, jobs, used, cancel, provider>>

\* The worker process dies and is replaced.
Crash(w) ==
    /\ Crashes
    /\ worker[w].pc # "idle"
    /\ worker' = [worker EXCEPT ![w] = Idle]
    /\ UNCHANGED <<pubs, keys, jobs, used, cancel, provider>>

------------------------------------------------------------------------------
(* Time and the reaper *)

\* due_at of a publication is reached.
BecomeDue(p) ==
    /\ pubs[p].status = "scheduled" /\ pubs[p].due = "later"
    /\ pubs' = [pubs EXCEPT ![p].due = "now"]
    /\ UNCHANGED <<keys, jobs, used, worker, cancel, provider>>

\* The rate-limit window ends: a new counter row, and what was deferred to
\* its end is due.
NewDay ==
    /\ used > 0
    /\ used' = 0
    /\ pubs' = [p \in Pubs |-> IF pubs[p].due = "tomorrow" THEN [pubs[p] EXCEPT !.due = "now"]
                                                           ELSE pubs[p]]
    /\ worker' = [w \in Workers |-> [worker[w] EXCEPT !.until = "now"]]
    /\ UNCHANGED <<keys, jobs, cancel, provider>>

Owns(w, j) == worker[w].pc \notin {"idle", "starting"} /\ worker[w].job = j

\* STUCK_JOB_THRESHOLD passes since the claim.
BecomeStuck(j) ==
    /\ jobs[j].status = "running" /\ ~jobs[j].stuck
    /\ SlowWorkers \/ \A w \in Workers : ~Owns(w, j)
    /\ jobs' = [jobs EXCEPT ![j].stuck = TRUE]
    /\ UNCHANGED <<pubs, keys, used, worker, cancel, provider>>

\* ReapStuckTaskQueueJobs.  It touches job rows only.
Reap ==
    /\ \E j \in JobIds : Reapable(jobs[j])
    /\ jobs' = [j \in JobIds |-> IF Reapable(jobs[j]) THEN Failed(jobs[j], MaxAttempts)
                                                      ELSE jobs[j]]
    /\ UNCHANGED <<pubs, keys, used, worker, cancel, provider>>

Start(w) == \E j \in JobIds : StartRead(w, j) \/ StartRefuse(w, j)
Close(w) == CompletePublish(w) \/ FailPublish(w) \/ DeferPublish(w) \/ CloseRollback(w)
WorkerStep(w) ==
    \/ Start(w) \/ StartCommit(w) \/ StartRollback(w) \/ CheckRate(w)
    \/ PublishOk(w) \/ PublishError(w) \/ CloseRead(w) \/ CloseRaise(w)
    \/ Close(w) \/ Crash(w)

Next ==
    \/ \E p \in Pubs, v \in Variants : CreatePublication(p, v)
    \/ ReleaseScheduled
    \/ \E c \in Cancellers : (\E p \in Pubs : CancelRead(c, p)) \/ CancelCommit(c)
    \/ \E w \in Workers : WorkerStep(w)
    \/ \E p \in Pubs : BecomeDue(p)
    \/ NewDay
    \/ \E j \in JobIds : BecomeStuck(j)
    \/ Reap

Spec == Init /\ [][Next]_vars

------------------------------------------------------------------------------
(* Fairness *)

\* The poller and the reaper are called periodically, time passes, a free
\* worker polls and a worker that started goes on to the end of its run (it
\* may crash only where Crashes allows it).  A job that is due is claimed
\* eventually, since claims go by run_at.  The provider is not expected to
\* succeed, nor anybody to create or cancel.
Fairness ==
    /\ WF_vars(ReleaseScheduled) /\ WF_vars(NewDay) /\ WF_vars(Reap)
    /\ \A p \in Pubs : WF_vars(BecomeDue(p))
    /\ \A j \in JobIds :
          /\ WF_vars(BecomeStuck(j))
          /\ WF_vars(\E w \in Workers : StartRead(w, j) \/ StartRefuse(w, j))
    /\ \A w \in Workers :
          WF_vars(\/ StartCommit(w) \/ StartRollback(w) \/ CheckRate(w)
                  \/ PublishOk(w) \/ PublishError(w)
                  \/ CloseRead(w) \/ CloseRaise(w) \/ Close(w))

FairSpec == Spec /\ Fairness

------------------------------------------------------------------------------
(* Properties *)

\* D21, "double-posting is the highest-severity failure in this system": a
\* publication is posted at most once, through lost provider answers,
\* crashes, reaps, retries, duplicate jobs and concurrent dispatches.
OnePostPerPublication == \A p \in Pubs : posts[p] <= 1

\* A publication is reported published only if the provider has its post,
\* whoever else failed, deferred or cancelled it meanwhile.
PublishedWasPosted == \A p \in Pubs : pubs[p].status = "published" => posts[p] = 1

\* The publishes let through in a rate-limit window stay within the limit.
WithinRateLimit == used <= RateLimit

\* FailPublicationPublish: "the two trackers must never disagree about whether
\* another attempt is still coming".  A publication that is being dispatched
\* or waits for its retry has a job that is not settled, or a worker that is
\* slow and will still report.
RetryIsComing ==
    \A p \in Pubs : pubs[p].status \in {"dispatching", "failed"} =>
        \E s \in JobSlots : \/ Unsettled(jobs[<<p, s>>])
                            \/ \E w \in Workers : Owns(w, <<p, s>>)

\* D21, "a single-flight lock per (account, variant)": two workers that are
\* about to call the provider for one variant do so for one publication.
SingleFlightCalls ==
    \A v, w \in Workers :
        /\ worker[v].pc = "allowed" /\ worker[w].pc = "allowed"
        /\ pubs[PubOf(v)].variant = pubs[PubOf(w)].variant
        => PubOf(v) = PubOf(w)

\* entities/publication.py: "PUBLISHED/DEAD/CANCELLED are all terminal".
TerminalIsFinal ==
    [][\A p \in Pubs : pubs[p].status \in {"published", "dead", "cancelled"} =>
          pubs'[p].status = pubs[p].status]_vars

\* Every publication ends published or dead, if no worker dies, nobody
\* cancels it and the daily limit is not reached.
EveryPublicationSettles ==
    \A p \in Pubs : (pubs[p].status # None) ~> (pubs[p].status \in {"published", "dead"})

\* What a publication has come to, as PostOnce tells it.
OutcomeOf(p) ==
    CASE pubs[p].status = None -> "none"
      [] pubs[p].status \in LiveStatuses -> "open"
      [] pubs[p].status = "published" -> "published"
      [] OTHER -> "given_up"

Promise == INSTANCE PostOnce WITH outcome <- [p \in Pubs |-> OutcomeOf(p)]

\* Under the same conditions publishing implements PostOnce: whatever jobs,
\* retries, deferrals and lost answers do, an observer sees each publication
\* asked for once, posted at most once, reported only after its post, ended
\* once and for good, and ended at last.
ImplementsPostOnce == Promise!Spec
=============================================================================
