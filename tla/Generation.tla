----------------------------- MODULE Generation -----------------------------
(***************************************************************************)
(* "Save & Generate" for one product variant (decisions D18, D20, D24):    *)
(* generation requests and the quota they reserve, the fan-out into        *)
(* generation items, the render worker (agents/generation_render.py), the  *)
(* QC worker (agents/catalog_image_qc.py) with its retry ladder, human     *)
(* review of the images, and the reconciler that settles requests.         *)
(*                                                                         *)
(* Every use case is one READ COMMITTED transaction.  Completing a render, *)
(* recording a verdict and reviewing read rows without locks and write     *)
(* them back later: their read and their commit are separate steps.  The   *)
(* other transactions are single steps.  Of two concurrent fan-outs of one *)
(* request the unique index of generation_items refuses the second.  A     *)
(* start transaction holds the lock of the only job of its item.  The      *)
(* reconciler locks the requests, and what it reads of their items no      *)
(* later step can change (SlotSucceeded and SlotFailed are stable).  That  *)
(* fail() may lose an increment of attempts is TaskQueue's subject.        *)
(*                                                                         *)
(* An outbox event appears here as the pending job the relay makes of it:  *)
(* a job may be claimed at any later time, so the relay's delay is not     *)
(* visible.  The relay of this module enqueues an event once.              *)
(***************************************************************************)
EXTENDS JobQueue, FiniteSets

CONSTANTS
    MaxRequests,    \* bound: requests created for the variant
    Slots,          \* required catalog image slots of the pinned spec
    QuotaLimit,     \* limit_value of the quota period
    RenderWorkers, QcWorkers,
    Reviewers,      \* people who approve and reject
    Alternates,     \* what the ladder may find: is there another analysed template?
    MaxAttempts,    \* max_attempts of a job
    ReconcileLimit, \* `limit' of the reconciler's sweep
    SlowWorkers,    \* may a live worker outlast STUCK_JOB_THRESHOLD?
    Crashes         \* may a worker die between two steps?

ASSUME GenerationAssumptions ==
    /\ MaxRequests \in Nat
    /\ IsFiniteSet(Slots)
    /\ QuotaLimit \in Nat
    /\ MaxAttempts \in Nat \ {0}
    /\ ReconcileLimit \in Nat \ {0}
    /\ Alternates \in (SUBSET BOOLEAN) \ {{}}
    /\ SlowWorkers \in BOOLEAN
    /\ Crashes \in BOOLEAN

Requests == 1..MaxRequests      \* in the order of created_at
Attempts == 1..3                \* attempt_no: the first try and two rungs
ItemIds == Requests \X Slots \X Attempts
Workers == RenderWorkers \cup QcWorkers

None == "none"                  \* a row that does not exist
NoItem == <<0, None, 0>>        \* no request is numbered 0

VARIABLES
    requests,   \* generation_requests: their status
    quota,      \* the row of quota_reservations
    items,      \* generation_items: their status
    images,     \* catalog_images, by the item that produced them
    renders,    \* task_queue_jobs of type generation_item.render_requested
    checks,     \* task_queue_jobs of type catalog_image.qc_requested
    worker,     \* what each worker is doing
    review,     \* what each reviewer's open transaction will write
    passed      \* images for which a passing verdict was recorded (history)

vars == <<requests, quota, items, images, renders, checks, worker, review, passed>>

RequestStatuses == {"queued", "running", "succeeded", "partially_failed", "failed"}
Settled == {"succeeded", "partially_failed", "failed"}
ItemStatuses == {"pending", "running", "succeeded", "failed", "dead"}
ImageStatuses == {"pending_qc", "qc_failed", "human_review", "pending_approval",
                  "approved", "rejected"}
ImageRows == [status: ImageStatuses \cup {None}, live: BOOLEAN]

\* pc: rendering = provider call; completing = complete transaction open,
\* having read the live image `live'; judging = QC call; recording = complete
\* transaction open, having read an image that is pending_qc, with the verdict
\* and the attempt_no of the next rung (0: none).
WorkerStates == [pc: {"idle", "rendering", "completing", "judging", "recording"},
                 item: ItemIds \cup {NoItem},
                 live: ItemIds \cup {NoItem},
                 verdict: {"none", "pass", "fail"},
                 rung: 0..3]

Idle == [pc |-> "idle", item |-> NoItem, live |-> NoItem, verdict |-> "none", rung |-> 0]
NoReview == [images |-> {}, decision |-> "none"]

TypeOK ==
    /\ requests \in [Requests -> RequestStatuses \cup {None}]
    /\ quota \in [reserved: Nat, committed: Nat]
    /\ items \in [ItemIds -> ItemStatuses \cup {None}]
    /\ images \in [ItemIds -> ImageRows]
    /\ renders \in [ItemIds -> JobRows]
    /\ checks \in [ItemIds -> JobRows]
    /\ worker \in [Workers -> WorkerStates]
    /\ review \in [Reviewers -> [images: SUBSET ItemIds,
                                 decision: {"none", "approved", "rejected"}]]
    /\ passed \in SUBSET ItemIds

Init ==
    /\ requests = [r \in Requests |-> None]
    /\ quota = [reserved |-> 0, committed |-> 0]
    /\ items = [i \in ItemIds |-> None]
    /\ images = [i \in ItemIds |-> [status |-> None, live |-> FALSE]]
    /\ renders = [i \in ItemIds |-> NoJob]
    /\ checks = [i \in ItemIds |-> NoJob]
    /\ worker = [w \in Workers |-> Idle]
    /\ review = [c \in Reviewers |-> NoReview]
    /\ passed = {}

------------------------------------------------------------------------------
(* Requests: quota, fan-out *)

\* QuotaReservationRepository.reserve: one conditional UPDATE.
CanReserve(n) == QuotaLimit - quota.reserved >= n

\* CreateGenerationRequest.
CreateRequest(r) ==
    /\ requests[r] = None
    /\ \A q \in 1..(r - 1) : requests[q] # None
    /\ Slots # {}
    /\ CanReserve(Cardinality(Slots))
    /\ quota' = [quota EXCEPT !.reserved = @ + Cardinality(Slots)]
    /\ requests' = [requests EXCEPT ![r] = "queued"]
    /\ UNCHANGED <<items, images, renders, checks, worker, review, passed>>

FirstItems(r) == {r} \X Slots \X {1}

\* FanOutGenerationItems, when every slot has its template and inputs; it
\* raises and writes nothing otherwise.
FanOut(r) ==
    /\ requests[r] = "queued"
    /\ items' = [i \in ItemIds |-> IF i \in FirstItems(r) THEN "pending" ELSE items[i]]
    /\ renders' = [i \in ItemIds |-> IF i \in FirstItems(r) THEN Enqueued ELSE renders[i]]
    /\ requests' = [requests EXCEPT ![r] = "running"]
    /\ UNCHANGED <<quota, images, checks, worker, review, passed>>

------------------------------------------------------------------------------
(* The render worker *)

\* Mutant: mark_running accepts a running item.
MayRunAgain(status) == status \in {"pending", "failed", "running"}

\* GenerationItem.mark_running refuses any other status.
MayRun(status) == status \in {"pending", "failed"}

\* StartGenerationItemRender.  Where mark_running refuses, the transaction is
\* rolled back and with it the claim: nothing changes.
StartRender(w, i) ==
    /\ worker[w].pc = "idle"
    /\ renders[i].status = "pending"
    /\ MayRun(items[i])
    /\ items' = [items EXCEPT ![i] = "running"]
    /\ renders' = [renders EXCEPT ![i] = Claimed(@)]
    /\ worker' = [worker EXCEPT ![w] = [Idle EXCEPT !.pc = "rendering", !.item = i]]
    /\ UNCHANGED <<requests, quota, images, checks, review, passed>>

\* Mutant: the item does not follow its job to dead.
FailRenderNeverDead(w) ==
    LET i == worker[w].item IN
    /\ worker[w].pc = "rendering"
    /\ items[i] = "running"
    /\ renders' = [renders EXCEPT ![i] = Failed(@, MaxAttempts)]
    /\ items' = [items EXCEPT ![i] = "failed"]
    /\ worker' = [worker EXCEPT ![w] = Idle]
    /\ UNCHANGED <<requests, quota, images, checks, review, passed>>

\* Storage or the provider raises: FailGenerationItemRender.
FailRender(w) ==
    LET i == worker[w].item
        job == Failed(renders[i], MaxAttempts)
    IN
    /\ worker[w].pc = "rendering"
    /\ items[i] = "running"
    /\ renders' = [renders EXCEPT ![i] = job]
    /\ items' = [items EXCEPT ![i] = IF job.status = "dead" THEN "dead" ELSE "failed"]
    /\ worker' = [worker EXCEPT ![w] = Idle]
    /\ UNCHANGED <<requests, quota, images, checks, review, passed>>

\* The live rows of a slot.
LiveIn(slot) == {k \in ItemIds : k[2] = slot /\ images[k].live}

\* The provider answers; CompleteGenerationItemRender opens its transaction
\* and reads the live image of the slot.
CompleteRead(w) ==
    LET live == LiveIn(worker[w].item[2]) IN
    /\ worker[w].pc = "rendering"
    /\ items[worker[w].item] = "running"
    /\ worker' = [worker EXCEPT ![w].pc = "completing",
                                ![w].live = IF live = {} THEN NoItem
                                            ELSE CHOOSE k \in live : TRUE]
    /\ UNCHANGED <<requests, quota, items, images, renders, checks, review, passed>>

\* Mutant: the partial unique index is missing.
IndexAdmitsAll(w) == TRUE

\* The partial unique index admits the new row: once the row that was read is
\* retired no live row of the slot is left.
IndexAdmits(w) == LiveIn(worker[w].item[2]) \subseteq {worker[w].live}

\* It retires the row it read, inserts the new one, emits the QC event,
\* completes the job and commits.
CompleteRender(w) ==
    LET i == worker[w].item IN
    /\ worker[w].pc = "completing"
    /\ IndexAdmits(w)
    /\ items' = [items EXCEPT ![i] = "succeeded"]
    /\ images' = [k \in ItemIds |->
                    CASE k = i -> [status |-> "pending_qc", live |-> TRUE]
                      [] k # i /\ k = worker[w].live -> [images[k] EXCEPT !.live = FALSE]
                      [] OTHER -> images[k]]
    /\ checks' = [checks EXCEPT ![i] = Enqueued]
    /\ renders' = [renders EXCEPT ![i] = Completed(@)]
    /\ worker' = [worker EXCEPT ![w] = Idle]
    /\ UNCHANGED <<requests, quota, review, passed>>

\* The INSERT violates the index: everything is rolled back.
CompleteConflict(w) ==
    /\ worker[w].pc = "completing"
    /\ ~IndexAdmits(w)
    /\ worker' = [worker EXCEPT ![w] = Idle]
    /\ UNCHANGED <<requests, quota, items, images, renders, checks, review, passed>>

------------------------------------------------------------------------------
(* The QC worker *)

\* StartCatalogImageQc: only the job changes; the image's status is not looked at.
StartQc(w, i) ==
    /\ worker[w].pc = "idle"
    /\ checks[i].status = "pending"
    /\ checks' = [checks EXCEPT ![i] = Claimed(@)]
    /\ worker' = [worker EXCEPT ![w] = [Idle EXCEPT !.pc = "judging", !.item = i]]
    /\ UNCHANGED <<requests, quota, items, images, renders, review, passed>>

\* Storage or the provider raises: FailCatalogImageQc.
FailQc(w) ==
    LET i == worker[w].item IN
    /\ worker[w].pc = "judging"
    /\ checks' = [checks EXCEPT ![i] = Failed(@, MaxAttempts)]
    /\ worker' = [worker EXCEPT ![w] = Idle]
    /\ UNCHANGED <<requests, quota, items, images, renders, review, passed>>

\* next_rung: the same template again, then an alternate one if the slot has
\* another analysed template, then nothing.
NextRung(i, alternate) ==
    LET tried == {a \in Attempts : items[<<i[1], i[2], a>>] # None}
        latest == CHOOSE a \in tried : \A b \in tried : b <= a
    IN  IF latest = 1 \/ (latest = 2 /\ alternate) THEN latest + 1 ELSE 0

\* The verdict is in; CompleteCatalogImageQc opens its transaction, reads an
\* image that is pending_qc and, for a failure, the attempts for the slot.
QcRead(w) ==
    LET i == worker[w].item IN
    /\ worker[w].pc = "judging"
    /\ images[i].status = "pending_qc"
    /\ \/ worker' = [worker EXCEPT ![w].pc = "recording", ![w].verdict = "pass"]
       \/ \E alternate \in Alternates :
             worker' = [worker EXCEPT ![w].pc = "recording", ![w].verdict = "fail",
                                      ![w].rung = NextRung(i, alternate)]
    /\ UNCHANGED <<requests, quota, items, images, renders, checks, review, passed>>

\* It reads any other status: mark_qc_passed and mark_qc_failed raise.
QcRaise(w) ==
    /\ worker[w].pc = "judging"
    /\ images[worker[w].item].status # "pending_qc"
    /\ worker' = [worker EXCEPT ![w] = Idle]
    /\ UNCHANGED <<requests, quota, items, images, renders, checks, review, passed>>

\* A pass: pending_approval, and approved at once where the approval.required
\* setting resolves to False.
RecordPass(w) ==
    LET i == worker[w].item IN
    /\ worker[w].pc = "recording" /\ worker[w].verdict = "pass"
    /\ \E status \in {"pending_approval", "approved"} :
          images' = [images EXCEPT ![i].status = status]
    /\ passed' = passed \cup {i}
    /\ checks' = [checks EXCEPT ![i] = Completed(@)]
    /\ worker' = [worker EXCEPT ![w] = Idle]
    /\ UNCHANGED <<requests, quota, items, renders, review>>

\* Mutant: the retry is written and the image is not.
RecordRetryOnly(w) ==
    LET i == worker[w].item
        next == <<i[1], i[2], worker[w].rung>>
    IN
    /\ worker[w].pc = "recording" /\ worker[w].verdict = "fail" /\ worker[w].rung # 0
    /\ items[next] = None
    /\ items' = [items EXCEPT ![next] = "pending"]
    /\ renders' = [renders EXCEPT ![next] = Enqueued]
    /\ checks' = [checks EXCEPT ![i] = Completed(@)]
    /\ worker' = [worker EXCEPT ![w] = Idle]
    /\ UNCHANGED <<requests, quota, images, review, passed>>

\* A failure with a rung left: the image is qc_failed and the next item and
\* its render event are written.
RecordRetry(w) ==
    LET i == worker[w].item
        next == <<i[1], i[2], worker[w].rung>>
    IN
    /\ worker[w].pc = "recording" /\ worker[w].verdict = "fail" /\ worker[w].rung # 0
    /\ items[next] = None
    /\ images' = [images EXCEPT ![i].status = "qc_failed"]
    /\ items' = [items EXCEPT ![next] = "pending"]
    /\ renders' = [renders EXCEPT ![next] = Enqueued]
    /\ checks' = [checks EXCEPT ![i] = Completed(@)]
    /\ worker' = [worker EXCEPT ![w] = Idle]
    /\ UNCHANGED <<requests, quota, review, passed>>

\* The rung was taken meanwhile: the unique index of generation_items refuses
\* the INSERT and everything is rolled back.
RecordConflict(w) ==
    LET i == worker[w].item IN
    /\ worker[w].pc = "recording" /\ worker[w].verdict = "fail" /\ worker[w].rung # 0
    /\ items[<<i[1], i[2], worker[w].rung>>] # None
    /\ worker' = [worker EXCEPT ![w] = Idle]
    /\ UNCHANGED <<requests, quota, items, images, renders, checks, review, passed>>

\* A failure with the ladder exhausted.
RecordEscalation(w) ==
    LET i == worker[w].item IN
    /\ worker[w].pc = "recording" /\ worker[w].verdict = "fail" /\ worker[w].rung = 0
    /\ images' = [images EXCEPT ![i].status = "human_review"]
    /\ checks' = [checks EXCEPT ![i] = Completed(@)]
    /\ worker' = [worker EXCEPT ![w] = Idle]
    /\ UNCHANGED <<requests, quota, items, renders, review, passed>>

------------------------------------------------------------------------------
(* Review *)

\* Mutant: approve and reject accept an unchecked image.
ReviewableUnchecked == {i \in ItemIds : images[i].status \in {"pending_qc", "pending_approval"}}
\* CatalogImage.approve and reject refuse any other status.
Reviewable == {i \in ItemIds : images[i].status = "pending_approval"}

\* ApproveCatalogImage or RejectCatalogImage reads its image, or
\* BulkApproveCatalogImagesForProduct the live ones that wait ...
ReviewRead(c) ==
    /\ review[c] = NoReview
    /\ \/ \E i \in Reviewable, decision \in {"approved", "rejected"} :
             review' = [review EXCEPT ![c] = [images |-> {i}, decision |-> decision]]
       \/ \E batch \in {{i \in Reviewable : images[i].live}} \ {{}} :
             review' = [review EXCEPT ![c] = [images |-> batch, decision |-> "approved"]]
    /\ UNCHANGED <<requests, quota, items, images, renders, checks, worker, passed>>

\* ... and writes the decision.
ReviewCommit(c) ==
    /\ review[c] # NoReview
    /\ images' = [i \in ItemIds |-> IF i \in review[c].images
                                    THEN [images[i] EXCEPT !.status = review[c].decision]
                                    ELSE images[i]]
    /\ review' = [review EXCEPT ![c] = NoReview]
    /\ UNCHANGED <<requests, quota, items, renders, checks, worker, passed>>

------------------------------------------------------------------------------
(* The reconciler, the reaper, time *)

\* compute_rollup, per required slot.
SlotSucceeded(r, s) == \E a \in Attempts : items[<<r, s, a>>] = "succeeded"
\* Mutant: a dead attempt still counts as in flight.
SlotFailedNever(r, s) == \A a \in Attempts : items[<<r, s, a>>] = None

SlotFailed(r, s) ==
    /\ ~SlotSucceeded(r, s)
    /\ \A a \in Attempts :
          (\A b \in Attempts : b > a => items[<<r, s, b>>] = None) =>
              items[<<r, s, a>>] \in {"dead", None}

\* The rollup status; None while a slot is in flight.
Rollup(r) ==
    CASE \E s \in Slots : ~SlotSucceeded(r, s) /\ ~SlotFailed(r, s) -> None
      [] \A s \in Slots : SlotSucceeded(r, s) -> "succeeded"
      [] \A s \in Slots : SlotFailed(r, s) -> "failed"
      [] OTHER -> "partially_failed"

\* Mutant: the sweep does not look at the status.
SweptAny == {r \in Requests : requests[r] # None}

\* list_running_for_update: the oldest running requests, up to the limit.
Swept ==
    LET running == {r \in Requests : requests[r] = "running"}
    IN  {r \in running : Cardinality({q \in running : q < r}) < ReconcileLimit}

\* Mutant: the quota of failed slots is not released.
ReconcileKeepsLost ==
    LET ready == {r \in Swept : Rollup(r) # None}
        delivered == {p \in ready \X Slots : SlotSucceeded(p[1], p[2])}
    IN
    /\ ready # {}
    /\ requests' = [r \in Requests |-> IF r \in ready THEN Rollup(r) ELSE requests[r]]
    /\ quota' = [quota EXCEPT !.committed = @ + Cardinality(delivered)]
    /\ UNCHANGED <<items, images, renders, checks, worker, review, passed>>

\* ReconcileGenerationRequestsForTenant: settle the requests whose rollup is
\* known, commit the quota of their succeeded slots and release the rest.
Reconcile ==
    LET ready == {r \in Swept : Rollup(r) # None}
        delivered == {p \in ready \X Slots : SlotSucceeded(p[1], p[2])}
        lost == {p \in ready \X Slots : SlotFailed(p[1], p[2])}
    IN
    /\ ready # {}
    /\ requests' = [r \in Requests |-> IF r \in ready THEN Rollup(r) ELSE requests[r]]
    /\ quota' = [reserved |-> quota.reserved - Cardinality(lost),
                 committed |-> quota.committed + Cardinality(delivered)]
    /\ UNCHANGED <<items, images, renders, checks, worker, review, passed>>

\* A worker process dies (an open transaction is rolled back) and is replaced.
Crash(w) ==
    /\ Crashes
    /\ worker[w].pc # "idle"
    /\ worker' = [worker EXCEPT ![w] = Idle]
    /\ UNCHANGED <<requests, quota, items, images, renders, checks, review, passed>>

Rendering(w, i) == worker[w].pc \in {"rendering", "completing"} /\ worker[w].item = i
Judging(w, i) == worker[w].pc \in {"judging", "recording"} /\ worker[w].item = i

\* STUCK_JOB_THRESHOLD passes since the claim.
BecomeStuck(i) ==
    /\ \/ /\ renders[i].status = "running" /\ ~renders[i].stuck
          /\ SlowWorkers \/ \A w \in Workers : ~Rendering(w, i)
          /\ renders' = [renders EXCEPT ![i].stuck = TRUE]
          /\ checks' = checks
       \/ /\ checks[i].status = "running" /\ ~checks[i].stuck
          /\ SlowWorkers \/ \A w \in Workers : ~Judging(w, i)
          /\ checks' = [checks EXCEPT ![i].stuck = TRUE]
          /\ renders' = renders
    /\ UNCHANGED <<requests, quota, items, images, worker, review, passed>>

Reaped(rows) == [i \in ItemIds |-> IF Reapable(rows[i]) THEN Failed(rows[i], MaxAttempts)
                                                        ELSE rows[i]]

\* ReapStuckTaskQueueJobs: it touches job rows only.
Reap ==
    /\ \E i \in ItemIds : Reapable(renders[i]) \/ Reapable(checks[i])
    /\ renders' = Reaped(renders)
    /\ checks' = Reaped(checks)
    /\ UNCHANGED <<requests, quota, items, images, worker, review, passed>>

RenderStep(w) ==
    \/ \E i \in ItemIds : StartRender(w, i)
    \/ FailRender(w) \/ CompleteRead(w) \/ CompleteRender(w) \/ CompleteConflict(w)
QcStep(w) ==
    \/ \E i \in ItemIds : StartQc(w, i)
    \/ FailQc(w) \/ QcRead(w) \/ QcRaise(w)
    \/ RecordPass(w) \/ RecordRetry(w) \/ RecordConflict(w) \/ RecordEscalation(w)

Next ==
    \/ \E r \in Requests : CreateRequest(r) \/ FanOut(r)
    \/ \E w \in RenderWorkers : RenderStep(w)
    \/ \E w \in QcWorkers : QcStep(w)
    \/ \E w \in Workers : Crash(w)
    \/ \E c \in Reviewers : ReviewRead(c) \/ ReviewCommit(c)
    \/ \E i \in ItemIds : BecomeStuck(i)
    \/ Reconcile \/ Reap

Spec == Init /\ [][Next]_vars

------------------------------------------------------------------------------
(* Fairness *)

\* The reconciler and the reaper are called periodically, time passes, a job
\* that can be started is started, and a worker that started goes on to the
\* end of its run (it dies only where Crashes allows it).  The products have
\* their templates and inputs, so a fan-out succeeds.  Providers are not
\* expected to succeed, nor anybody to create requests or review images.
Fairness ==
    /\ WF_vars(Reconcile) /\ WF_vars(Reap)
    /\ \A r \in Requests : WF_vars(FanOut(r))
    /\ \A i \in ItemIds :
          /\ WF_vars(BecomeStuck(i))
          /\ WF_vars(\E w \in RenderWorkers : StartRender(w, i))
          /\ WF_vars(\E w \in QcWorkers : StartQc(w, i))
    /\ \A w \in RenderWorkers :
          WF_vars(FailRender(w) \/ CompleteRead(w) \/ CompleteRender(w) \/ CompleteConflict(w))
    /\ \A w \in QcWorkers :
          WF_vars(\/ FailQc(w) \/ QcRead(w) \/ QcRaise(w)
                  \/ RecordPass(w) \/ RecordRetry(w) \/ RecordConflict(w)
                  \/ RecordEscalation(w))

FairSpec == Spec /\ Fairness

------------------------------------------------------------------------------
(* Properties *)

Open(r) == requests[r] \in {"queued", "running"}

\* D24: the quota a tenant has reserved is what its open requests may still
\* use plus what its settled requests delivered, and never exceeds the limit.
\* No settlement is lost, repeated or split wrongly.
QuotaBalanced ==
    /\ quota.reserved = quota.committed
                          + Cardinality({r \in Requests : Open(r)} \X Slots)
    /\ quota.reserved <= QuotaLimit

\* Quota is committed for exactly the slots of settled requests that have a
\* rendered image, also when late workers and QC retries go on after the
\* settlement.
QuotaPaysForDelivered ==
    quota.committed =
        Cardinality({p \in Requests \X Slots :
                        requests[p[1]] \in Settled /\ SlotSucceeded(p[1], p[2])})

\* A rendered image is never paid for twice at once: an item has at most one
\* render worker, and that item is running, though the reaper may have given
\* the job back while the worker was slow.
OneRendererPerItem ==
    \A v, w \in Workers : \A i \in ItemIds :
        Rendering(v, i) => /\ items[i] = "running"
                           /\ Rendering(w, i) => v = w

\* Regeneration keeps exactly one live image in a slot that has any: racing
\* completions neither leave two nor retire the last one.
OneLiveImage ==
    \A s \in Slots :
        (\E i \in ItemIds : i[2] = s /\ images[i].status # None) =>
            Cardinality(LiveIn(s)) = 1

\* "QC still enforced when approval is disabled": whatever the approval
\* setting and the reviewers do, an approved image has passed QC.
ApprovedPassedQc == \A i \in ItemIds : images[i].status = "approved" => i \in passed

\* The ladder climbs only from a failed image: while no worker outlasts the
\* threshold, the attempt before an existing one was rendered and failed QC.
RetryFollowsFailure ==
    \A i \in ItemIds : items[i] # None /\ i[3] > 1 =>
        images[<<i[1], i[2], i[3] - 1>>].status = "qc_failed"

\* FailGenerationItemRender: "the two trackers must never disagree about
\* whether this attempt is still alive".
TrackersAgree ==
    \A i \in ItemIds : items[i] # None =>
        (items[i] \in {"pending", "running", "failed"} <=> Unsettled(renders[i]))

\* Every request settles, and its quota with it, once it was created.
EveryRequestSettles ==
    \A r \in Requests : (requests[r] # None) ~> (requests[r] \in Settled)
=============================================================================
