-------------------------- MODULE PublishingProofs --------------------------
(***************************************************************************)
(* Proofs about Publishing, for every set of publications, variants, job   *)
(* rows, workers and cancellers, every limit, and with or without crashes  *)
(* and slow workers.                                                       *)
(***************************************************************************)
EXTENDS Publishing, TLAPS

\* A job row that fail(), complete(), claim() or the reaper writes is a row.
LEMMA RowTypes ==
    ASSUME NEW job \in JobRows, NEW seen \in Nat
    PROVE  /\ NoJob \in JobRows
           /\ Enqueued \in JobRows
           /\ job.attempts \in Nat
           /\ Claimed(job) \in JobRows
           /\ Completed(job) \in JobRows
           /\ FailedAs(job, seen, MaxAttempts) \in JobRows
           /\ Failed(job, MaxAttempts) \in JobRows
  <1>1. NoJob \in JobRows /\ Enqueued \in JobRows
    BY DEF JobRows, JobStatuses, NoJob, Enqueued
  <1>2. job.attempts \in Nat
    BY DEF JobRows
  <1>3. Claimed(job) \in JobRows /\ Completed(job) \in JobRows
    BY DEF JobRows, JobStatuses, Claimed, Completed
  <1>4. \A n \in Nat : FailedAs(job, n, MaxAttempts) \in JobRows
    <2> TAKE n \in Nat
    <2>1. (IF n + 1 >= MaxAttempts THEN "dead" ELSE "pending") \in JobStatuses
      BY DEF JobStatuses
    <2>2. n + 1 \in Nat
      OBVIOUS
    <2>3. QED
      BY <2>1, <2>2 DEF JobRows, FailedAs
  <1>5. QED
    BY <1>1, <1>2, <1>3, <1>4 DEF Failed

\* A worker that is not idle has a job.
Busy == \A w \in Workers : worker[w].pc # "idle" => worker[w].job \in JobIds

\* The initial state is well typed.
LEMMA TypeInit == Init => TypeOK
  <1> SUFFICES ASSUME Init PROVE TypeOK
    OBVIOUS
  <1>1. pubs \in [Pubs -> PubRows]
    BY DEF Init, PubRows, PubStatuses, DueTimes
  <1>2. jobs \in [JobIds -> JobRows]
    BY DEF Init, NoJob, JobRows, JobStatuses
  <1>3. worker \in [Workers -> WorkerStates]
    BY DEF Init, WorkerStates, Idle, DueTimes
  <1>4. QED
    BY <1>1, <1>2, <1>3 DEF Init, TypeOK

\* Creating, releasing, cancelling and the passage of time keep the types.
LEMMA TypeOutside ==
    ASSUME TypeOK
    PROVE  /\ \A p \in Pubs, v \in Variants : CreatePublication(p, v) => TypeOK'
           /\ ReleaseScheduled => TypeOK'
           /\ \A c \in Cancellers, p \in Pubs : CancelRead(c, p) => TypeOK'
           /\ \A c \in Cancellers : CancelCommit(c) => TypeOK'
           /\ \A p \in Pubs : BecomeDue(p) => TypeOK'
           /\ NewDay => TypeOK'
           /\ \A j \in JobIds : BecomeStuck(j) => TypeOK'
           /\ Reap => TypeOK'
  <1>1. ASSUME NEW p \in Pubs, NEW v \in Variants, CreatePublication(p, v) PROVE TypeOK'
    BY <1>1 DEF TypeOK, CreatePublication, provider, PubRows, PubStatuses, DueTimes
  <1>2. ASSUME ReleaseScheduled PROVE TypeOK'
    <2>1. pubs' \in [Pubs -> PubRows]
      BY <1>2 DEF TypeOK, ReleaseScheduled, PubRows, DueTimes
    <2>2. jobs' \in [JobIds -> JobRows]
      BY <1>2, RowTypes DEF TypeOK, ReleaseScheduled
    <2>3. QED
      BY <1>2, <2>1, <2>2 DEF TypeOK, ReleaseScheduled, provider
  <1>3. ASSUME NEW c \in Cancellers, NEW p \in Pubs, CancelRead(c, p) PROVE TypeOK'
    BY <1>3 DEF TypeOK, CancelRead, provider
  <1>4. ASSUME NEW c \in Cancellers, CancelCommit(c) PROVE TypeOK'
    BY <1>4 DEF TypeOK, CancelCommit, provider, PubRows, PubStatuses
  <1>5. ASSUME NEW p \in Pubs, BecomeDue(p) PROVE TypeOK'
    BY <1>5 DEF TypeOK, BecomeDue, provider, PubRows, DueTimes
  <1>6. ASSUME NewDay PROVE TypeOK'
    <2>1. pubs' \in [Pubs -> PubRows]
      BY <1>6 DEF TypeOK, NewDay, PubRows, DueTimes
    <2>2. worker' \in [Workers -> WorkerStates]
      BY <1>6 DEF TypeOK, NewDay, WorkerStates, DueTimes
    <2>3. QED
      BY <1>6, <2>1, <2>2 DEF TypeOK, NewDay, provider
  <1>7. ASSUME NEW j \in JobIds, BecomeStuck(j) PROVE TypeOK'
    BY <1>7 DEF TypeOK, BecomeStuck, provider, JobRows
  <1>8. ASSUME Reap PROVE TypeOK'
    BY <1>8, RowTypes DEF TypeOK, Reap, provider
  <1>9. QED
    BY <1>1, <1>2, <1>3, <1>4, <1>5, <1>6, <1>7, <1>8

\* So does every step of a worker.
LEMMA TypeWorker ==
    ASSUME TypeOK, Busy, NEW w \in Workers, WorkerStep(w)
    PROVE  TypeOK'
  <1> USE DEF provider
  <1>1. ASSUME NEW j \in JobIds, StartRead(w, j) PROVE TypeOK'
    <2>1. pubs[j[1]].key \in Nat
      BY DEF TypeOK, PubRows, JobIds
    <2>2. worker' \in [Workers -> WorkerStates]
      BY <1>1, <2>1 DEF TypeOK, StartRead, WorkerStates, Idle, DueTimes
    <2>3. QED
      BY <1>1, <2>2 DEF TypeOK, StartRead
  <1>2. ASSUME NEW j \in JobIds, StartRefuse(w, j) PROVE TypeOK'
    BY <1>2, RowTypes DEF TypeOK, StartRefuse
  <1>idle. Idle \in WorkerStates
    BY DEF WorkerStates, Idle, DueTimes
  <1>seen. worker[w].seen \in Nat /\ worker[w].until \in DueTimes
    BY DEF TypeOK, WorkerStates
  <1>3. CASE StartCommit(w)
    <2>1. pubs' \in [Pubs -> PubRows]
      BY <1>3 DEF TypeOK, StartCommit, PubRows, PubStatuses
    <2>2. jobs' \in [JobIds -> JobRows]
      BY <1>3, RowTypes DEF TypeOK, StartCommit
    <2>3. worker' \in [Workers -> WorkerStates]
      BY <1>3 DEF TypeOK, StartCommit, WorkerStates
    <2>4. QED
      BY <1>3, <2>1, <2>2, <2>3 DEF TypeOK, StartCommit
  <1>4. CASE StartRollback(w) \/ CloseRaise(w) \/ CloseRollback(w) \/ Crash(w)
    BY <1>4, <1>idle DEF TypeOK, StartRollback, CloseRaise, CloseRollback, Crash
  <1>5. CASE CheckRate(w)
    <2>1. worker' \in [Workers -> WorkerStates]
      BY <1>5 DEF TypeOK, CheckRate, WorkerStates, DueTimes
    <2>2. QED
      BY <1>5, <2>1 DEF TypeOK, CheckRate
  <1>6. CASE PublishOk(w) \/ PublishError(w)
    <2>1. worker' \in [Workers -> WorkerStates]
      BY <1>6 DEF TypeOK, PublishOk, PublishError, WorkerStates
    <2>2. known' \in SUBSET Nat /\ posts' \in [Pubs -> Nat]
      <3>1. worker[w].key \in Nat /\ PubOf(w) \in Pubs
        BY <1>6 DEF TypeOK, Busy, WorkerStates, PublishOk, PublishError, PubOf, JobIds
      <3>2. CASE Post(w)
        <4> DEFINE n == IF worker[w].key \in known THEN posts[PubOf(w)] ELSE posts[PubOf(w)] + 1
        <4>1. n \in Nat
          BY <3>1 DEF TypeOK
        <4>2. posts' = [posts EXCEPT ![PubOf(w)] = n]
          BY <3>2 DEF Post
        <4> HIDE DEF n
        <4>3. posts' \in [Pubs -> Nat]
          BY <4>1, <4>2 DEF TypeOK
        <4>4. known' \in SUBSET Nat
          BY <3>1, <3>2 DEF TypeOK, Post
        <4>5. QED
          BY <4>3, <4>4
      <3>3. CASE UNCHANGED <<known, posts>>
        BY <3>3 DEF TypeOK
      <3>4. QED
        BY <1>6, <3>2, <3>3 DEF PublishOk, PublishError
    <2>3. QED
      BY <1>6, <2>1, <2>2 DEF TypeOK, PublishOk, PublishError
  <1>7. CASE CloseRead(w)
    <2>1. worker[w].job \in JobIds => jobs[worker[w].job].attempts \in Nat
      BY RowTypes DEF TypeOK
    <2>2. worker[w].job \in JobIds
      BY <1>7 DEF CloseRead, Outcome, Busy
    <2>3. Outcome[worker[w].pc] \in {"complete", "fail", "defer"}
      BY <1>7 DEF CloseRead, Outcome
    <2> DEFINE then == Outcome[worker[w].pc]
               seen == jobs[worker[w].job].attempts
    <2>4. worker' = [worker EXCEPT ![w] = [worker[w] EXCEPT !.pc = "closing", !.then = then,
                                                            !.seen = seen]]
      BY <1>7 DEF TypeOK, CloseRead
    <2>6. then \in {"none", "complete", "fail", "defer"} /\ seen \in Nat
      BY <2>1, <2>2, <2>3
    <2> HIDE DEF then, seen
    <2>7. [worker[w] EXCEPT !.pc = "closing", !.then = then, !.seen = seen] \in WorkerStates
      BY <2>6 DEF TypeOK, WorkerStates
    <2>8. worker' \in [Workers -> WorkerStates]
      BY <2>4, <2>7 DEF TypeOK
    <2>5. QED
      BY <1>7, <2>8 DEF TypeOK, CloseRead
  <1>8. CASE CompletePublish(w)
    <2>1. pubs' \in [Pubs -> PubRows]
      BY <1>8 DEF TypeOK, CompletePublish, PubRows, PubStatuses
    <2>2. jobs' \in [JobIds -> JobRows]
      BY <1>8, RowTypes DEF TypeOK, CompletePublish
    <2>3. QED
      BY <1>8, <2>1, <2>2, <1>idle DEF TypeOK, CompletePublish
  <1>9. CASE FailPublish(w)
    <2>1. pubs' \in [Pubs -> PubRows]
      BY <1>9 DEF TypeOK, FailPublish, FailedRow, FailedStatus, PubRows, PubStatuses
    <2>2. jobs' \in [JobIds -> JobRows]
      BY <1>9, <1>seen, RowTypes DEF TypeOK, FailPublish, FailedRow, FailedStatus
    <2>3. QED
      BY <1>9, <2>1, <2>2, <1>idle DEF TypeOK, FailPublish, FailedRow, FailedStatus
  <1>10. CASE DeferPublish(w)
    <2>1. pubs' \in [Pubs -> PubRows]
      BY <1>10, <1>seen DEF TypeOK, DeferPublish, PubRows, PubStatuses
    <2>2. jobs' \in [JobIds -> JobRows]
      BY <1>10, RowTypes DEF TypeOK, DeferPublish
    <2>3. QED
      BY <1>10, <2>1, <2>2, <1>idle DEF TypeOK, DeferPublish
  <1>11. QED
    BY <1>1, <1>2, <1>3, <1>4, <1>5, <1>6, <1>7, <1>8, <1>9, <1>10
    DEF WorkerStep, Start, Close

\* The idempotency key of a publication is its own and is committed before
\* a worker can carry it to the provider; the provider has made a post for
\* exactly the keys it knows; who reports a post knows that there is one.
KeyInv ==
    /\ \A p \in Pubs : pubs[p].key \in 0..keys /\ (pubs[p].status = None <=> pubs[p].key = 0)
    /\ \A p, q \in Pubs : pubs[p].key = pubs[q].key /\ pubs[p].key # 0 => p = q
    /\ known \subseteq 1..keys
    /\ \A p \in Pubs : posts[p] = IF pubs[p].key \in known THEN 1 ELSE 0
    /\ \A w \in Workers : worker[w].pc # "idle" =>
          /\ worker[w].key = pubs[PubOf(w)].key
          /\ worker[w].key # 0
    /\ \A w \in Workers :
          worker[w].pc = "posted" \/ (worker[w].pc = "closing" /\ worker[w].then = "complete")
              => worker[w].key \in known
    /\ \A p \in Pubs : pubs[p].status = "published" => pubs[p].key \in known
    /\ \A c \in Cancellers : cancel[c] # None => pubs[cancel[c]].status # None

PostInv == TypeOK /\ Busy /\ KeyInv

\* Both hold initially.
LEMMA PostInit == Init => PostInv
  <1> SUFFICES ASSUME Init PROVE PostInv
    OBVIOUS
  <1>1. \A p \in Pubs : pubs[p].key = 0 /\ pubs[p].status = None /\ posts[p] = 0
    BY DEF Init
  <1>2. \A w \in Workers : worker[w].pc = "idle"
    BY DEF Init, Idle
  <1>3. \A c \in Cancellers : cancel[c] = None
    BY DEF Init
  <1>4. Busy
    BY <1>2 DEF Busy
  <1>5. KeyInv
    <2>1. known = {} /\ keys = 0 /\ None # "published"
      BY DEF Init, None
    <2>2. QED
      BY <1>1, <1>2, <1>3, <2>1 DEF KeyInv
  <1>6. QED
    BY <1>4, <1>5, TypeInit DEF PostInv

\* A worker may carry the key of its publication, and claim a post, only as
\* the invariant allows.
Carries(w) ==
    worker[w].pc # "idle" =>
        /\ worker[w].job \in JobIds
        /\ worker[w].key = pubs[PubOf(w)].key
        /\ worker[w].key # 0
Reports(w) ==
    worker[w].pc = "posted" \/ (worker[w].pc = "closing" /\ worker[w].then = "complete")
        => worker[w].key \in known

\* What a step must leave alone to keep the invariant: keys and provider, the
\* key of every row, and the existence of rows; what becomes published has a
\* key the provider knows.
LEMMA Frame ==
    ASSUME PostInv, UNCHANGED <<keys, known, posts>>,
           \A p \in Pubs : /\ pubs'[p].key = pubs[p].key
                           /\ pubs'[p].status = None <=> pubs[p].status = None
                           /\ pubs'[p].status = "published" =>
                                 pubs[p].status = "published" \/ pubs[p].key \in known,
           \A w \in Workers : Carries(w)' /\ Reports(w)',
           \A c \in Cancellers : cancel'[c] # None => pubs'[cancel'[c]].status # None
    PROVE  Busy' /\ KeyInv'
  <1>1. Busy'
    BY DEF Busy, Carries
  <1>2. \A p \in Pubs : pubs'[p].key \in 0..keys' /\ (pubs'[p].status = None <=> pubs'[p].key = 0)
    BY DEF PostInv, KeyInv
  <1>3. \A p, q \in Pubs : pubs'[p].key = pubs'[q].key /\ pubs'[p].key # 0 => p = q
    BY DEF PostInv, KeyInv
  <1>4. known' \subseteq 1..keys' /\ \A p \in Pubs : posts'[p] = IF pubs'[p].key \in known' THEN 1 ELSE 0
    BY DEF PostInv, KeyInv
  <1>5. \A p \in Pubs : pubs'[p].status = "published" => pubs'[p].key \in known'
    BY DEF PostInv, KeyInv
  <1>6. QED
    BY <1>1, <1>2, <1>3, <1>4, <1>5 DEF KeyInv, Carries, Reports

\* The invariant in the form in which the steps use it.
LEMMA Now ==
    ASSUME PostInv
    PROVE  \A w \in Workers : Carries(w) /\ Reports(w)
  BY DEF PostInv, Busy, KeyInv, Carries, Reports

\* If the keys of the rows stay and a worker is idle, unchanged or as before
\* except for what it does next, it carries the right key.
LEMMA WorkerFrame ==
    ASSUME PostInv, NEW w \in Workers, UNCHANGED known,
           \A p \in Pubs : pubs'[p].key = pubs[p].key,
           \A v \in Workers \ {w} : worker'[v] = worker[v],
           \/ worker'[w] = Idle
           \/ /\ worker[w].pc # "idle"
              /\ worker'[w].job = worker[w].job /\ worker'[w].key = worker[w].key
              /\ \/ worker'[w].pc \notin {"posted", "closing"}
                 \/ worker'[w].pc = "closing" /\
                       (worker'[w].then = "complete" => worker[w].pc = "posted")
    PROVE  \A v \in Workers : Carries(v)' /\ Reports(v)'
  <1> TAKE v \in Workers
  <1>1. Carries(v) /\ Reports(v) /\ Carries(w) /\ Reports(w)
    BY Now
  <1>2. CASE v # w
    <2>1. worker'[v] = worker[v]
      BY <1>2
    <2>2. worker[v].job \in JobIds => worker[v].job[1] \in Pubs
      BY DEF JobIds
    <2>3. QED
      BY <1>1, <2>1, <2>2 DEF Carries, Reports, PubOf
  <1>3. CASE v = w /\ worker'[w] = Idle
    BY <1>3 DEF Carries, Reports, Idle
  <1>4. CASE v = w /\ worker'[w] # Idle
    <2>1. /\ worker'[w].job = worker[w].job /\ worker'[w].key = worker[w].key
          /\ worker[w].job \in JobIds /\ worker[w].job[1] \in Pubs
      BY <1>1, <1>4 DEF Carries, JobIds
    <2>2. Carries(w)'
      BY <1>1, <1>4, <2>1 DEF Carries, PubOf
    <2>3. Reports(w)'
      BY <1>1, <1>4, <2>1 DEF Reports
    <2>4. QED
      BY <1>4, <2>2, <2>3
  <1>5. QED
    BY <1>2, <1>3, <1>4

\* A step that leaves the workers alone keeps what they carry, if the keys
\* of the rows and of the provider stay.
LEMMA WorkersStay ==
    ASSUME PostInv, UNCHANGED known,
           \A p \in Pubs : pubs'[p].key = pubs[p].key,
           \A w \in Workers : /\ worker'[w].pc = worker[w].pc
                              /\ worker'[w].job = worker[w].job
                              /\ worker'[w].key = worker[w].key
                              /\ worker'[w].then = worker[w].then
    PROVE  \A w \in Workers : Carries(w)' /\ Reports(w)'
  <1> TAKE w \in Workers
  <1>1. Carries(w) /\ Reports(w)
    BY Now
  <1>2. worker[w].job \in JobIds => worker[w].job[1] \in Pubs
    BY DEF JobIds
  <1>3. QED
    BY <1>1, <1>2 DEF Carries, Reports, PubOf

\* A new publication gets a key nobody has used.
LEMMA CreateStep ==
    ASSUME PostInv, NEW p \in Pubs, NEW v \in Variants, CreatePublication(p, v)
    PROVE  Busy' /\ KeyInv'
  <1>1. /\ keys' = keys + 1 /\ pubs[p].status = None
        /\ UNCHANGED <<worker, cancel, known, posts>>
    BY DEF CreatePublication, provider
  <1>2. PICK due \in {"now", "later"} :
           pubs' = [pubs EXCEPT ![p] = [status |-> "scheduled", variant |-> v,
                                        key |-> keys + 1, due |-> due]]
    BY DEF CreatePublication
  <1>3. pubs'[p].key = keys + 1 /\ pubs'[p].status = "scheduled"
    BY <1>2 DEF PostInv, TypeOK
  <1>4. \A q \in Pubs \ {p} : pubs'[q] = pubs[q]
    BY <1>2 DEF PostInv, TypeOK
  <1>5. /\ keys \in Nat /\ known \subseteq 1..keys /\ pubs[p].key = 0 /\ posts[p] = 0
        /\ \A q \in Pubs : pubs[q].key \in 0..keys
        /\ \A q \in Pubs : pubs[q].status = None <=> pubs[q].key = 0
    BY <1>1 DEF PostInv, TypeOK, KeyInv
  <1>6. \A w \in Workers : worker[w].pc # "idle" => worker[w].job[1] \in Pubs \ {p}
    <2> TAKE w \in Workers
    <2>1. Carries(w)
      BY Now
    <2>2. worker[w].job \in JobIds => worker[w].job[1] \in Pubs
      BY DEF JobIds
    <2>3. QED
      BY <1>5, <2>1, <2>2 DEF Carries, PubOf
  <1>7. Busy'
    BY <1>1 DEF PostInv, Busy
  <1>8. \A q \in Pubs : pubs'[q].key \in 0..keys' /\ (pubs'[q].status = None <=> pubs'[q].key = 0)
    <2> TAKE q \in Pubs
    <2>1. CASE q = p
      BY <1>1, <1>3, <1>5, <2>1 DEF None
    <2>2. CASE q # p
      BY <1>1, <1>4, <1>5, <2>2
    <2>3. QED
      BY <2>1, <2>2
  <1>9. \A q, r \in Pubs : pubs'[q].key = pubs'[r].key /\ pubs'[q].key # 0 => q = r
    <2>1. \A q, r \in Pubs \ {p} : pubs'[q].key = pubs'[r].key /\ pubs'[q].key # 0 => q = r
      BY <1>4 DEF PostInv, KeyInv
    <2>2. \A q \in Pubs \ {p} : pubs'[q].key # keys + 1
      BY <1>4, <1>5
    <2>3. QED
      BY <1>3, <2>1, <2>2
  <1>10. known' \subseteq 1..keys'
    BY <1>1, <1>5
  <1>11. \A q \in Pubs : posts'[q] = IF pubs'[q].key \in known' THEN 1 ELSE 0
    <2>1. keys + 1 \notin known
      BY <1>5
    <2>2. \A q \in Pubs : posts[q] = IF pubs[q].key \in known THEN 1 ELSE 0
      BY DEF PostInv, KeyInv
    <2>3. QED
      BY <1>1, <1>3, <1>4, <1>5, <2>1, <2>2
  <1>12. \A w \in Workers : worker'[w].pc # "idle" =>
            worker'[w].key = pubs'[PubOf(w)'].key /\ worker'[w].key # 0
    BY <1>1, <1>4, <1>6, Now DEF Carries, PubOf
  <1>13. \A q \in Pubs : pubs'[q].status = "published" => pubs'[q].key \in known'
    BY <1>1, <1>3, <1>4 DEF PostInv, KeyInv
  <1>14. \A c \in Cancellers : cancel'[c] # None => pubs'[cancel'[c]].status # None
    BY <1>1, <1>3, <1>4 DEF PostInv, KeyInv, TypeOK, None
  <1>15. \A w \in Workers : Reports(w)'
    BY <1>1, Now DEF Reports
  <1>16. QED
    BY <1>7, <1>8, <1>9, <1>10, <1>11, <1>12, <1>13, <1>14, <1>15 DEF KeyInv, Reports

\* Releasing, cancelling, time and the reaper keep the invariant.
LEMMA OutsideSteps ==
    ASSUME PostInv
    PROVE  /\ ReleaseScheduled => Busy' /\ KeyInv'
           /\ \A c \in Cancellers, p \in Pubs : CancelRead(c, p) => Busy' /\ KeyInv'
           /\ \A c \in Cancellers : CancelCommit(c) => Busy' /\ KeyInv'
           /\ \A p \in Pubs : BecomeDue(p) => Busy' /\ KeyInv'
           /\ NewDay => Busy' /\ KeyInv'
           /\ \A j \in JobIds : BecomeStuck(j) => Busy' /\ KeyInv'
           /\ Reap => Busy' /\ KeyInv'
  <1> DEFINE RowsStay == \A p \in Pubs : pubs'[p].key = pubs[p].key /\ pubs'[p].status = pubs[p].status
  <1>1. ASSUME RowsStay, UNCHANGED <<keys, worker, cancel, known, posts>>
        PROVE  Busy' /\ KeyInv'
    <2>1. \A w \in Workers : Carries(w)' /\ Reports(w)'
      BY <1>1, WorkersStay
    <2>2. \A c \in Cancellers : cancel'[c] # None => pubs'[cancel'[c]].status # None
      BY <1>1 DEF PostInv, KeyInv, TypeOK
    <2>3. QED
      BY <1>1, <2>1, <2>2, Frame
  <1>2. ASSUME ReleaseScheduled PROVE Busy' /\ KeyInv'
    <2>1. RowsStay
      BY <1>2 DEF ReleaseScheduled, PostInv, TypeOK, PubRows
    <2>2. QED
      BY <1>1, <1>2, <2>1 DEF ReleaseScheduled, provider
  <1>3. ASSUME NEW c \in Cancellers, NEW p \in Pubs, CancelRead(c, p) PROVE Busy' /\ KeyInv'
    <2>1. \A w \in Workers : Carries(w)' /\ Reports(w)'
      BY <1>3, WorkersStay DEF CancelRead, provider
    <2>2. \A d \in Cancellers : cancel'[d] # None => pubs'[cancel'[d]].status # None
      <3>1. pubs[p].status # None
        BY <1>3 DEF CancelRead, None
      <3>2. cancel' = [cancel EXCEPT ![c] = p] /\ pubs' = pubs
        BY <1>3 DEF CancelRead
      <3>3. QED
        BY <3>1, <3>2 DEF PostInv, KeyInv, TypeOK
    <2>3. QED
      BY <1>3, <2>1, <2>2, Frame DEF CancelRead, provider
  <1>4. ASSUME NEW c \in Cancellers, CancelCommit(c) PROVE Busy' /\ KeyInv'
    <2>1. /\ cancel[c] \in Pubs /\ pubs[cancel[c]].status # None
          /\ pubs' = [pubs EXCEPT ![cancel[c]].status = "cancelled"]
          /\ cancel' = [cancel EXCEPT ![c] = None]
          /\ UNCHANGED <<keys, worker, known, posts>>
      BY <1>4 DEF CancelCommit, provider, PostInv, TypeOK, KeyInv
    <2>2. \A p \in Pubs : /\ pubs'[p].key = pubs[p].key
                          /\ pubs'[p].status = None <=> pubs[p].status = None
                          /\ pubs'[p].status = "published" => pubs[p].status = "published"
      BY <2>1 DEF PostInv, TypeOK, PubRows, None
    <2>3. \A w \in Workers : Carries(w)' /\ Reports(w)'
      BY <2>1, <2>2, WorkersStay
    <2>4. \A d \in Cancellers : cancel'[d] # None => pubs'[cancel'[d]].status # None
      BY <2>1, <2>2 DEF PostInv, TypeOK, KeyInv
    <2>5. QED
      BY <2>1, <2>2, <2>3, <2>4, Frame
  <1>5. ASSUME NEW p \in Pubs, BecomeDue(p) PROVE Busy' /\ KeyInv'
    <2>1. RowsStay
      BY <1>5 DEF BecomeDue, PostInv, TypeOK, PubRows
    <2>2. QED
      BY <1>1, <1>5, <2>1 DEF BecomeDue, provider
  <1>6. ASSUME NewDay PROVE Busy' /\ KeyInv'
    <2>1. RowsStay
      BY <1>6 DEF NewDay, PostInv, TypeOK, PubRows
    <2>2. \A w \in Workers : Carries(w)' /\ Reports(w)'
      <3>1. \A w \in Workers : /\ worker'[w].pc = worker[w].pc
                               /\ worker'[w].job = worker[w].job
                               /\ worker'[w].key = worker[w].key
                               /\ worker'[w].then = worker[w].then
        BY <1>6 DEF NewDay, PostInv, TypeOK, WorkerStates
      <3>2. QED
        BY <1>6, <2>1, <3>1, WorkersStay DEF NewDay, provider
    <2>3. \A c \in Cancellers : cancel'[c] # None => pubs'[cancel'[c]].status # None
      BY <1>6, <2>1 DEF NewDay, PostInv, KeyInv, TypeOK
    <2>4. QED
      BY <1>6, <2>1, <2>2, <2>3, Frame DEF NewDay, provider
  <1>7. ASSUME NEW j \in JobIds, BecomeStuck(j) PROVE Busy' /\ KeyInv'
    BY <1>1, <1>7 DEF BecomeStuck, provider
  <1>8. ASSUME Reap PROVE Busy' /\ KeyInv'
    BY <1>1, <1>8 DEF Reap, provider
  <1>9. QED
    BY <1>2, <1>3, <1>4, <1>5, <1>6, <1>7, <1>8
\* The provider call: it adds the worker's key to the known ones and a post
\* exactly if the key is new, so posts go on counting known keys.
LEMMA PostStep ==
    ASSUME PostInv, NEW w \in Workers, worker[w].pc = "allowed", Post(w),
           NEW pc \in {"posted", "broken"},
           worker' = [worker EXCEPT ![w].pc = pc],
           UNCHANGED <<pubs, keys, cancel>>
    PROVE  Busy' /\ KeyInv'
  <1> DEFINE p == worker[w].job[1]
             k == worker[w].key
  <1>1. Carries(w)
    BY Now
  <1>2. p \in Pubs /\ k = pubs[p].key /\ k # 0 /\ worker[w].job \in JobIds
    BY <1>1 DEF Carries, PubOf, JobIds
  <1>3. known' = known \cup {k} /\ p = PubOf(w)
    BY DEF Post, PubOf
  <1>4. posts' = [posts EXCEPT ![p] = IF k \in known THEN @ ELSE @ + 1]
    BY DEF Post, PubOf
  <1>5. \A q \in Pubs : posts[q] = IF pubs[q].key \in known THEN 1 ELSE 0
    BY DEF PostInv, KeyInv
  <1>6. \A q \in Pubs : q # p => pubs[q].key # k
    BY <1>2 DEF PostInv, KeyInv
  <1>7. \A v \in Workers : /\ worker'[v].job = worker[v].job
                           /\ worker'[v].key = worker[v].key
                           /\ worker'[v].then = worker[v].then
                           /\ v # w => worker'[v].pc = worker[v].pc
                           /\ v = w => worker'[v].pc = pc
    BY DEF PostInv, TypeOK, WorkerStates
  <1> HIDE DEF p, k
  <1>8. \A q \in Pubs : posts'[q] = IF pubs'[q].key \in known' THEN 1 ELSE 0
    <2>1. posts'[p] = 1
      BY <1>2, <1>4, <1>5 DEF PostInv, TypeOK
    <2>2. \A q \in Pubs : q # p => posts'[q] = posts[q]
      BY <1>4 DEF PostInv, TypeOK
    <2>3. QED
      BY <1>2, <1>3, <1>5, <1>6, <2>1, <2>2
  <1>9. known' \subseteq 1..keys'
    <2>1. k \in 1..keys
      BY <1>2 DEF PostInv, KeyInv, TypeOK
    <2>2. QED
      BY <1>3, <2>1 DEF PostInv, KeyInv
  <1>10. \A v \in Workers : Carries(v)'
    <2> TAKE v \in Workers
    <2>1. Carries(v)
      BY Now
    <2>2. QED
      BY <1>7, <1>1, <2>1 DEF Carries, PubOf
  <1>11. \A v \in Workers : Reports(v)'
    <2> TAKE v \in Workers
    <2>1. Reports(v)
      BY Now
    <2>2. CASE v = w
      BY <1>3, <1>7, <2>2 DEF Reports, k
    <2>3. CASE v # w
      BY <1>3, <1>7, <2>1, <2>3 DEF Reports
    <2>4. QED
      BY <2>2, <2>3
  <1>12. Busy'
    BY <1>10 DEF Busy, Carries
  <1>13. /\ \A q \in Pubs : pubs'[q].status = "published" => pubs'[q].key \in known'
         /\ \A q \in Pubs : pubs'[q].key \in 0..keys' /\ (pubs'[q].status = None <=> pubs'[q].key = 0)
         /\ \A q, r \in Pubs : pubs'[q].key = pubs'[r].key /\ pubs'[q].key # 0 => q = r
         /\ \A c \in Cancellers : cancel'[c] # None => pubs'[cancel'[c]].status # None
    BY <1>3 DEF PostInv, KeyInv
  <1>14. QED
    BY <1>8, <1>9, <1>10, <1>11, <1>12, <1>13 DEF KeyInv, Carries, Reports

\* Every step of a worker keeps the invariant.
LEMMA WorkerSteps ==
    ASSUME PostInv, NEW w \in Workers, WorkerStep(w)
    PROVE  Busy' /\ KeyInv'
  <1> USE DEF provider
  <1> DEFINE Cancels == \A c \in Cancellers : cancel'[c] # None => pubs'[cancel'[c]].status # None
  <1>0. ASSUME UNCHANGED <<pubs, cancel>> PROVE Cancels
    BY <1>0 DEF PostInv, KeyInv
  <1>type. /\ worker \in [Workers -> WorkerStates] /\ pubs \in [Pubs -> PubRows]
           /\ worker[w].pc # "idle" => worker[w].job \in JobIds /\ PubOf(w) \in Pubs
    BY DEF PostInv, TypeOK, Busy, PubOf, JobIds
  <1>1. ASSUME NEW j \in JobIds, StartRead(w, j) PROVE Busy' /\ KeyInv'
    <2>1. /\ worker' = [worker EXCEPT ![w] = [Idle EXCEPT !.pc = "starting", !.job = j,
                                                          !.key = pubs[j[1]].key]]
          /\ pubs[j[1]].status # None
          /\ UNCHANGED <<pubs, keys, cancel, known, posts>>
      BY <1>1 DEF StartRead, None
    <2>2. j[1] \in Pubs
      BY DEF JobIds
    <2>3. pubs[j[1]].key # 0
      BY <2>1, <2>2 DEF PostInv, KeyInv
    <2>4. /\ worker'[w].pc = "starting" /\ worker'[w].job = j /\ worker'[w].key = pubs[j[1]].key
          /\ \A v \in Workers : v # w => worker'[v] = worker[v]
      BY <2>1, <1>type DEF Idle
    <2>5. \A v \in Workers : Carries(v)' /\ Reports(v)'
      <3> TAKE v \in Workers
      <3>1. Carries(v) /\ Reports(v)
        BY Now
      <3>2. CASE v = w
        BY <2>1, <2>3, <2>4, <3>2 DEF Carries, Reports, PubOf
      <3>3. CASE v # w
        BY <2>1, <2>4, <3>1, <3>3 DEF Carries, Reports, PubOf
      <3>4. QED
        BY <3>2, <3>3
    <2>6. QED
      BY <2>1, <2>5, <1>0, Frame
  <1>2. ASSUME NEW j \in JobIds, StartRefuse(w, j) PROVE Busy' /\ KeyInv'
    <2>1. UNCHANGED <<pubs, keys, worker, cancel, known, posts>>
      BY <1>2 DEF StartRefuse
    <2>2. QED
      BY <2>1, <1>0, WorkersStay, Frame
  \* Steps after which w is idle and that leave the publications alone.
  <1>3. CASE StartRollback(w) \/ CloseRaise(w) \/ CloseRollback(w) \/ Crash(w)
    <2>1. worker' = [worker EXCEPT ![w] = Idle] /\ UNCHANGED <<pubs, keys, cancel, known, posts>>
      BY <1>3 DEF StartRollback, CloseRaise, CloseRollback, Crash
    <2>2. worker'[w] = Idle /\ \A v \in Workers \ {w} : worker'[v] = worker[v]
      BY <2>1, <1>type
    <2>3. QED
      BY <2>1, <2>2, <1>0, WorkerFrame, Frame
  <1>4. CASE CheckRate(w)
    <2>1. /\ worker[w].pc = "checking" /\ UNCHANGED <<pubs, keys, cancel, known, posts>>
          /\ \/ worker' = [worker EXCEPT ![w].pc = "allowed"]
             \/ worker' = [worker EXCEPT ![w].pc = "limited", ![w].until = "tomorrow"]
      BY <1>4 DEF CheckRate
    <2>2. /\ worker'[w].job = worker[w].job /\ worker'[w].key = worker[w].key
          /\ worker'[w].pc \in {"allowed", "limited"}
          /\ \A v \in Workers \ {w} : worker'[v] = worker[v]
      BY <2>1, <1>type DEF WorkerStates
    <2>3. QED
      BY <2>1, <2>2, <1>0, WorkerFrame, Frame
  <1>5. CASE PublishOk(w)
    BY <1>5, PostStep DEF PublishOk
  <1>6. CASE PublishError(w)
    <2>1. /\ worker[w].pc = "allowed" /\ UNCHANGED <<pubs, keys, cancel>>
          /\ worker' = [worker EXCEPT ![w].pc = "broken"]
      BY <1>6 DEF PublishError
    <2>2. CASE Post(w)
      BY <2>1, <2>2, PostStep
    <2>3. CASE UNCHANGED <<known, posts>>
      <3>1. /\ worker'[w].job = worker[w].job /\ worker'[w].key = worker[w].key
            /\ worker'[w].pc = "broken"
            /\ \A v \in Workers \ {w} : worker'[v] = worker[v]
        BY <2>1, <1>type DEF WorkerStates
      <3>2. QED
        BY <2>1, <2>3, <3>1, <1>0, WorkerFrame, Frame
    <2>4. QED
      BY <1>6, <2>2, <2>3 DEF PublishError
  <1>7. CASE CloseRead(w)
    <2>1. /\ worker[w].pc \in {"posted", "broken", "limited"}
          /\ UNCHANGED <<pubs, keys, cancel, known, posts>>
          /\ Outcome[worker[w].pc] = "complete" => worker[w].pc = "posted"
      BY <1>7 DEF CloseRead, Outcome
    <2> DEFINE then == Outcome[worker[w].pc]
               seen == jobs[worker[w].job].attempts
    <2>2. worker' = [worker EXCEPT ![w] = [worker[w] EXCEPT !.pc = "closing", !.then = then,
                                                            !.seen = seen]]
      BY <1>7, <1>type DEF CloseRead
    <2>3. then = "complete" => worker[w].pc = "posted"
      BY <2>1
    <2> HIDE DEF then, seen
    <2>4. /\ worker'[w].job = worker[w].job /\ worker'[w].key = worker[w].key
          /\ worker'[w].pc = "closing" /\ worker'[w].then = then
          /\ \A v \in Workers \ {w} : worker'[v] = worker[v]
      BY <2>2, <1>type DEF WorkerStates
    <2>5. QED
      BY <2>1, <2>3, <2>4, <1>0, WorkerFrame, Frame
  \* Steps that write the status of a publication that exists.
  <1>8. ASSUME NEW status \in PubStatuses, worker[w].pc # "idle",
               \A q \in Pubs : /\ pubs'[q].key = pubs[q].key
                               /\ pubs'[q].status = IF q = PubOf(w) THEN status ELSE pubs[q].status,
               status = "published" => worker[w].key \in known,
               \/ worker' = [worker EXCEPT ![w] = Idle]
               \/ worker' = [worker EXCEPT ![w].pc = "checking"],
               UNCHANGED <<keys, cancel, known, posts>>
        PROVE  Busy' /\ KeyInv'
    <2>1. Carries(w)
      BY Now
    <2>2. PubOf(w) \in Pubs /\ pubs[PubOf(w)].key = worker[w].key /\ pubs[PubOf(w)].status # None
      BY <1>8, <1>type, <2>1 DEF Carries, PostInv, KeyInv
    <2>3. status # None
      BY <1>8 DEF PubStatuses, None
    <2>4. \A q \in Pubs : /\ pubs'[q].key = pubs[q].key
                          /\ pubs'[q].status = None <=> pubs[q].status = None
                          /\ pubs'[q].status = "published" =>
                                pubs[q].status = "published" \/ pubs[q].key \in known
      BY <1>8, <2>2, <2>3
    <2>5. \A v \in Workers : Carries(v)' /\ Reports(v)'
      <3>1. \A v \in Workers \ {w} : worker'[v] = worker[v]
        BY <1>8, <1>type
      <3>2. \/ worker'[w] = Idle
            \/ /\ worker'[w].job = worker[w].job /\ worker'[w].key = worker[w].key
               /\ worker'[w].pc = "checking"
        BY <1>8, <1>type DEF WorkerStates
      <3>3. QED
        BY <1>8, <2>4, <3>1, <3>2, WorkerFrame
    <2>6. Cancels
      BY <1>8, <2>4 DEF PostInv, KeyInv, TypeOK
    <2>7. QED
      BY <1>8, <2>4, <2>5, <2>6, Frame
  <1>9. CASE StartCommit(w)
    <2>1. /\ worker[w].pc # "idle" /\ pubs' = [pubs EXCEPT ![PubOf(w)].status = "dispatching"]
          /\ worker' = [worker EXCEPT ![w].pc = "checking"]
          /\ UNCHANGED <<keys, cancel, known, posts>>
      BY <1>9 DEF StartCommit
    <2>2. \A q \in Pubs :
             /\ pubs'[q].key = pubs[q].key
             /\ pubs'[q].status = IF q = PubOf(w) THEN "dispatching" ELSE pubs[q].status
      BY <2>1, <1>type DEF PubRows
    <2>3. QED
      BY <2>1, <2>2, <1>8 DEF PubStatuses
  <1>10. CASE CompletePublish(w)
    <2>1. /\ worker[w].pc = "closing" /\ worker[w].then = "complete"
          /\ pubs' = [pubs EXCEPT ![PubOf(w)].status = "published"]
          /\ worker' = [worker EXCEPT ![w] = Idle]
          /\ UNCHANGED <<keys, cancel, known, posts>>
      BY <1>10 DEF CompletePublish, Closing
    <2>2. \A q \in Pubs :
             /\ pubs'[q].key = pubs[q].key
             /\ pubs'[q].status = IF q = PubOf(w) THEN "published" ELSE pubs[q].status
      BY <2>1, <1>type DEF PubRows
    <2>3. worker[w].key \in known
      BY <2>1, Now DEF Reports
    <2>4. QED
      BY <2>1, <2>2, <2>3, <1>8 DEF PubStatuses
  <1>11. CASE FailPublish(w)
    <2>1. /\ worker[w].pc # "idle"
          /\ worker' = [worker EXCEPT ![w] = Idle]
          /\ UNCHANGED <<keys, cancel, known, posts>>
      BY <1>11 DEF FailPublish, Closing
    <2>2. PICK status \in {"dead", "failed"} : pubs' = [pubs EXCEPT ![PubOf(w)].status = status]
      BY <1>11 DEF FailPublish, FailedRow, FailedStatus
    <2>3. \A q \in Pubs :
             /\ pubs'[q].key = pubs[q].key
             /\ pubs'[q].status = IF q = PubOf(w) THEN status ELSE pubs[q].status
      BY <2>2, <1>type DEF PubRows
    <2>4. QED
      BY <2>1, <2>3, <1>8 DEF PubStatuses
  <1>12. CASE DeferPublish(w)
    <2>1. /\ worker[w].pc # "idle"
          /\ pubs' = [pubs EXCEPT ![PubOf(w)].status = "scheduled",
                                  ![PubOf(w)].due = worker[w].until]
          /\ worker' = [worker EXCEPT ![w] = Idle]
          /\ UNCHANGED <<keys, cancel, known, posts>>
      BY <1>12 DEF DeferPublish, Closing
    <2>2. \A q \in Pubs :
             /\ pubs'[q].key = pubs[q].key
             /\ pubs'[q].status = IF q = PubOf(w) THEN "scheduled" ELSE pubs[q].status
      BY <2>1, <1>type DEF PubRows
    <2>3. QED
      BY <2>1, <2>2, <1>8 DEF PubStatuses
  <1>13. QED
    BY <1>1, <1>2, <1>3, <1>4, <1>5, <1>6, <1>7, <1>9, <1>10, <1>11, <1>12
    DEF WorkerStep, Start, Close

\* PostInv is an invariant.
LEMMA PostInvariance == Spec => []PostInv
  <1>1. PostInv /\ [Next]_vars => PostInv'
    <2> SUFFICES ASSUME PostInv, [Next]_vars PROVE PostInv'
      OBVIOUS
    <2>1. TypeOK /\ Busy
      BY DEF PostInv
    <2>2. CASE UNCHANGED vars
      BY <2>2 DEF PostInv, TypeOK, Busy, KeyInv, PubOf, vars
    <2>3. CASE Next
      <3>1. TypeOK'
        BY <2>1, <2>3, TypeOutside, TypeWorker DEF Next
      <3>2. Busy' /\ KeyInv'
        BY <2>3, CreateStep, OutsideSteps, WorkerSteps DEF Next
      <3>3. QED
        BY <3>1, <3>2 DEF PostInv
    <2>4. QED
      BY <2>2, <2>3
  <1>2. QED
    BY <1>1, PostInit, PTL DEF Spec

\* Type correctness, for every value of the constants.
THEOREM TypeCorrect == Spec => []TypeOK
  <1>1. PostInv => TypeOK
    BY DEF PostInv
  <1>2. QED
    BY <1>1, PostInvariance, PTL

\* D21's guard against double-posting: through crashes, slow workers, reaps,
\* retries, duplicate jobs, cancellations and lost provider answers, the
\* provider makes at most one post for a publication.
THEOREM PostedAtMostOnce == Spec => []OnePostPerPublication
  <1>1. PostInv => OnePostPerPublication
    BY DEF PostInv, KeyInv, OnePostPerPublication
  <1>2. QED
    BY <1>1, PostInvariance, PTL

\* What CompletePublicationPublish reports as published has its post.
THEOREM ReportedIsPosted == Spec => []PublishedWasPosted
  <1>1. PostInv => PublishedWasPosted
    BY DEF PostInv, KeyInv, PublishedWasPosted
  <1>2. QED
    BY <1>1, PostInvariance, PTL

\* The rate limiter's upsert never lets more than the limit through in a
\* window, provided the limit is not zero.
THEOREM LimitKept == RateLimit # 0 /\ Spec => []WithinRateLimit
  <1> DEFINE Inv == used \in Nat /\ used <= RateLimit
  <1>1. Init => Inv
    BY PublishingAssumptions DEF Init
  <1>2. RateLimit # 0 /\ Inv /\ [Next]_vars => Inv'
    <2> SUFFICES ASSUME RateLimit # 0, Inv, [Next]_vars PROVE Inv'
      OBVIOUS
    <2>1. ASSUME NEW w \in Workers, CheckRate(w) PROVE Inv'
      BY <2>1, PublishingAssumptions DEF CheckRate, RateAllows
    <2>2. CASE NewDay
      BY <2>2, PublishingAssumptions DEF NewDay
    <2>3. ASSUME UNCHANGED used PROVE Inv'
      BY <2>3
    <2>4. ASSUME NEW w \in Workers, WorkerStep(w), ~CheckRate(w) PROVE Inv'
      BY <2>3, <2>4 DEF WorkerStep, Start, Close, StartRead, StartRefuse, StartCommit,
         StartRollback, PublishOk, PublishError, CloseRead, CloseRaise, CompletePublish,
         FailPublish, DeferPublish, CloseRollback, Crash
    <2>5. QED
      BY <2>1, <2>2, <2>3, <2>4 DEF Next, vars, CreatePublication, ReleaseScheduled, CancelRead,
         CancelCommit, BecomeDue, BecomeStuck, Reap
  <1>3. Inv => WithinRateLimit
    BY DEF WithinRateLimit
  <1>4. CASE RateLimit # 0
    <2>1. Inv /\ [Next]_vars => Inv'
      BY <1>2, <1>4
    <2>2. QED
      BY <1>1, <2>1, <1>3, PTL DEF Spec
  <1>5. QED
    BY <1>4

------------------------------------------------------------------------------
(* Single flight, terminal statuses and the retry that is coming *)

\* A publication has at most one outstanding job: the poller's dispatch grace
\* outlasts the job.  With two, TLC shows that two starts may read the
\* publication before either commits.
OneJob == \A s, t \in JobSlots : s = t

\* Past its start transaction.
Flying(w) == worker[w].pc \notin {"idle", "starting"}

\* A worker works on a publication in the status it read, alone, and a variant
\* has at most one live publication.
FlightInv ==
    /\ \A w \in Workers : worker[w].pc = "starting" =>
          pubs[PubOf(w)].status \in {"scheduled", "failed"}
    /\ \A w \in Workers : Flying(w) => pubs[PubOf(w)].status = "dispatching"
    /\ \A v, w \in Workers :
          worker[v].pc # "idle" /\ worker[w].pc # "idle" /\ PubOf(v) = PubOf(w) => v = w
    /\ \A p, q \in Pubs :
          pubs[p].status \in LiveStatuses /\ pubs[q].status \in LiveStatuses =>
              (pubs[p].variant = pubs[q].variant => p = q)

\* A worker that goes idle, stays where it is, or moves on past its start.
Moves(w) ==
    \/ worker'[w].pc = "idle"
    \/ /\ worker'[w].job = worker[w].job
       /\ worker'[w].pc = worker[w].pc \/ (Flying(w) /\ Flying(w)')

\* No publication changes its status or its variant.
StatusesStay ==
    \A p \in Pubs : pubs'[p].status = pubs[p].status /\ pubs'[p].variant = pubs[p].variant

\* The status of publication p, and of no other, becomes `status'.
StatusBecomes(p, status) ==
    \A q \in Pubs : /\ pubs'[q].variant = pubs[q].variant
                    /\ pubs'[q].status = IF q = p THEN status ELSE pubs[q].status

\* What the steps that nobody's worker takes do to publications and workers.
LEMMA OutsideCases ==
    ASSUME TypeOK
    PROVE  /\ ReleaseScheduled => StatusesStay /\ worker' = worker
           /\ NewDay => StatusesStay /\ \A w \in Workers : Moves(w)
           /\ \A p \in Pubs : BecomeDue(p) => StatusesStay /\ worker' = worker
           /\ \A j \in JobIds : BecomeStuck(j) => StatusesStay /\ worker' = worker
           /\ Reap => StatusesStay /\ worker' = worker
           /\ \A c \in Cancellers, p \in Pubs : CancelRead(c, p) => StatusesStay /\ worker' = worker
           /\ UNCHANGED vars => StatusesStay /\ worker' = worker
  <1>1. pubs \in [Pubs -> PubRows] /\ worker \in [Workers -> WorkerStates]
    BY DEF TypeOK
  <1>2. ASSUME ReleaseScheduled PROVE StatusesStay /\ worker' = worker
    BY <1>1, <1>2 DEF ReleaseScheduled, StatusesStay, PubRows
  <1>3. ASSUME NewDay PROVE StatusesStay /\ \A w \in Workers : Moves(w)
    <2>1. StatusesStay
      BY <1>1, <1>3 DEF NewDay, StatusesStay, PubRows
    <2>2. \A w \in Workers : worker'[w].job = worker[w].job /\ worker'[w].pc = worker[w].pc
      BY <1>1, <1>3 DEF NewDay, WorkerStates
    <2>3. QED
      BY <2>1, <2>2 DEF Moves
  <1>4. ASSUME NEW p \in Pubs, BecomeDue(p) PROVE StatusesStay /\ worker' = worker
    BY <1>1, <1>4 DEF BecomeDue, StatusesStay, PubRows
  <1>5. QED
    BY <1>2, <1>3, <1>4 DEF StatusesStay, BecomeStuck, Reap, CancelRead, vars

\* What the steps of a worker do to them.
LEMMA WorkerCases ==
    ASSUME PostInv, NEW w \in Workers, WorkerStep(w)
    PROVE  /\ \A v \in Workers \ {w} : worker'[v] = worker[v]
           /\ \/ StatusesStay /\ Moves(w)
              \/ /\ StatusesStay
                 /\ \E j \in JobIds : StartRead(w, j) /\ worker'[w].pc = "starting"
                                      /\ worker'[w].job = j
              \/ /\ StartCommit(w) /\ StatusBecomes(PubOf(w), "dispatching")
                 /\ worker'[w].job = worker[w].job /\ worker'[w].pc = "checking"
              \/ /\ worker[w].pc = "closing" /\ worker'[w].pc = "idle"
                 /\ \/ CompletePublish(w) /\ StatusBecomes(PubOf(w), "published")
                    \/ FailPublish(w) /\ StatusBecomes(PubOf(w), FailedStatus(w))
                    \/ DeferPublish(w) /\ StatusBecomes(PubOf(w), "scheduled")
  <1>1. pubs \in [Pubs -> PubRows] /\ worker \in [Workers -> WorkerStates] /\ Idle.pc = "idle"
    BY DEF PostInv, TypeOK, Idle
  <1>2. ASSUME NEW j \in JobIds, StartRead(w, j)
        PROVE  /\ \A v \in Workers \ {w} : worker'[v] = worker[v]
               /\ StatusesStay /\ worker'[w].pc = "starting" /\ worker'[w].job = j
    BY <1>1, <1>2 DEF StartRead, StatusesStay, Idle
  <1>3. ASSUME NEW j \in JobIds, StartRefuse(w, j)
        PROVE  (\A v \in Workers \ {w} : worker'[v] = worker[v]) /\ StatusesStay /\ Moves(w)
    BY <1>3 DEF StartRefuse, StatusesStay, Moves
  <1>4. CASE StartRollback(w) \/ CloseRaise(w) \/ CloseRollback(w) \/ Crash(w)
    <2>1. worker' = [worker EXCEPT ![w] = Idle] /\ pubs' = pubs
      BY <1>4 DEF StartRollback, CloseRaise, CloseRollback, Crash
    <2>2. QED
      BY <1>1, <2>1 DEF StatusesStay, Moves
  <1>5. CASE CheckRate(w)
    <2>1. /\ worker[w].pc = "checking" /\ pubs' = pubs
          /\ \/ worker' = [worker EXCEPT ![w].pc = "allowed"]
             \/ worker' = [worker EXCEPT ![w].pc = "limited", ![w].until = "tomorrow"]
      BY <1>5 DEF CheckRate
    <2>2. /\ \A v \in Workers \ {w} : worker'[v] = worker[v]
          /\ worker'[w].job = worker[w].job /\ worker'[w].pc \in {"allowed", "limited"}
      BY <1>1, <2>1 DEF WorkerStates
    <2>3. QED
      BY <2>1, <2>2 DEF StatusesStay, Moves, Flying
  <1>6. CASE PublishOk(w) \/ PublishError(w)
    <2>1. /\ worker[w].pc = "allowed" /\ pubs' = pubs
          /\ \/ worker' = [worker EXCEPT ![w].pc = "posted"]
             \/ worker' = [worker EXCEPT ![w].pc = "broken"]
      BY <1>6 DEF PublishOk, PublishError
    <2>2. /\ \A v \in Workers \ {w} : worker'[v] = worker[v]
          /\ worker'[w].job = worker[w].job /\ worker'[w].pc \in {"posted", "broken"}
      BY <1>1, <2>1 DEF WorkerStates
    <2>3. QED
      BY <2>1, <2>2 DEF StatusesStay, Moves, Flying
  <1>7. CASE CloseRead(w)
    <2> DEFINE then == Outcome[worker[w].pc]
               seen == jobs[worker[w].job].attempts
    <2>1. worker' = [worker EXCEPT ![w].pc = "closing", ![w].then = then, ![w].seen = seen]
      BY <1>7 DEF CloseRead
    <2>2. worker[w].pc \in {"posted", "broken", "limited"} /\ pubs' = pubs
      BY <1>7 DEF CloseRead, Outcome
    <2> HIDE DEF then, seen
    <2>3. /\ \A v \in Workers \ {w} : worker'[v] = worker[v]
          /\ worker'[w].job = worker[w].job /\ worker'[w].pc = "closing"
      BY <1>1, <2>1 DEF WorkerStates
    <2>4. QED
      BY <2>2, <2>3 DEF StatusesStay, Moves, Flying
  <1>8. CASE StartCommit(w)
    <2>1. /\ pubs' = [pubs EXCEPT ![PubOf(w)].status = "dispatching"]
          /\ worker' = [worker EXCEPT ![w].pc = "checking"]
      BY <1>8 DEF StartCommit
    <2>2. StatusBecomes(PubOf(w), "dispatching")
      BY <1>1, <2>1 DEF StatusBecomes, PubRows
    <2>3. /\ \A v \in Workers \ {w} : worker'[v] = worker[v]
          /\ worker'[w].job = worker[w].job /\ worker'[w].pc = "checking"
      BY <1>1, <2>1 DEF WorkerStates
    <2>4. QED
      BY <1>8, <2>2, <2>3
  <1>9. CASE CompletePublish(w) \/ FailPublish(w) \/ DeferPublish(w)
    <2>1. worker[w].pc = "closing" /\ worker' = [worker EXCEPT ![w] = Idle]
      BY <1>9 DEF CompletePublish, FailPublish, DeferPublish, Closing
    <2>2. worker'[w].pc = "idle" /\ \A v \in Workers \ {w} : worker'[v] = worker[v]
      BY <1>1, <2>1
    <2>3. ASSUME CompletePublish(w) PROVE StatusBecomes(PubOf(w), "published")
      BY <1>1, <2>3 DEF CompletePublish, StatusBecomes, PubRows
    <2>4. ASSUME FailPublish(w) PROVE StatusBecomes(PubOf(w), FailedStatus(w))
      <3>1. pubs' = [pubs EXCEPT ![PubOf(w)].status = FailedStatus(w)]
        BY <2>4 DEF FailPublish
      <3>2. QED
        BY <1>1, <3>1 DEF StatusBecomes, PubRows
    <2>5. ASSUME DeferPublish(w) PROVE StatusBecomes(PubOf(w), "scheduled")
      BY <1>1, <2>5 DEF DeferPublish, StatusBecomes, PubRows
    <2>6. QED
      BY <1>9, <2>1, <2>2, <2>3, <2>4, <2>5
  <1>10. QED
    BY <1>2, <1>3, <1>4, <1>5, <1>6, <1>7, <1>8, <1>9 DEF WorkerStep, Start, Close

\* A step after which the statuses are as they were and every worker has moved
\* at most as Moves allows.
LEMMA FlightStays ==
    ASSUME PostInv, FlightInv, StatusesStay, \A w \in Workers : Moves(w)
    PROVE  FlightInv'
  <1>1. \A w \in Workers : worker'[w].pc # "idle" =>
            /\ worker[w].pc # "idle" /\ PubOf(w)' = PubOf(w) /\ PubOf(w) \in Pubs
            /\ worker'[w].pc = "starting" <=> worker[w].pc = "starting"
    <2> TAKE w \in Workers
    <2> HAVE worker'[w].pc # "idle"
    <2>1. worker'[w].job = worker[w].job
      BY DEF Moves
    <2>2. /\ worker[w].pc # "idle"
          /\ worker'[w].pc = "starting" <=> worker[w].pc = "starting"
      BY DEF Moves, Flying
    <2>3. QED
      BY <2>1, <2>2 DEF PubOf, PostInv, Busy, JobIds
  <1>2. \A w \in Workers : worker'[w].pc = "starting" =>
            pubs'[PubOf(w)'].status \in {"scheduled", "failed"}
    BY <1>1 DEF FlightInv, StatusesStay
  <1>3. \A w \in Workers : Flying(w)' => pubs'[PubOf(w)'].status = "dispatching"
    BY <1>1 DEF FlightInv, StatusesStay, Flying
  <1>4. \A v, w \in Workers :
            worker'[v].pc # "idle" /\ worker'[w].pc # "idle" /\ PubOf(v)' = PubOf(w)' => v = w
    BY <1>1 DEF FlightInv
  <1>5. \A p, q \in Pubs :
            pubs'[p].status \in LiveStatuses /\ pubs'[q].status \in LiveStatuses =>
                (pubs'[p].variant = pubs'[q].variant => p = q)
    BY DEF FlightInv, StatusesStay
  <1>6. QED
    BY <1>2, <1>3, <1>4, <1>5 DEF FlightInv

\* A step by which worker w, alone on publication p, moves it from a live
\* status to another status and the workers of others do nothing.
LEMMA FlightMoves ==
    ASSUME PostInv, FlightInv, NEW w \in Workers, worker[w].pc # "idle",
           NEW status, StatusBecomes(PubOf(w), status),
           \A v \in Workers \ {w} : worker'[v] = worker[v],
           \/ worker'[w].pc = "idle"
           \/ /\ worker'[w].job = worker[w].job /\ worker'[w].pc = "checking"
              /\ status = "dispatching"
    PROVE  FlightInv'
  <1>1. PubOf(w) \in Pubs /\ pubs[PubOf(w)].status \in LiveStatuses
    BY DEF FlightInv, Flying, LiveStatuses, PostInv, Busy, PubOf, JobIds
  <1>2. \A v \in Workers \ {w} : worker[v].pc # "idle" =>
            PubOf(v)' = PubOf(v) /\ PubOf(v) \in Pubs /\ PubOf(v) # PubOf(w)
    BY DEF FlightInv, PubOf, PostInv, Busy, JobIds
  <1>3. worker'[w].pc # "idle" => PubOf(w)' = PubOf(w)
    BY DEF PubOf
  <1>4. \A v \in Workers : worker'[v].pc = "starting" =>
            pubs'[PubOf(v)'].status \in {"scheduled", "failed"}
    BY <1>2 DEF FlightInv, StatusBecomes
  <1>5. \A v \in Workers : Flying(v)' => pubs'[PubOf(v)'].status = "dispatching"
    <2> TAKE v \in Workers
    <2>1. CASE v = w
      BY <1>1, <1>3, <2>1 DEF Flying, StatusBecomes
    <2>2. CASE v # w
      BY <1>2, <2>2 DEF FlightInv, Flying, StatusBecomes
    <2>3. QED
      BY <2>1, <2>2
  <1>6. \A u, v \in Workers :
            worker'[u].pc # "idle" /\ worker'[v].pc # "idle" /\ PubOf(u)' = PubOf(v)' => u = v
    BY <1>2, <1>3 DEF FlightInv
  <1>7. \A p, q \in Pubs :
            pubs'[p].status \in LiveStatuses /\ pubs'[q].status \in LiveStatuses =>
                (pubs'[p].variant = pubs'[q].variant => p = q)
    <2>1. \A p \in Pubs : pubs'[p].status \in LiveStatuses => pubs[p].status \in LiveStatuses
      BY <1>1 DEF StatusBecomes
    <2>2. \A p \in Pubs : pubs'[p].variant = pubs[p].variant
      BY DEF StatusBecomes
    <2>3. QED
      BY <2>1, <2>2 DEF FlightInv
  <1>8. QED
    BY <1>4, <1>5, <1>6, <1>7 DEF FlightInv

\* Creating a publication, under the unique index.
LEMMA FlightCreate ==
    ASSUME PostInv, FlightInv, NEW p \in Pubs, NEW v \in Variants, CreatePublication(p, v)
    PROVE  FlightInv'
  <1>1. pubs \in [Pubs -> PubRows] /\ worker' = worker /\ pubs[p].status = None
    BY DEF PostInv, TypeOK, CreatePublication
  <1>2. PICK due \in {"now", "later"} :
            pubs' = [pubs EXCEPT ![p] = [status |-> "scheduled", variant |-> v,
                                         key |-> keys + 1, due |-> due]]
    BY DEF CreatePublication
  <1>3. /\ \A q \in Pubs \ {p} : pubs'[q] = pubs[q]
        /\ pubs'[p].status = "scheduled" /\ pubs'[p].variant = v
    BY <1>1, <1>2
  <1>4. \A q \in Pubs \ {p} : pubs[q].variant = v => pubs[q].status \notin LiveStatuses
    BY DEF CreatePublication, IndexAllows, LiveStatuses
  <1>5. \A w \in Workers : worker[w].pc # "idle" => PubOf(w) \in Pubs \ {p} /\ PubOf(w)' = PubOf(w)
    <2> TAKE w \in Workers
    <2> HAVE worker[w].pc # "idle"
    <2>1. PubOf(w) \in Pubs /\ PubOf(w)' = PubOf(w)
      BY <1>1 DEF PostInv, Busy, PubOf, JobIds
    <2>2. pubs[PubOf(w)].status # None
      BY DEF FlightInv, Flying, None
    <2>3. QED
      BY <1>1, <2>1, <2>2
  <1>6. \A w \in Workers : worker'[w].pc = "starting" =>
            pubs'[PubOf(w)'].status \in {"scheduled", "failed"}
    BY <1>1, <1>3, <1>5 DEF FlightInv
  <1>7. \A w \in Workers : Flying(w)' => pubs'[PubOf(w)'].status = "dispatching"
    BY <1>1, <1>3, <1>5 DEF FlightInv, Flying
  <1>8. \A u, w \in Workers :
            worker'[u].pc # "idle" /\ worker'[w].pc # "idle" /\ PubOf(u)' = PubOf(w)' => u = w
    BY <1>1, <1>5 DEF FlightInv
  <1>9. \A q, r \in Pubs :
            pubs'[q].status \in LiveStatuses /\ pubs'[r].status \in LiveStatuses =>
                (pubs'[q].variant = pubs'[r].variant => q = r)
    BY <1>3, <1>4 DEF FlightInv
  <1>10. QED
    BY <1>6, <1>7, <1>8, <1>9 DEF FlightInv

\* Starting: the row lock of the only job keeps a second start out.
LEMMA FlightStarts ==
    ASSUME PostInv, FlightInv, OneJob, NEW w \in Workers, NEW j \in JobIds, StartRead(w, j),
           StatusesStay, worker'[w].pc = "starting", worker'[w].job = j,
           \A v \in Workers \ {w} : worker'[v] = worker[v]
    PROVE  FlightInv'
  <1>1. j[1] \in Pubs /\ j[2] \in JobSlots /\ j = <<j[1], j[2]>>
    BY DEF JobIds
  <1>2. /\ pubs[j[1]].status \in {"scheduled", "failed"}
        /\ \A v \in Workers : ~(worker[v].pc = "starting" /\ worker[v].job = j)
    BY DEF StartRead, Claimable
  <1>3. \A v \in Workers \ {w} : worker[v].pc # "idle" =>
            PubOf(v)' = PubOf(v) /\ PubOf(v) \in Pubs /\ PubOf(v) # j[1]
    <2> TAKE v \in Workers \ {w}
    <2> HAVE worker[v].pc # "idle"
    <2>1. /\ worker[v].job \in JobIds /\ PubOf(v)' = PubOf(v) /\ PubOf(v) \in Pubs
          /\ worker[v].job[2] \in JobSlots /\ worker[v].job = <<PubOf(v), worker[v].job[2]>>
      BY DEF PostInv, Busy, PubOf, JobIds
    <2>2. CASE worker[v].pc = "starting"
      BY <1>1, <1>2, <2>1, <2>2 DEF OneJob
    <2>3. CASE worker[v].pc # "starting"
      BY <1>2, <2>1, <2>3 DEF FlightInv, Flying
    <2>4. QED
      BY <2>1, <2>2, <2>3
  <1>4. PubOf(w)' = j[1]
    BY DEF PubOf
  <1>5. \A v \in Workers : worker'[v].pc = "starting" =>
            pubs'[PubOf(v)'].status \in {"scheduled", "failed"}
    <2> TAKE v \in Workers
    <2>1. CASE v = w
      BY <1>1, <1>2, <1>4, <2>1 DEF StatusesStay
    <2>2. CASE v # w
      BY <1>3, <2>2 DEF FlightInv, StatusesStay
    <2>3. QED
      BY <2>1, <2>2
  <1>6. \A v \in Workers : Flying(v)' => pubs'[PubOf(v)'].status = "dispatching"
    BY <1>3 DEF FlightInv, StatusesStay, Flying
  <1>7. \A u, v \in Workers :
            worker'[u].pc # "idle" /\ worker'[v].pc # "idle" /\ PubOf(u)' = PubOf(v)' => u = v
    BY <1>3, <1>4 DEF FlightInv
  <1>8. \A p, q \in Pubs :
            pubs'[p].status \in LiveStatuses /\ pubs'[q].status \in LiveStatuses =>
                (pubs'[p].variant = pubs'[q].variant => p = q)
    BY DEF FlightInv, StatusesStay
  <1>9. QED
    BY <1>5, <1>6, <1>7, <1>8 DEF FlightInv

\* Nobody cancels, and no publication has two outstanding jobs.
Orderly == Cancellers = {} /\ OneJob

\* A step either leaves the statuses and the workers in flight alone, or is
\* one of the five that matter to them.
LEMMA FlightCases ==
    ASSUME PostInv, Cancellers = {}, [Next]_vars
    PROVE  \/ StatusesStay /\ \A w \in Workers : Moves(w)
           \/ \E p \in Pubs, v \in Variants : CreatePublication(p, v)
           \/ \E w \in Workers : WorkerStep(w)
  <1>1. TypeOK
    BY DEF PostInv
  <1>2. worker' = worker => \A w \in Workers : Moves(w)
    BY DEF Moves
  <1>3. QED
    BY <1>1, <1>2, OutsideCases DEF Next

\* FlightInv is an invariant while nobody cancels and jobs are not duplicated,
\* with crashes and slow workers.
LEMMA FlightStep ==
    ASSUME PostInv, FlightInv, Orderly, [Next]_vars
    PROVE  FlightInv'
  <1>1. Cancellers = {} /\ OneJob
    BY DEF Orderly
  <1>2. ASSUME NEW w \in Workers, WorkerStep(w) PROVE FlightInv'
    <2>1. \A v \in Workers \ {w} : worker'[v] = worker[v]
      BY <1>2, WorkerCases
    <2>2. CASE StatusesStay /\ Moves(w)
      <3>1. \A v \in Workers : Moves(v)
        BY <2>1, <2>2 DEF Moves
      <3>2. QED
        BY <2>2, <3>1, FlightStays
    <2>3. CASE StatusesStay /\ \E j \in JobIds : StartRead(w, j) /\ worker'[w].pc = "starting"
                                                 /\ worker'[w].job = j
      BY <1>1, <2>1, <2>3, FlightStarts
    <2>4. CASE /\ StartCommit(w) /\ StatusBecomes(PubOf(w), "dispatching")
               /\ worker'[w].job = worker[w].job /\ worker'[w].pc = "checking"
      <3>1. worker[w].pc # "idle"
        BY <2>4 DEF StartCommit
      <3>2. QED
        BY <2>1, <2>4, <3>1, FlightMoves
    <2>5. CASE /\ worker[w].pc = "closing" /\ worker'[w].pc = "idle"
               /\ \E status : StatusBecomes(PubOf(w), status)
      <3>1. PICK status : StatusBecomes(PubOf(w), status)
        BY <2>5
      <3>2. QED
        BY <2>1, <2>5, <3>1, FlightMoves
    <2>6. QED
      BY <1>2, <2>2, <2>3, <2>4, <2>5, WorkerCases
  <1>3. QED
    BY <1>1, <1>2, FlightCases, FlightStays, FlightCreate

\* It holds in every reachable state.
LEMMA FlightInvariance == Orderly /\ Spec => []FlightInv
  <1>1. Init => FlightInv
    <2> SUFFICES ASSUME Init PROVE FlightInv
      OBVIOUS
    <2>1. /\ \A w \in Workers : worker[w].pc = "idle"
          /\ \A p \in Pubs : pubs[p].status = None
      BY DEF Init, Idle
    <2>2. QED
      BY <2>1 DEF FlightInv, Flying, LiveStatuses, None
  <1>2. CASE Orderly
    <2>1. PostInv /\ FlightInv /\ [Next]_vars => FlightInv'
      BY <1>2, FlightStep
    <2>2. QED
      BY <1>1, <2>1, PostInvariance, PTL DEF Spec
  <1>3. QED
    BY <1>2

\* D21's single flight: while nobody cancels and no publication has two
\* outstanding jobs, two workers about to call the provider for one variant do
\* so for one publication, through crashes, reaps and slow workers
\* (StartPublicationPublish, ix_publications_live_per_channel_variant).
THEOREM SingleFlight == Orderly /\ Spec => []SingleFlightCalls
  <1>1. PostInv /\ FlightInv => SingleFlightCalls
    <2> SUFFICES ASSUME PostInv, FlightInv, NEW v \in Workers, NEW w \in Workers,
                        worker[v].pc = "allowed", worker[w].pc = "allowed",
                        pubs[PubOf(v)].variant = pubs[PubOf(w)].variant
                 PROVE  PubOf(v) = PubOf(w)
      BY DEF SingleFlightCalls
    <2>1. PubOf(v) \in Pubs /\ PubOf(w) \in Pubs
      BY DEF PostInv, Busy, PubOf, JobIds
    <2>2. pubs[PubOf(v)].status \in LiveStatuses /\ pubs[PubOf(w)].status \in LiveStatuses
      BY DEF FlightInv, Flying, LiveStatuses
    <2>3. QED
      BY <2>1, <2>2 DEF FlightInv
  <1>2. QED
    BY <1>1, PostInvariance, FlightInvariance, PTL

\* A step that ends a publication's life or goes on with it finds it live.
LEMMA TerminalStep ==
    ASSUME PostInv, FlightInv, Orderly, [Next]_vars, NEW p \in Pubs,
           pubs[p].status \in {"published", "dead", "cancelled"}
    PROVE  pubs'[p].status = pubs[p].status
  <1>1. CASE StatusesStay
    BY <1>1 DEF StatusesStay
  <1>2. ASSUME NEW q \in Pubs, NEW v \in Variants, CreatePublication(q, v)
        PROVE  pubs'[p].status = pubs[p].status
    <2>1. p # q
      BY <1>2 DEF CreatePublication, None
    <2>2. QED
      BY <1>2, <2>1 DEF CreatePublication, PostInv, TypeOK
  <1>3. ASSUME NEW w \in Workers, NEW status, worker[w].pc # "idle", StatusBecomes(PubOf(w), status)
        PROVE  pubs'[p].status = pubs[p].status
    <2>1. pubs[PubOf(w)].status \in {"scheduled", "failed", "dispatching"}
      BY <1>3 DEF FlightInv, Flying
    <2>2. QED
      BY <1>3, <2>1 DEF StatusBecomes
  <1>4. ASSUME NEW w \in Workers, WorkerStep(w)
        PROVE  pubs'[p].status = pubs[p].status
    <2>1. StartCommit(w) => worker[w].pc # "idle"
      BY DEF StartCommit
    <2>2. StatusesStay \/ \E status : worker[w].pc # "idle" /\ StatusBecomes(PubOf(w), status)
      BY <1>4, <2>1, WorkerCases
    <2>3. QED
      BY <1>1, <1>3, <2>2
  <1>5. QED
    BY <1>1, <1>2, <1>4, FlightCases DEF Orderly

\* entities/publication.py: published, dead and cancelled are terminal, under
\* the same conditions.
THEOREM TerminalStays == Orderly /\ Spec => TerminalIsFinal
  <1>1. CASE Orderly
    <2>1. PostInv /\ FlightInv /\ [Next]_vars =>
            [\A p \in Pubs : pubs[p].status \in {"published", "dead", "cancelled"} =>
                pubs'[p].status = pubs[p].status]_vars
      BY <1>1, TerminalStep
    <2>2. QED
      BY <1>1, <2>1, PostInvariance, FlightInvariance, PTL DEF Spec, TerminalIsFinal
  <1>2. QED
    BY <1>1

\* A dispatching publication has its worker, and one that waits for its retry
\* has the job of that retry.
RetryInv ==
    \A p \in Pubs :
        /\ pubs[p].status = "dispatching" => \E w \in Workers : Flying(w) /\ PubOf(w) = p
        /\ pubs[p].status = "failed" => \E s \in JobSlots : jobs[<<p, s>>].status = "pending"

\* The publication of a worker is the live one of its variant, so no write to
\* it violates the unique index.
LEMMA IndexNeverRefuses ==
    ASSUME PostInv, FlightInv, NEW w \in Workers, worker[w].pc # "idle", NEW status
    PROVE  IndexAllows(PubOf(w), pubs[PubOf(w)].variant, status)
  <1>1. PubOf(w) \in Pubs /\ pubs[PubOf(w)].status \in LiveStatuses
    BY DEF FlightInv, Flying, LiveStatuses, PostInv, Busy, PubOf, JobIds
  <1>2. \A q \in Pubs \ {PubOf(w)} : pubs[q].variant = pubs[PubOf(w)].variant =>
            pubs[q].status \notin LiveStatuses
    BY <1>1 DEF FlightInv
  <1>3. QED
    BY <1>2 DEF IndexAllows

\* So a worker in flight goes on or reports.
LEMMA FlyingGoesOn ==
    ASSUME PostInv, FlightInv, ~Crashes, NEW w \in Workers, WorkerStep(w), Flying(w)
    PROVE  \/ StatusesStay /\ Flying(w)' /\ worker'[w].job = worker[w].job
           \/ CompletePublish(w) \/ FailPublish(w) \/ DeferPublish(w)
  <1>1. worker[w].pc # "idle" /\ worker[w].pc # "starting"
    BY DEF Flying
  <1>2. ~CloseRollback(w)
    BY <1>1, IndexNeverRefuses DEF CloseRollback
  <1>3. ~CloseRaise(w)
    BY DEF FlightInv, CloseRaise
  <1>4. ~StartCommit(w) /\ ~StartRollback(w) /\ ~Start(w) /\ ~Crash(w)
    BY <1>1 DEF StartCommit, StartRollback, Start, StartRead, StartRefuse, Crash
  <1>5. \A j \in JobIds : ~StartRead(w, j)
    BY <1>1 DEF StartRead
  <1>6. worker \in [Workers -> WorkerStates]
    BY DEF PostInv, TypeOK
  <1>7. CASE CheckRate(w) \/ PublishOk(w) \/ PublishError(w) \/ CloseRead(w)
    <2>1. worker'[w].pc # "idle"
      <3>1. CASE CheckRate(w)
        BY <1>6, <3>1 DEF CheckRate, WorkerStates
      <3>2. CASE PublishOk(w) \/ PublishError(w)
        BY <1>6, <3>2 DEF PublishOk, PublishError, WorkerStates
      <3>3. CASE CloseRead(w)
        BY <1>6, <3>3 DEF CloseRead, WorkerStates
      <3>4. QED
        BY <1>7, <3>1, <3>2, <3>3
    <2>2. StatusesStay
      BY <1>7 DEF CheckRate, PublishOk, PublishError, CloseRead, StatusesStay
    <2>3. Moves(w)
      BY <1>4, <1>5, <2>1, WorkerCases
    <2>4. QED
      BY <1>1, <2>1, <2>2, <2>3 DEF Moves, Flying
  <1>8. QED
    BY <1>2, <1>3, <1>4, <1>7 DEF WorkerStep, Close

\* The job of a retry waits until it is started.
LEMMA PendingStays ==
    ASSUME PostInv, FlightInv, Cancellers = {}, [Next]_vars, NEW j \in JobIds,
           jobs[j].status = "pending", pubs[j[1]].status = "failed"
    PROVE  \/ jobs'[j].status = "pending"
           \/ \E w \in Workers : StartCommit(w) /\ PubOf(w) = j[1]
  <1>1. jobs \in [JobIds -> JobRows] /\ j[1] \in Pubs
    BY DEF PostInv, TypeOK, JobIds
  <1>2. ASSUME NEW w \in Workers, NEW k \in JobIds, StartRead(w, k) \/ StartRefuse(w, k)
        PROVE  jobs'[j] = jobs[j]
    BY <1>1, <1>2 DEF StartRead, StartRefuse
  <1>3. ASSUME NEW w \in Workers, StartCommit(w)
        PROVE  jobs'[j] = jobs[j] \/ PubOf(w) = j[1]
    BY <1>1, <1>3 DEF StartCommit, PubOf
  <1>4. ASSUME NEW w \in Workers, CompletePublish(w) \/ FailPublish(w) \/ DeferPublish(w)
        PROVE  jobs'[j] = jobs[j]
    <2>1. worker[w].pc = "closing"
      BY <1>4 DEF CompletePublish, FailPublish, DeferPublish, Closing
    <2>2. worker[w].job # j
      BY <2>1 DEF FlightInv, Flying, PubOf
    <2>3. QED
      BY <1>1, <1>4, <2>2 DEF CompletePublish, FailPublish, DeferPublish
  <1>5. ASSUME NEW w \in Workers, WorkerStep(w)
        PROVE  jobs'[j].status = "pending" \/ (StartCommit(w) /\ PubOf(w) = j[1])
    <2>1. CASE StartRollback(w) \/ CheckRate(w) \/ PublishOk(w) \/ PublishError(w) \/ CloseRead(w)
               \/ CloseRaise(w) \/ CloseRollback(w) \/ Crash(w)
      BY <2>1 DEF StartRollback, CheckRate, PublishOk, PublishError, CloseRead, CloseRaise,
                  CloseRollback, Crash
    <2>2. QED
      BY <1>2, <1>3, <1>4, <1>5, <2>1 DEF WorkerStep, Start, Close
  <1>6. CASE ReleaseScheduled
    <2>1. PICK batch \in SUBSET {p \in Pubs : Due(p)} :
             jobs' = [k \in JobIds |-> IF k[1] \in batch /\ k[2] = CHOOSE s \in FreeSlots(k[1]) : TRUE
                                       THEN Enqueued ELSE jobs[k]]
      BY <1>6 DEF ReleaseScheduled
    <2>2. j[1] \notin batch
      BY <2>1 DEF Due
    <2>3. QED
      BY <2>1, <2>2
  <1>7. ASSUME NEW k \in JobIds, BecomeStuck(k) PROVE jobs'[j] = jobs[j]
    BY <1>1, <1>7 DEF BecomeStuck
  <1>8. CASE Reap
    BY <1>1, <1>8 DEF Reap, Reapable
  <1>9. ASSUME NEW p \in Pubs, NEW v \in Variants, CreatePublication(p, v) PROVE jobs' = jobs
    BY <1>9 DEF CreatePublication
  <1>10. ASSUME NEW p \in Pubs, BecomeDue(p) PROVE jobs' = jobs
    BY <1>10 DEF BecomeDue
  <1>11. CASE NewDay \/ UNCHANGED vars
    BY <1>11 DEF NewDay, vars
  <1>12. QED
    BY <1>5, <1>6, <1>7, <1>8, <1>9, <1>10, <1>11 DEF Next

\* Every step preserves RetryInv if no worker dies.
LEMMA RetryStep ==
    ASSUME PostInv, FlightInv, RetryInv, Orderly, ~Crashes, [Next]_vars
    PROVE  RetryInv'
  <1>0. /\ Cancellers = {} /\ jobs \in [JobIds -> JobRows]
        /\ \A p \in Pubs, s \in JobSlots : <<p, s>> \in JobIds /\ <<p, s>>[1] = p
        /\ \A w \in Workers : worker[w].pc # "idle" =>
              /\ worker[w].job \in JobIds /\ PubOf(w) \in Pubs
              /\ worker[w].job = <<PubOf(w), worker[w].job[2]>> /\ worker[w].job[2] \in JobSlots
    BY DEF Orderly, PostInv, TypeOK, Busy, PubOf, JobIds
  \* The job of a failed publication stays unless the publication is started.
  <1>1. ASSUME NEW p \in Pubs, pubs[p].status = "failed", pubs'[p].status = "failed"
        PROVE  \E s \in JobSlots : jobs'[<<p, s>>].status = "pending"
    <2>1. PICK s \in JobSlots : jobs[<<p, s>>].status = "pending"
      BY <1>1 DEF RetryInv
    <2>2. ASSUME NEW w \in Workers, StartCommit(w), PubOf(w) = p PROVE FALSE
      <3>1. pubs' = [pubs EXCEPT ![p].status = "dispatching"] /\ pubs \in [Pubs -> PubRows]
        BY <2>2 DEF StartCommit, PostInv, TypeOK
      <3>2. pubs'[p].status = "dispatching"
        BY <3>1 DEF PubRows
      <3>3. QED
        BY <1>1, <3>2
    <2>3. QED
      BY <1>0, <1>1, <2>1, <2>2, PendingStays
  <1>2. ASSUME NEW w \in Workers, WorkerStep(w), NEW p \in Pubs
        PROVE  /\ pubs'[p].status = "dispatching" => \E v \in Workers : Flying(v)' /\ PubOf(v)' = p
               /\ pubs'[p].status = "failed" /\ pubs[p].status # "failed" =>
                     \E s \in JobSlots : jobs'[<<p, s>>].status = "pending"
    <2>1. \A v \in Workers \ {w} : worker'[v] = worker[v]
      BY <1>2, WorkerCases
    <2>2. ASSUME pubs[p].status = "dispatching", ~(Flying(w) /\ PubOf(w) = p)
          PROVE  \E v \in Workers : Flying(v)' /\ PubOf(v)' = p
      <3>1. PICK v \in Workers : Flying(v) /\ PubOf(v) = p
        BY <2>2 DEF RetryInv
      <3>2. worker'[v] = worker[v]
        BY <2>1, <2>2, <3>1
      <3>3. QED
        BY <3>1, <3>2 DEF Flying, PubOf
    <2>3. CASE StatusesStay
      <3>1. pubs'[p].status = pubs[p].status
        BY <2>3 DEF StatusesStay
      <3>2. ASSUME Flying(w), PubOf(w) = p, pubs[p].status = "dispatching"
            PROVE  Flying(w)' /\ PubOf(w)' = p
        <4>1. ~CompletePublish(w) /\ ~FailPublish(w) /\ ~DeferPublish(w)
          <5>2. pubs \in [Pubs -> PubRows]
            BY DEF PostInv, TypeOK
          <5>3. ASSUME CompletePublish(w) PROVE pubs'[p].status = "published"
            BY <3>2, <5>2, <5>3 DEF CompletePublish, PubRows
          <5>4. ASSUME FailPublish(w) PROVE pubs'[p].status \in {"dead", "failed"}
            BY <3>2, <5>2, <5>4 DEF FailPublish, FailedStatus, PubRows
          <5>5. ASSUME DeferPublish(w) PROVE pubs'[p].status = "scheduled"
            BY <3>2, <5>2, <5>5 DEF DeferPublish, PubRows
          <5>6. QED
            BY <3>1, <3>2, <5>3, <5>4, <5>5
        <4>2. Flying(w)' /\ worker'[w].job = worker[w].job
          BY <1>2, <3>2, <4>1, FlyingGoesOn
        <4>3. QED
          BY <3>2, <4>2 DEF PubOf
      <3>3. QED
        BY <2>2, <3>1, <3>2
    <2>4. CASE /\ StartCommit(w) /\ StatusBecomes(PubOf(w), "dispatching")
               /\ worker'[w].job = worker[w].job /\ worker'[w].pc = "checking"
      <3>1. Flying(w)' /\ PubOf(w)' = PubOf(w) /\ ~Flying(w)
        BY <2>4 DEF Flying, PubOf, StartCommit
      <3>2. QED
        BY <2>2, <2>4, <3>1 DEF StatusBecomes
    <2>5. CASE /\ worker[w].pc = "closing"
               /\ \/ CompletePublish(w) /\ StatusBecomes(PubOf(w), "published")
                  \/ FailPublish(w) /\ StatusBecomes(PubOf(w), FailedStatus(w))
                  \/ DeferPublish(w) /\ StatusBecomes(PubOf(w), "scheduled")
      <3>1. FailedStatus(w) \in {"dead", "failed"}
        BY DEF FailedStatus
      <3>2. pubs'[p].status = "dispatching" => p # PubOf(w) /\ pubs[p].status = "dispatching"
        BY <2>5, <3>1 DEF StatusBecomes
      <3>3. ASSUME pubs'[p].status = "failed", pubs[p].status # "failed"
            PROVE  \E s \in JobSlots : jobs'[<<p, s>>].status = "pending"
        <4>1. p = PubOf(w) /\ FailPublish(w) /\ FailedStatus(w) = "failed"
          BY <2>5, <3>3 DEF StatusBecomes
        <4>2. /\ jobs' = [jobs EXCEPT ![worker[w].job] = FailedRow(w)]
              /\ FailedRow(w).status # "dead"
          BY <4>1 DEF FailPublish, FailedStatus
        <4>3. worker[w].job \in JobIds
          BY <1>0, <2>5
        <4>4. FailedRow(w).status = "pending"
          <5>1. jobs[worker[w].job] \in JobRows
            BY <1>0, <4>3
          <5>2. FailedRow(w).status \in {"dead", "pending"}
            BY <5>1 DEF FailedRow, FailedAs, JobRows
          <5>3. QED
            BY <4>2, <5>2
        <4>5. jobs'[<<p, worker[w].job[2]>>].status = "pending"
          BY <1>0, <2>5, <4>1, <4>2, <4>3, <4>4
        <4>6. QED
          BY <1>0, <2>5, <4>5
      <3>4. QED
        BY <2>2, <3>2, <3>3
    <2>6. QED
      BY <1>2, <2>3, <2>4, <2>5, WorkerCases
  <1>3. ASSUME StatusesStay, \A w \in Workers : Flying(w) => Flying(w)' /\ PubOf(w)' = PubOf(w)
        PROVE  RetryInv'
    BY <1>1, <1>3 DEF RetryInv, StatusesStay
  <1>4. ASSUME worker' = worker
        PROVE  \A w \in Workers : Flying(w) => Flying(w)' /\ PubOf(w)' = PubOf(w)
    BY <1>4 DEF Flying, PubOf
  <1>5. CASE NewDay
    <2>1. \A w \in Workers : worker'[w].job = worker[w].job /\ worker'[w].pc = worker[w].pc
      BY <1>5 DEF NewDay, PostInv, TypeOK, WorkerStates
    <2>2. StatusesStay
      BY <1>5, OutsideCases DEF PostInv
    <2>3. QED
      BY <1>3, <2>1, <2>2 DEF Flying, PubOf
  <1>6. ASSUME NEW p \in Pubs, NEW v \in Variants, CreatePublication(p, v) PROVE RetryInv'
    <2>1. worker' = worker
      BY <1>6 DEF CreatePublication
    <2>2. \A q \in Pubs : pubs'[q].status \in {"dispatching", "failed"} =>
              pubs'[q].status = pubs[q].status
      BY <1>6 DEF CreatePublication, PostInv, TypeOK
    <2>3. QED
      BY <1>1, <1>4, <2>1, <2>2 DEF RetryInv
  <1>7. ASSUME NEW w \in Workers, WorkerStep(w) PROVE RetryInv'
    BY <1>1, <1>2, <1>7 DEF RetryInv
  <1>8. TypeOK
    BY DEF PostInv
  <1>9. QED
    BY <1>0, <1>3, <1>4, <1>5, <1>6, <1>7, <1>8, OutsideCases DEF Next

\* FailPublicationPublish: "the two trackers must never disagree about whether
\* another attempt is still coming", under the same conditions and if no worker
\* dies; workers may be slow and their jobs reaped.
THEOREM RetryComes == Orderly /\ ~Crashes /\ Spec => []RetryIsComing
  <1>1. Init => RetryInv
    BY DEF Init, RetryInv, None
  <1>2. PostInv /\ RetryInv => RetryIsComing
    <2> SUFFICES ASSUME PostInv, RetryInv, NEW p \in Pubs,
                        pubs[p].status \in {"dispatching", "failed"}
                 PROVE  \E s \in JobSlots : \/ Unsettled(jobs[<<p, s>>])
                                            \/ \E w \in Workers : Owns(w, <<p, s>>)
      BY DEF RetryIsComing
    <2>1. CASE pubs[p].status = "failed"
      BY <2>1 DEF RetryInv, Unsettled
    <2>2. CASE pubs[p].status = "dispatching"
      <3>1. PICK w \in Workers : Flying(w) /\ PubOf(w) = p
        BY <2>2 DEF RetryInv
      <3>2. worker[w].job \in JobIds
        BY <3>1 DEF PostInv, Busy, Flying
      <3>3. worker[w].job = <<p, worker[w].job[2]>> /\ worker[w].job[2] \in JobSlots
        BY <3>1, <3>2 DEF PubOf, JobIds
      <3>4. QED
        BY <3>1, <3>3 DEF Owns, Flying
    <2>3. QED
      BY <2>1, <2>2
  <1>3. CASE Orderly /\ ~Crashes
    <2>1. PostInv /\ FlightInv /\ RetryInv /\ [Next]_vars => RetryInv'
      BY <1>3, RetryStep
    <2>2. QED
      BY <1>1, <1>2, <1>3, <2>1, PostInvariance, FlightInvariance, PTL DEF Spec
  <1>4. QED
    BY <1>3

------------------------------------------------------------------------------
(* What publishing promises *)

\* The outcome PostOnce is told of depends on the status only.
LEMMA OutcomeFacts ==
    ASSUME PostInv, NEW p \in Pubs
    PROVE  /\ pubs[p].status = None <=> OutcomeOf(p) = "none"
           /\ pubs[p].status \in LiveStatuses => OutcomeOf(p) = "open"
           /\ pubs[p].status = "published" => OutcomeOf(p) = "published"
           /\ pubs[p].status = "dead" => OutcomeOf(p) = "given_up"
           /\ pubs'[p].status = pubs[p].status => OutcomeOf(p)' = OutcomeOf(p)
           /\ pubs'[p].status \in LiveStatuses => OutcomeOf(p)' = "open"
           /\ pubs'[p].status = "published" => OutcomeOf(p)' = "published"
           /\ pubs'[p].status = "dead" => OutcomeOf(p)' = "given_up"
  BY DEF OutcomeOf, LiveStatuses, None

\* A step that changes the outcome of one publication.
LEMMA OutcomeBecomes ==
    ASSUME NEW p \in Pubs, NEW outcome,
           OutcomeOf(p)' = outcome, \A q \in Pubs \ {p} : OutcomeOf(q)' = OutcomeOf(q)
    PROVE  [q \in Pubs |-> OutcomeOf(q)'] =
              [[q \in Pubs |-> OutcomeOf(q)] EXCEPT ![p] = outcome]
  OBVIOUS

\* Every step of publishing is a step of PostOnce or changes nothing it tells.
LEMMA PromiseStep ==
    ASSUME PostInv, FlightInv, Orderly, [Next]_vars
    PROVE  Promise!Next \/ UNCHANGED <<[p \in Pubs |-> OutcomeOf(p)], posts>>
  <1>1. ASSUME \A p \in Pubs : OutcomeOf(p)' = OutcomeOf(p), posts' = posts
        PROVE  UNCHANGED <<[p \in Pubs |-> OutcomeOf(p)], posts>>
    BY <1>1
  <1>2. ASSUME StatusesStay, posts' = posts
        PROVE  UNCHANGED <<[p \in Pubs |-> OutcomeOf(p)], posts>>
    BY <1>1, <1>2, OutcomeFacts DEF StatusesStay
  <1>3. ASSUME NEW p \in Pubs, NEW v \in Variants, CreatePublication(p, v)
        PROVE  Promise!Ask(p)
    <2>1. /\ pubs[p].status = None /\ pubs'[p].status = "scheduled" /\ posts' = posts
          /\ \A q \in Pubs \ {p} : pubs'[q].status = pubs[q].status
      BY <1>3 DEF CreatePublication, provider, PostInv, TypeOK
    <2>2. /\ OutcomeOf(p) = "none" /\ OutcomeOf(p)' = "open"
          /\ \A q \in Pubs \ {p} : OutcomeOf(q)' = OutcomeOf(q)
      BY <2>1, OutcomeFacts DEF LiveStatuses
    <2>3. QED
      BY <2>1, <2>2, OutcomeBecomes DEF Promise!Ask
  <1>4. ASSUME NEW w \in Workers, WorkerStep(w)
        PROVE  Promise!Next \/ UNCHANGED <<[p \in Pubs |-> OutcomeOf(p)], posts>>
    <2>1. PICK p : p = PubOf(w)
      OBVIOUS
    <2>2. worker[w].pc # "idle" =>
             /\ p \in Pubs /\ OutcomeOf(p) = "open" /\ worker[w].key = pubs[p].key
             /\ posts[p] = IF worker[w].key \in known THEN 1 ELSE 0
      <3>1. SUFFICES ASSUME worker[w].pc # "idle"
                     PROVE  /\ p \in Pubs /\ OutcomeOf(p) = "open" /\ worker[w].key = pubs[p].key
                            /\ posts[p] = IF worker[w].key \in known THEN 1 ELSE 0
        OBVIOUS
      <3>2. p \in Pubs /\ pubs[p].status \in LiveStatuses
        BY <2>1, <3>1 DEF FlightInv, Flying, LiveStatuses, PostInv, Busy, PubOf, JobIds
      <3>3. worker[w].key = pubs[p].key
        BY <2>1, <3>1 DEF PostInv, KeyInv
      <3>4. QED
        BY <3>2, <3>3, OutcomeFacts DEF PostInv, KeyInv
    <2>3. CASE PublishOk(w) \/ PublishError(w)
      <3>1. /\ worker[w].pc # "idle" /\ pubs' = pubs
            /\ Post(w) \/ posts' = posts
        BY <2>3 DEF PublishOk, PublishError, provider
      <3>2. \A q \in Pubs : OutcomeOf(q)' = OutcomeOf(q)
        BY <3>1, OutcomeFacts
      <3>3. CASE posts' = posts
        BY <1>1, <3>2, <3>3
      <3>4. CASE Post(w) /\ worker[w].key \in known
        BY <1>1, <2>1, <2>2, <3>1, <3>2, <3>4 DEF Post, PostInv, TypeOK
      <3>5. CASE Post(w) /\ worker[w].key \notin known
        <4>1. posts[p] = 0 /\ posts' = [posts EXCEPT ![p] = 1]
          <5>1. posts[p] = 0
            BY <2>2, <3>1, <3>5
          <5>2. posts' = [posts EXCEPT ![p] = posts[p] + 1]
            BY <2>1, <3>5 DEF Post
          <5>3. QED
            BY <5>1, <5>2
        <4>2. Promise!Post(p)
          BY <2>2, <3>1, <3>2, <4>1 DEF Promise!Post
        <4>3. QED
          BY <2>2, <3>1, <4>2 DEF Promise!Next
      <3>6. QED
        BY <3>1, <3>3, <3>4, <3>5
    <2>4. ASSUME ~PublishOk(w), ~PublishError(w) PROVE posts' = posts
      BY <1>4, <2>4 DEF WorkerStep, Start, Close, StartRead, StartRefuse, StartCommit,
         StartRollback, CheckRate, CloseRead, CloseRaise, CompletePublish, FailPublish,
         DeferPublish, CloseRollback, Crash, provider
    <2>5. ASSUME worker[w].pc # "idle", NEW status \in LiveStatuses, StatusBecomes(p, status),
                 posts' = posts
          PROVE  UNCHANGED <<[q \in Pubs |-> OutcomeOf(q)], posts>>
      <3>1. \A q \in Pubs : OutcomeOf(q)' = OutcomeOf(q)
        BY <2>2, <2>5, OutcomeFacts DEF StatusBecomes
      <3>2. QED
        BY <1>1, <2>5, <3>1
    <2>6. ASSUME worker[w].pc # "idle", StatusBecomes(p, "published"), posts' = posts,
                 worker[w].key \in known
          PROVE  Promise!Report(p)
      <3>1. /\ OutcomeOf(p) = "open" /\ posts[p] = 1 /\ p \in Pubs /\ OutcomeOf(p)' = "published"
            /\ \A q \in Pubs \ {p} : OutcomeOf(q)' = OutcomeOf(q)
        BY <2>2, <2>6, OutcomeFacts DEF StatusBecomes
      <3>2. QED
        BY <2>6, <3>1, OutcomeBecomes DEF Promise!Report
    <2>7. ASSUME worker[w].pc # "idle", StatusBecomes(p, "dead"), posts' = posts
          PROVE  Promise!GiveUp(p)
      <3>1. /\ OutcomeOf(p) = "open" /\ p \in Pubs /\ OutcomeOf(p)' = "given_up"
            /\ \A q \in Pubs \ {p} : OutcomeOf(q)' = OutcomeOf(q)
        BY <2>2, <2>7, OutcomeFacts DEF StatusBecomes
      <3>2. QED
        BY <2>7, <3>1, OutcomeBecomes DEF Promise!GiveUp
    <2>8. CASE ~PublishOk(w) /\ ~PublishError(w)
      <3>1. posts' = posts
        BY <2>4, <2>8
      <3>2. CASE StatusesStay
        BY <1>2, <3>1, <3>2
      <3>3. CASE StartCommit(w) /\ StatusBecomes(p, "dispatching")
        BY <2>5, <3>1, <3>3 DEF StartCommit, LiveStatuses
      <3>4. CASE worker[w].pc = "closing" /\ CompletePublish(w) /\ StatusBecomes(p, "published")
        <4>1. worker[w].key \in known
          BY <3>4 DEF CompletePublish, Closing, PostInv, KeyInv
        <4>2. Promise!Report(p) /\ p \in Pubs
          BY <2>2, <2>6, <3>1, <3>4, <4>1
        <4>3. QED
          BY <4>2 DEF Promise!Next
      <3>5. CASE worker[w].pc = "closing" /\ FailPublish(w) /\ StatusBecomes(p, FailedStatus(w))
        <4>1. CASE FailedStatus(w) = "dead"
          <5>1. Promise!GiveUp(p) /\ p \in Pubs
            BY <2>2, <2>7, <3>1, <3>5, <4>1
          <5>2. QED
            BY <5>1 DEF Promise!Next
        <4>2. CASE FailedStatus(w) = "failed"
          BY <2>5, <3>1, <3>5, <4>2 DEF LiveStatuses
        <4>3. QED
          BY <4>1, <4>2 DEF FailedStatus
      <3>6. CASE worker[w].pc = "closing" /\ DeferPublish(w) /\ StatusBecomes(p, "scheduled")
        BY <2>5, <3>1, <3>6 DEF LiveStatuses
      <3>7. QED
        BY <1>4, <2>1, <3>2, <3>3, <3>4, <3>5, <3>6, WorkerCases
    <2>9. QED
      BY <2>3, <2>8
  <1>5. TypeOK /\ Cancellers = {}
    BY DEF PostInv, Orderly
  <1>6. CASE UNCHANGED vars
    BY <1>2, <1>5, <1>6, OutsideCases DEF vars
  <1>7. CASE ReleaseScheduled \/ NewDay \/ Reap
    <2>1. posts' = posts
      BY <1>7 DEF ReleaseScheduled, NewDay, Reap, provider
    <2>2. QED
      BY <1>2, <1>5, <1>7, <2>1, OutsideCases
  <1>8. ASSUME NEW p \in Pubs, BecomeDue(p)
        PROVE  UNCHANGED <<[q \in Pubs |-> OutcomeOf(q)], posts>>
    <2>1. posts' = posts
      BY <1>8 DEF BecomeDue, provider
    <2>2. QED
      BY <1>2, <1>5, <1>8, <2>1, OutsideCases
  <1>9. ASSUME NEW j \in JobIds, BecomeStuck(j)
        PROVE  UNCHANGED <<[q \in Pubs |-> OutcomeOf(q)], posts>>
    <2>1. posts' = posts
      BY <1>9 DEF BecomeStuck, provider
    <2>2. QED
      BY <1>2, <1>5, <1>9, <2>1, OutsideCases
  <1>10. \A p \in Pubs : Promise!Ask(p) => Promise!Next
    BY DEF Promise!Next
  <1>11. QED
    BY <1>3, <1>4, <1>5, <1>6, <1>7, <1>8, <1>9, <1>10 DEF Next

\* Publishing implements PostOnce, as far as safety goes: its initial states map
\* to initial states and every step to a step or to none, while nobody cancels
\* and jobs are not duplicated.  Workers may be slow, die and lose answers.
THEOREM KeepsPromise ==
    Orderly /\ Spec =>
        Promise!Init /\ [][Promise!Next]_<<[p \in Pubs |-> OutcomeOf(p)], posts>>
  <1>1. Init => Promise!Init
    <2> SUFFICES ASSUME Init PROVE Promise!Init
      OBVIOUS
    <2>1. \A p \in Pubs : pubs[p].status = None
      BY DEF Init
    <2>2. \A p \in Pubs : OutcomeOf(p) = "none"
      BY <2>1 DEF OutcomeOf, LiveStatuses, None
    <2>3. posts = [p \in Pubs |-> 0]
      BY DEF Init
    <2>4. QED
      BY <2>2, <2>3 DEF Promise!Init
  <1>2. CASE Orderly
    <2>1. PostInv /\ FlightInv /\ [Next]_vars =>
            [Promise!Next]_<<[p \in Pubs |-> OutcomeOf(p)], posts>>
      BY <1>2, PromiseStep
    <2>2. QED
      BY <1>1, <1>2, <2>1, PostInvariance, FlightInvariance, PTL DEF Spec
  <1>3. QED
    BY <1>2
=============================================================================
