-------------------------- MODULE GenerationProofs --------------------------
(***************************************************************************)
(* Theorems about Generation, for every value of its constants.            *)
(***************************************************************************)
EXTENDS Generation, TLAPS

\* The types of what the render workers read and write.
RowsOK ==
    /\ items \in [ItemIds -> ItemStatuses \cup {None}]
    /\ renders \in [ItemIds -> JobRows]
    /\ checks \in [ItemIds -> JobRows]
    /\ worker \in [Workers -> WorkerStates]
    /\ requests \in [Requests -> RequestStatuses \cup {None}]

\* Items come with the fan-out of their request; jobs and workers come after
\* their item.
Provenance ==
    /\ \A i \in ItemIds : requests[i[1]] \in {None, "queued"} => items[i] = None
    /\ \A i \in ItemIds : items[i] = None =>
          renders[i].status = "absent" /\ checks[i].status = "absent"
    /\ \A w \in Workers : worker[w].pc # "idle" =>
          worker[w].item \in ItemIds /\ items[worker[w].item] # None

RenderInv == RowsOK /\ Provenance /\ OneRendererPerItem

\* What the queue's operations make of a job row.
LEMMA JobFacts ==
    ASSUME NEW job \in JobRows
    PROVE  /\ Enqueued \in JobRows /\ NoJob \in JobRows
           /\ Claimed(job) \in JobRows /\ Claimed(job).status = "running"
           /\ Completed(job) \in JobRows /\ Completed(job).status = "succeeded"
           /\ Failed(job, MaxAttempts) \in JobRows
           /\ Failed(job, MaxAttempts).status \in {"pending", "dead"}
<1>1. job.attempts \in Nat /\ job.status \in JobStatuses /\ job.stuck \in BOOLEAN
  BY DEF JobRows
<1>2. Enqueued \in JobRows /\ NoJob \in JobRows
  BY DEF JobRows, JobStatuses, Enqueued, NoJob
<1>3. Claimed(job) \in JobRows /\ Claimed(job).status = "running"
  BY DEF JobRows, JobStatuses, Claimed
<1>4. Completed(job) \in JobRows /\ Completed(job).status = "succeeded"
  BY DEF JobRows, JobStatuses, Completed
<1>5. /\ Failed(job, MaxAttempts) \in JobRows
      /\ Failed(job, MaxAttempts).status \in {"pending", "dead"}
  <2> DEFINE s == IF job.attempts + 1 >= MaxAttempts THEN "dead" ELSE "pending"
  <2>1. s \in {"pending", "dead"} /\ job.attempts + 1 \in Nat
    BY <1>1
  <2>2. Failed(job, MaxAttempts) = [job EXCEPT !.status = s, !.attempts = job.attempts + 1]
    BY DEF Failed, FailedAs
  <2> HIDE DEF s
  <2>3. QED
    BY <2>1, <2>2 DEF JobRows, JobStatuses
<1>6. QED
  BY <1>2, <1>3, <1>4, <1>5

\* The state of an idle worker.
LEMMA IdleFacts == Idle \in WorkerStates /\ Idle.pc = "idle"
  BY DEF Idle, WorkerStates

\* What starting on an item makes of a worker.
LEMMA BusyFacts ==
    ASSUME NEW state \in WorkerStates, NEW i \in ItemIds,
           NEW pc \in {"rendering", "judging"}
    PROVE  LET busy == [state EXCEPT !.pc = pc, !.item = i]
           IN  busy \in WorkerStates /\ busy.pc = pc /\ busy.item = i
  BY DEF WorkerStates

\* The initial state satisfies the invariant.
LEMMA RenderInit == Init => RenderInv
<1> SUFFICES ASSUME Init PROVE RenderInv
  OBVIOUS
<1>1. RowsOK
  BY IdleFacts DEF Init, RowsOK, NoJob, JobRows, JobStatuses
<1>2. Provenance
  BY IdleFacts DEF Init, Provenance, NoJob
<1>3. OneRendererPerItem
  BY IdleFacts DEF Init, OneRendererPerItem, Rendering
<1>4. QED
  BY <1>1, <1>2, <1>3 DEF RenderInv

\* A step that leaves items and requests alone, creates no job without an item
\* and gives no worker a new render preserves the invariant.
LEMMA QuietStep ==
    ASSUME RenderInv, UNCHANGED <<requests, items>>,
           renders' \in [ItemIds -> JobRows], checks' \in [ItemIds -> JobRows],
           worker' \in [Workers -> WorkerStates],
           \A i \in ItemIds : items[i] = None =>
              renders'[i].status = "absent" /\ checks'[i].status = "absent",
           \A w \in Workers : worker'[w].pc # "idle" =>
              /\ worker'[w].item \in ItemIds /\ items[worker'[w].item] # None
              /\ worker'[w].pc \in {"rendering", "completing"} =>
                    /\ worker[w].pc \in {"rendering", "completing"}
                    /\ worker'[w].item = worker[w].item
    PROVE  RenderInv'
<1>1. RowsOK'
  BY DEF RenderInv, RowsOK
<1>2. Provenance'
  BY DEF RenderInv, Provenance
<1>3. \A w \in Workers, i \in ItemIds : Rendering(w, i)' => Rendering(w, i)
  BY DEF Rendering
<1>4. OneRendererPerItem'
  BY <1>3 DEF RenderInv, OneRendererPerItem
<1>5. QED
  BY <1>1, <1>2, <1>4 DEF RenderInv

\* Creating and fanning out a request.
LEMMA RequestSteps ==
    ASSUME RenderInv, NEW r \in Requests, CreateRequest(r) \/ FanOut(r)
    PROVE  RenderInv'
<1> USE DEF RenderInv
<1>1. CASE CreateRequest(r)
  <2>1. /\ requests' = [requests EXCEPT ![r] = "queued"]
        /\ requests[r] = None
        /\ UNCHANGED <<items, renders, checks, worker>>
    BY <1>1 DEF CreateRequest
  <2>2. RowsOK'
    BY <2>1 DEF RowsOK, RequestStatuses
  <2>3. Provenance'
    <3>1. \A i \in ItemIds : i[1] \in Requests
      BY DEF ItemIds
    <3>2. QED
      BY <2>1, <3>1 DEF Provenance, RowsOK
  <2>4. OneRendererPerItem'
    BY <2>1 DEF OneRendererPerItem, Rendering
  <2>5. QED
    BY <2>2, <2>3, <2>4
<1>2. CASE FanOut(r)
  <2>1. /\ requests[r] = "queued"
        /\ items' = [i \in ItemIds |-> IF i \in FirstItems(r) THEN "pending" ELSE items[i]]
        /\ renders' = [i \in ItemIds |-> IF i \in FirstItems(r) THEN Enqueued ELSE renders[i]]
        /\ requests' = [requests EXCEPT ![r] = "running"]
        /\ UNCHANGED <<checks, worker>>
    BY <1>2 DEF FanOut
  <2>2. \A i \in ItemIds : i[1] \in Requests /\ (i \in FirstItems(r) => i[1] = r)
    BY DEF ItemIds, FirstItems
  <2>3. \A i \in ItemIds : i \in FirstItems(r) => items[i] = None
    BY <2>1, <2>2 DEF Provenance
  <2> HIDE DEF FirstItems
  <2>4. RowsOK'
    <3>1. Enqueued \in JobRows
      BY DEF Enqueued, JobRows, JobStatuses
    <3>2. QED
      BY <2>1, <3>1 DEF RowsOK, ItemStatuses, RequestStatuses
  <2>5. Provenance'
    BY <2>1, <2>2, <2>3 DEF Provenance, RowsOK, None
  <2>6. OneRendererPerItem'
    <3>1. \A w \in Workers, i \in ItemIds : Rendering(w, i)' <=> Rendering(w, i)
      BY <2>1 DEF Rendering
    <3>2. \A w \in Workers, i \in ItemIds : Rendering(w, i) => items'[i] = items[i]
      BY <2>1, <2>3 DEF OneRendererPerItem, None
    <3>3. QED
      BY <3>1, <3>2 DEF OneRendererPerItem
  <2>7. QED
    BY <2>4, <2>5, <2>6
<1>3. QED
  BY <1>1, <1>2

\* A render worker that reports leaves its item to nobody.
LEMMA ReportStep ==
    ASSUME RenderInv, NEW w \in Workers, NEW i \in ItemIds, Rendering(w, i),
           NEW status \in ItemStatuses,
           items' = [items EXCEPT ![i] = status], UNCHANGED requests,
           renders' \in [ItemIds -> JobRows], checks' \in [ItemIds -> JobRows],
           \A k \in ItemIds : k # i => renders'[k] = renders[k] /\ checks'[k] = checks[k],
           worker' = [worker EXCEPT ![w] = Idle]
    PROVE  RenderInv'
<1> USE DEF RenderInv
<1>1. status # None /\ items[i] = "running" /\ items[i] # None
  BY DEF ItemStatuses, None, OneRendererPerItem
<1>2. RowsOK'
  BY IdleFacts DEF RowsOK
<1>3. Provenance'
  <2>1. \A k \in ItemIds : items'[k] = None <=> items[k] = None
    BY <1>1 DEF RowsOK
  <2>2. \A v \in Workers : worker'[v].pc # "idle" => worker'[v] = worker[v]
    BY IdleFacts DEF RowsOK
  <2>3. QED
    BY <1>1, <2>1, <2>2 DEF Provenance
<1>4. OneRendererPerItem'
  <2>1. \A v \in Workers, k \in ItemIds : Rendering(v, k)' => Rendering(v, k) /\ v # w
    BY IdleFacts DEF RowsOK, Rendering
  <2>2. \A v \in Workers, k \in ItemIds : Rendering(v, k)' => k # i
    BY <2>1 DEF OneRendererPerItem
  <2>3. QED
    BY <2>1, <2>2 DEF OneRendererPerItem, RowsOK
<1>5. QED
  BY <1>2, <1>3, <1>4

\* The render worker.
LEMMA RenderSteps ==
    ASSUME RenderInv, NEW w \in RenderWorkers, RenderStep(w)
    PROVE  RenderInv'
<1> USE DEF RenderInv
<1>w. w \in Workers
  BY DEF Workers
<1>1. ASSUME NEW i \in ItemIds, StartRender(w, i) PROVE RenderInv'
  <2> DEFINE busy == [Idle EXCEPT !.pc = "rendering", !.item = i]
  <2>1. /\ worker[w].pc = "idle" /\ MayRun(items[i])
        /\ items' = [items EXCEPT ![i] = "running"]
        /\ renders' = [renders EXCEPT ![i] = Claimed(@)]
        /\ worker' = [worker EXCEPT ![w] = busy]
        /\ UNCHANGED <<requests, checks>>
    BY <1>1 DEF StartRender
  <2>2. busy \in WorkerStates /\ busy.pc = "rendering" /\ busy.item = i
    BY IdleFacts, BusyFacts
  <2> HIDE DEF busy
  <2>3. items[i] \in {"pending", "failed"} /\ items[i] # None
    BY <2>1 DEF MayRun, None
  <2>4. \A v \in Workers : ~Rendering(v, i)
    BY <2>3 DEF OneRendererPerItem
  <2>5. RowsOK'
    <3>1. renders' \in [ItemIds -> JobRows]
      BY <2>1, JobFacts DEF RowsOK
    <3>2. items' \in [ItemIds -> ItemStatuses \cup {None}]
      BY <2>1 DEF RowsOK, ItemStatuses
    <3>3. worker' \in [Workers -> WorkerStates]
      BY <2>1, <2>2 DEF RowsOK
    <3>4. QED
      BY <2>1, <3>1, <3>2, <3>3 DEF RowsOK
  <2>6. Provenance'
    <3>1. \A k \in ItemIds : items'[k] = None <=> items[k] = None
      BY <2>1, <2>3 DEF RowsOK, None
    <3>2. \A k \in ItemIds : k # i => renders'[k] = renders[k]
      BY <2>1 DEF RowsOK
    <3>3. \A v \in Workers : v # w => worker'[v] = worker[v]
      BY <2>1 DEF RowsOK
    <3>4. worker'[w] = busy
      BY <2>1, <1>w DEF RowsOK
    <3>5. QED
      BY <2>1, <2>2, <2>3, <3>1, <3>2, <3>3, <3>4 DEF Provenance
  <2>7. OneRendererPerItem'
    <3>1. \A v \in Workers, k \in ItemIds :
             Rendering(v, k)' <=> IF v = w THEN k = i ELSE Rendering(v, k)
      BY <2>1, <2>2, <1>w DEF Rendering, RowsOK
    <3>2. \A k \in ItemIds : items'[k] = IF k = i THEN "running" ELSE items[k]
      BY <2>1 DEF RowsOK
    <3>3. QED
      BY <3>1, <3>2, <2>4 DEF OneRendererPerItem
  <2>8. QED
    BY <2>5, <2>6, <2>7
<1>i. worker[w].pc \in {"rendering", "completing"} =>
         worker[w].item \in ItemIds /\ Rendering(w, worker[w].item)
  BY <1>w DEF Provenance, Rendering
<1>2. CASE FailRender(w)
  <2> DEFINE i == worker[w].item
             job == Failed(renders[i], MaxAttempts)
             status == IF job.status = "dead" THEN "dead" ELSE "failed"
  <2>1. /\ worker[w].pc = "rendering"
        /\ renders' = [renders EXCEPT ![i] = job]
        /\ items' = [items EXCEPT ![i] = status]
        /\ worker' = [worker EXCEPT ![w] = Idle]
        /\ UNCHANGED <<requests, checks>>
    BY <1>2 DEF FailRender
  <2>2. i \in ItemIds /\ Rendering(w, i)
    BY <2>1, <1>i
  <2>3. job \in JobRows /\ status \in ItemStatuses
    BY <2>2, JobFacts DEF RowsOK, ItemStatuses
  <2> HIDE DEF i, job, status
  <2>4. renders' \in [ItemIds -> JobRows] /\ \A k \in ItemIds : k # i => renders'[k] = renders[k]
    BY <2>1, <2>3 DEF RowsOK
  <2>5. QED
    BY <2>1, <2>2, <2>3, <2>4, <1>w, ReportStep DEF RowsOK
<1>3. CASE CompleteRead(w)
  <2>1. PICK live \in ItemIds \cup {NoItem} :
           worker' = [worker EXCEPT ![w].pc = "completing", ![w].live = live]
    BY <1>3 DEF CompleteRead, LiveIn
  <2>2. worker[w].pc = "rendering" /\ UNCHANGED <<requests, items, renders, checks>>
    BY <1>3 DEF CompleteRead
  <2>3. /\ worker' \in [Workers -> WorkerStates]
        /\ \A v \in Workers : v # w => worker'[v] = worker[v]
        /\ worker'[w].pc = "completing" /\ worker'[w].item = worker[w].item
    BY <2>1, <1>w DEF RowsOK, WorkerStates
  <2>4. QED
    BY <2>2, <2>3, <1>i, QuietStep DEF RowsOK, Provenance
<1>4. CASE CompleteRender(w)
  <2> DEFINE i == worker[w].item
  <2>1. /\ worker[w].pc = "completing"
        /\ items' = [items EXCEPT ![i] = "succeeded"]
        /\ checks' = [checks EXCEPT ![i] = Enqueued]
        /\ renders' = [renders EXCEPT ![i] = Completed(@)]
        /\ worker' = [worker EXCEPT ![w] = Idle]
        /\ UNCHANGED requests
    BY <1>4 DEF CompleteRender
  <2>2. i \in ItemIds /\ Rendering(w, i)
    BY <2>1, <1>i
  <2> HIDE DEF i
  <2>3. /\ renders' \in [ItemIds -> JobRows] /\ checks' \in [ItemIds -> JobRows]
        /\ \A k \in ItemIds : k # i => renders'[k] = renders[k] /\ checks'[k] = checks[k]
    BY <2>1, <2>2, JobFacts DEF RowsOK
  <2>4. "succeeded" \in ItemStatuses
    BY DEF ItemStatuses
  <2>5. QED
    BY <2>1, <2>2, <2>3, <2>4, <1>w, ReportStep
<1>5. CASE CompleteConflict(w)
  <2>1. worker' = [worker EXCEPT ![w] = Idle] /\ UNCHANGED <<requests, items, renders, checks>>
    BY <1>5 DEF CompleteConflict
  <2>2. /\ worker' \in [Workers -> WorkerStates]
        /\ \A v \in Workers : worker'[v].pc # "idle" => worker'[v] = worker[v]
    BY <2>1, IdleFacts DEF RowsOK
  <2>3. QED
    BY <2>1, <2>2, QuietStep DEF RowsOK, Provenance
<1>6. QED
  BY <1>1, <1>2, <1>3, <1>4, <1>5 DEF RenderStep

\* The QC worker.
LEMMA QcSteps ==
    ASSUME RenderInv, NEW w \in QcWorkers, QcStep(w)
    PROVE  RenderInv'
<1> USE DEF RenderInv
<1>w. w \in Workers
  BY DEF Workers
<1>i. worker[w].pc # "idle" => worker[w].item \in ItemIds /\ items[worker[w].item] # None
  BY <1>w DEF Provenance
<1>1. ASSUME NEW i \in ItemIds, StartQc(w, i) PROVE RenderInv'
  <2> DEFINE busy == [Idle EXCEPT !.pc = "judging", !.item = i]
  <2>1. /\ checks[i].status = "pending"
        /\ checks' = [checks EXCEPT ![i] = Claimed(@)]
        /\ worker' = [worker EXCEPT ![w] = busy]
        /\ UNCHANGED <<requests, items, renders>>
    BY <1>1 DEF StartQc
  <2>2. busy \in WorkerStates /\ busy.pc = "judging" /\ busy.item = i
    BY IdleFacts, BusyFacts
  <2> HIDE DEF busy
  <2>3. items[i] # None
    BY <2>1 DEF Provenance
  <2>4. /\ checks' \in [ItemIds -> JobRows]
        /\ \A k \in ItemIds : k # i => checks'[k] = checks[k]
    BY <2>1, JobFacts DEF RowsOK
  <2>5. /\ worker' \in [Workers -> WorkerStates] /\ worker'[w] = busy
        /\ \A v \in Workers : v # w => worker'[v] = worker[v]
    BY <2>1, <2>2, <1>w DEF RowsOK
  <2>6. QED
    BY <2>1, <2>2, <2>3, <2>4, <2>5, QuietStep DEF RowsOK, Provenance
<1>2. CASE QcRead(w)
  <2>1. /\ worker[w].pc = "judging"
        /\ UNCHANGED <<requests, items, renders, checks>>
    BY <1>2 DEF QcRead
  <2>2. PICK verdict \in {"pass", "fail"}, rung \in 0..3 :
           worker' = [worker EXCEPT ![w].pc = "recording", ![w].verdict = verdict,
                                    ![w].rung = rung]
    <3>1. CASE worker' = [worker EXCEPT ![w].pc = "recording", ![w].verdict = "pass"]
      <4>1. worker[w].rung \in 0..3
        BY <1>w DEF RowsOK, WorkerStates
      <4>2. worker' = [worker EXCEPT ![w].pc = "recording", ![w].verdict = "pass",
                                     ![w].rung = worker[w].rung]
        BY <3>1, <1>w DEF RowsOK, WorkerStates
      <4>3. QED
        BY <4>1, <4>2
    <3>2. ASSUME NEW alternate \in Alternates,
                 worker' = [worker EXCEPT ![w].pc = "recording", ![w].verdict = "fail",
                               ![w].rung = NextRung(worker[w].item, alternate)]
          PROVE  \E verdict \in {"pass", "fail"}, rung \in 0..3 :
                    worker' = [worker EXCEPT ![w].pc = "recording", ![w].verdict = verdict,
                                             ![w].rung = rung]
      <4>1. NextRung(worker[w].item, alternate) \in 0..3
        <5> DEFINE tried == {a \in Attempts :
                               items[<<worker[w].item[1], worker[w].item[2], a>>] # None}
                   latest == CHOOSE a \in tried : \A b \in tried : b <= a
        <5>1. NextRung(worker[w].item, alternate) =
                 IF latest = 1 \/ (latest = 2 /\ alternate) THEN latest + 1 ELSE 0
          BY DEF NextRung
        <5> HIDE DEF latest
        <5>2. QED
          BY <5>1
      <4>2. QED
        BY <3>2, <4>1
    <3>3. QED
      BY <1>2, <3>1, <3>2 DEF QcRead
  <2>3. /\ worker' \in [Workers -> WorkerStates]
        /\ \A v \in Workers : v # w => worker'[v] = worker[v]
        /\ worker'[w].pc = "recording" /\ worker'[w].item = worker[w].item
    <3>1. worker[w] \in WorkerStates /\ worker \in [Workers -> WorkerStates]
      BY <1>w DEF RowsOK
    <3>2. worker' = [worker EXCEPT ![w] = [worker[w] EXCEPT
                        !.pc = "recording", !.verdict = verdict, !.rung = rung]]
      BY <2>2
    <3>3. [worker[w] EXCEPT !.pc = "recording", !.verdict = verdict, !.rung = rung]
             \in WorkerStates
      BY <3>1 DEF WorkerStates
    <3>4. QED
      BY <1>w, <3>1, <3>2, <3>3 DEF WorkerStates
  <2>4. QED
    BY <2>1, <2>3, <1>i, QuietStep DEF RowsOK, Provenance
<1>3. CASE FailQc(w) \/ QcRaise(w) \/ RecordPass(w) \/ RecordConflict(w) \/ RecordEscalation(w)
  <2>1. /\ worker[w].pc # "idle"
        /\ worker' = [worker EXCEPT ![w] = Idle]
        /\ UNCHANGED <<requests, items, renders>>
    BY <1>3 DEF FailQc, QcRaise, RecordPass, RecordConflict, RecordEscalation
  <2>2. /\ checks' \in [ItemIds -> JobRows]
        /\ \A k \in ItemIds : k # worker[w].item => checks'[k] = checks[k]
    BY <1>3, <1>i, <2>1, JobFacts
       DEF FailQc, QcRaise, RecordPass, RecordConflict, RecordEscalation, RowsOK
  <2>3. /\ worker' \in [Workers -> WorkerStates]
        /\ \A v \in Workers : worker'[v].pc # "idle" => worker'[v] = worker[v]
    BY <2>1, IdleFacts DEF RowsOK
  <2>4. QED
    BY <2>1, <2>2, <2>3, <1>i, QuietStep DEF RowsOK, Provenance
<1>4. CASE RecordRetry(w)
  <2> DEFINE i == worker[w].item
             next == <<i[1], i[2], worker[w].rung>>
  <2>1. /\ worker[w].pc = "recording" /\ worker[w].rung # 0
        /\ items[next] = None
        /\ items' = [items EXCEPT ![next] = "pending"]
        /\ renders' = [renders EXCEPT ![next] = Enqueued]
        /\ checks' = [checks EXCEPT ![i] = Completed(@)]
        /\ worker' = [worker EXCEPT ![w] = Idle]
        /\ UNCHANGED requests
    BY <1>4 DEF RecordRetry
  <2>2. i \in ItemIds /\ items[i] # None
    BY <2>1, <1>i
  <2>3. next \in ItemIds /\ next[1] = i[1]
    <3>1. worker[w].rung \in 1..3
      BY <2>1, <1>w DEF RowsOK, WorkerStates
    <3>2. QED
      BY <2>2, <3>1 DEF ItemIds, Attempts
  <2>4. requests[next[1]] \notin {None, "queued"}
    BY <2>2, <2>3 DEF Provenance
  <2> HIDE DEF i, next
  <2>5. RowsOK'
    <3>1. renders' \in [ItemIds -> JobRows] /\ checks' \in [ItemIds -> JobRows]
      BY <2>1, <2>2, JobFacts DEF RowsOK
    <3>2. items' \in [ItemIds -> ItemStatuses \cup {None}]
      BY <2>1 DEF RowsOK, ItemStatuses
    <3>3. QED
      BY <2>1, <3>1, <3>2, IdleFacts DEF RowsOK
  <2>6. \A v \in Workers : worker'[v].pc # "idle" => worker'[v] = worker[v]
    BY <2>1, IdleFacts DEF RowsOK
  <2>7. \A k \in ItemIds : items'[k] = IF k = next THEN "pending" ELSE items[k]
    BY <2>1 DEF RowsOK
  <2>8. Provenance'
    <3>1. \A k \in ItemIds : k # next => renders'[k] = renders[k]
      BY <2>1 DEF RowsOK
    <3>2. \A k \in ItemIds : k # i => checks'[k] = checks[k]
      BY <2>1 DEF RowsOK
    <3>3. QED
      BY <2>1, <2>2, <2>4, <2>6, <2>7, <3>1, <3>2 DEF Provenance, None
  <2>9. OneRendererPerItem'
    <3>1. \A v \in Workers, k \in ItemIds : Rendering(v, k)' => Rendering(v, k)
      BY <2>6 DEF Rendering
    <3>2. \A v \in Workers, k \in ItemIds : Rendering(v, k) => k # next
      BY <2>1 DEF OneRendererPerItem, None
    <3>3. QED
      BY <2>7, <3>1, <3>2 DEF OneRendererPerItem
  <2>10. QED
    BY <2>5, <2>8, <2>9
<1>5. QED
  BY <1>1, <1>2, <1>3, <1>4 DEF QcStep

\* A crash, a review, the passing of time and the reaper.
LEMMA OtherSteps ==
    ASSUME RenderInv,
           \/ \E w \in Workers : Crash(w)
           \/ \E c \in Reviewers : ReviewRead(c) \/ ReviewCommit(c)
           \/ \E i \in ItemIds : BecomeStuck(i)
           \/ Reap
    PROVE  RenderInv'
<1> USE DEF RenderInv
<1>1. ASSUME NEW w \in Workers, Crash(w) PROVE RenderInv'
  <2>1. worker' = [worker EXCEPT ![w] = Idle] /\ UNCHANGED <<requests, items, renders, checks>>
    BY <1>1 DEF Crash
  <2>2. /\ worker' \in [Workers -> WorkerStates]
        /\ \A v \in Workers : worker'[v].pc # "idle" => worker'[v] = worker[v]
    BY <2>1, IdleFacts DEF RowsOK
  <2>3. QED
    BY <2>1, <2>2, QuietStep DEF RowsOK, Provenance
<1>2. ASSUME NEW c \in Reviewers, ReviewRead(c) \/ ReviewCommit(c) PROVE RenderInv'
  <2>1. UNCHANGED <<requests, items, renders, checks, worker>>
    BY <1>2 DEF ReviewRead, ReviewCommit
  <2>2. QED
    BY <2>1, QuietStep DEF RowsOK, Provenance
<1>3. ASSUME NEW i \in ItemIds, BecomeStuck(i) PROVE RenderInv'
  <2>1. UNCHANGED <<requests, items, worker>>
    BY <1>3 DEF BecomeStuck
  <2>2. /\ renders' \in [ItemIds -> JobRows] /\ checks' \in [ItemIds -> JobRows]
        /\ \A k \in ItemIds : /\ renders'[k].status = renders[k].status
                             /\ checks'[k].status = checks[k].status
    BY <1>3 DEF BecomeStuck, RowsOK, JobRows
  <2>3. QED
    BY <2>1, <2>2, QuietStep DEF RowsOK, Provenance
<1>4. CASE Reap
  <2>1. /\ UNCHANGED <<requests, items, worker>>
        /\ renders' = Reaped(renders) /\ checks' = Reaped(checks)
    BY <1>4 DEF Reap
  <2>2. ASSUME NEW rows \in [ItemIds -> JobRows]
        PROVE  /\ Reaped(rows) \in [ItemIds -> JobRows]
               /\ \A i \in ItemIds : rows[i].status = "absent" =>
                     Reaped(rows)[i].status = "absent"
    BY <2>2, JobFacts DEF Reaped, Reapable
  <2>3. QED
    BY <2>1, <2>2, QuietStep DEF RowsOK, Provenance
<1>5. QED
  BY <1>1, <1>2, <1>3, <1>4

\* Settling requests: a settled request is no longer queued.
LEMMA ReconcileStep ==
    ASSUME RenderInv, Reconcile
    PROVE  RenderInv'
<1> USE DEF RenderInv
<1> DEFINE ready == {r \in Swept : Rollup(r) # None}
<1>1. /\ requests' = [r \in Requests |-> IF r \in ready THEN Rollup(r) ELSE requests[r]]
      /\ UNCHANGED <<items, renders, checks, worker>>
  BY DEF Reconcile
<1>2. \A r \in ready : Rollup(r) \in Settled
  BY DEF Rollup, Settled
<1>3. \A r \in ready : requests[r] = "running"
  BY DEF Swept
<1> HIDE DEF ready
<1>4. RowsOK'
  BY <1>1, <1>2 DEF RowsOK, Settled, RequestStatuses
<1>5. Provenance'
  <2>1. \A i \in ItemIds : i[1] \in Requests
    BY DEF ItemIds
  <2>2. \A r \in Requests : requests'[r] \in {None, "queued"} => requests'[r] = requests[r]
    BY <1>1, <1>2 DEF Settled, None
  <2>3. QED
    BY <1>1, <2>1, <2>2 DEF Provenance
<1>6. OneRendererPerItem'
  BY <1>1 DEF OneRendererPerItem, Rendering
<1>7. QED
  BY <1>4, <1>5, <1>6

\* Every step preserves the invariant.
LEMMA RenderStepInv == RenderInv /\ [Next]_vars => RenderInv'
<1> SUFFICES ASSUME RenderInv, [Next]_vars PROVE RenderInv'
  OBVIOUS
<1>1. CASE UNCHANGED vars
  BY <1>1 DEF vars, RenderInv, RowsOK, Provenance, OneRendererPerItem, Rendering
<1>2. CASE Next
  BY <1>2, RequestSteps, RenderSteps, QcSteps, OtherSteps, ReconcileStep DEF Next
<1>3. QED
  BY <1>1, <1>2

\* The invariant of the render workers holds in every behaviour.
LEMMA RenderInvariant == Spec => []RenderInv
  BY RenderInit, RenderStepInv, PTL DEF Spec

\* An item has at most one render worker and is running while it has one
\* (mark_running in StartGenerationItemRender), whatever the reaper gives back
\* and however slow the workers are: the guard is the item's status, which only
\* the worker that holds the item changes.
THEOREM OneRenderer == Spec => []OneRendererPerItem
<1>1. RenderInv => OneRendererPerItem
  BY DEF RenderInv
<1>2. QED
  BY RenderInvariant, <1>1, PTL

-----------------------------------------------------------------------------
(* Approval *)

\* Every image that is approved, waits for approval, or is in the hands of a
\* reviewer has a passing verdict.
ApprovalInv ==
    /\ images \in [ItemIds -> ImageRows]
    /\ \A i \in ItemIds : images[i].status \in {"pending_approval", "approved"} => i \in passed
    /\ review \in [Reviewers -> [images: SUBSET ItemIds,
                                 decision: {"none", "approved", "rejected"}]]
    /\ \A c \in Reviewers :
          /\ review[c].images \subseteq passed
          /\ review[c].images # {} => review[c].decision # "none"

\* The invariant of approval holds in every behaviour.
LEMMA ApprovalInvariant == Spec => []ApprovalInv
<1>1. Init => ApprovalInv
  BY DEF Init, ApprovalInv, ImageRows, NoReview, None
<1>2. ApprovalInv /\ [Next]_vars => ApprovalInv'
  <2> SUFFICES ASSUME ApprovalInv, [Next]_vars PROVE ApprovalInv'
    OBVIOUS
  <2> USE DEF ApprovalInv
  <2>1. ASSUME UNCHANGED <<images, review, passed>> PROVE ApprovalInv'
    BY <2>1
  <2>2. ASSUME NEW w \in Workers, CompleteRender(w) PROVE ApprovalInv'
    <3>1. /\ UNCHANGED <<review, passed>>
          /\ images' = [k \in ItemIds |->
                CASE k = worker[w].item -> [status |-> "pending_qc", live |-> TRUE]
                  [] k # worker[w].item /\ k = worker[w].live -> [images[k] EXCEPT !.live = FALSE]
                  [] OTHER -> images[k]]
      BY <2>2 DEF CompleteRender
    <3>2. \A k \in ItemIds : /\ images'[k] \in ImageRows
                             /\ images'[k].status \in {"pending_qc", images[k].status}
      BY <3>1 DEF ImageRows, ImageStatuses
    <3>3. images' \in [ItemIds -> ImageRows]
      BY <3>1, <3>2
    <3>4. QED
      BY <3>1, <3>2, <3>3
  <2>3. ASSUME NEW w \in Workers, RecordPass(w) PROVE ApprovalInv'
    BY <2>3 DEF RecordPass, ImageRows, ImageStatuses
  <2>4. ASSUME NEW w \in Workers, RecordRetry(w) PROVE ApprovalInv'
    <3>1. images' = [images EXCEPT ![worker[w].item].status = "qc_failed"]
          /\ UNCHANGED <<review, passed>>
      BY <2>4 DEF RecordRetry
    <3>2. QED
      BY <3>1 DEF ImageRows, ImageStatuses
  <2>5. ASSUME NEW w \in Workers, RecordEscalation(w) PROVE ApprovalInv'
    BY <2>5 DEF RecordEscalation, ImageRows, ImageStatuses
  <2>6. ASSUME NEW c \in Reviewers, ReviewRead(c) PROVE ApprovalInv'
    <3>1. PICK batch \in SUBSET Reviewable, decision \in {"approved", "rejected"} :
             review' = [review EXCEPT ![c] = [images |-> batch, decision |-> decision]]
      BY <2>6 DEF ReviewRead
    <3>2. UNCHANGED <<images, passed>>
      BY <2>6 DEF ReviewRead
    <3>3. batch \subseteq ItemIds /\ batch \subseteq passed
      BY <3>1 DEF Reviewable
    <3>4. QED
      BY <3>1, <3>2, <3>3
  <2>7. ASSUME NEW c \in Reviewers, ReviewCommit(c) PROVE ApprovalInv'
    <3>1. /\ images' = [i \in ItemIds |-> IF i \in review[c].images
                                          THEN [images[i] EXCEPT !.status = review[c].decision]
                                          ELSE images[i]]
          /\ review' = [review EXCEPT ![c] = NoReview]
          /\ UNCHANGED passed
      BY <2>7 DEF ReviewCommit
    <3>2. \A i \in review[c].images : review[c].decision \in {"approved", "rejected"} /\ i \in passed
      OBVIOUS
    <3>3. \A i \in ItemIds : /\ images'[i] \in ImageRows
                             /\ i \in passed \/ images'[i] = images[i]
      BY <3>1, <3>2 DEF ImageRows, ImageStatuses
    <3>4. images' \in [ItemIds -> ImageRows]
      BY <3>1, <3>3
    <3>5. NoReview \in [images: SUBSET ItemIds, decision: {"none", "approved", "rejected"}]
          /\ NoReview.images = {}
      BY DEF NoReview
    <3>6. QED
      BY <3>1, <3>3, <3>4, <3>5
  <2>8. CASE UNCHANGED vars
    BY <2>1, <2>8 DEF vars
  <2>9. CASE Next
    <3>1. ASSUME NEW r \in Requests, CreateRequest(r) \/ FanOut(r) PROVE ApprovalInv'
      BY <2>1, <3>1 DEF CreateRequest, FanOut
    <3>2. ASSUME NEW w \in RenderWorkers, RenderStep(w) PROVE ApprovalInv'
      BY <2>1, <2>2, <3>2
         DEF RenderStep, StartRender, FailRender, CompleteRead, CompleteConflict, Workers
    <3>3. ASSUME NEW w \in QcWorkers, QcStep(w) PROVE ApprovalInv'
      BY <2>1, <2>3, <2>4, <2>5, <3>3
         DEF QcStep, StartQc, FailQc, QcRead, QcRaise, RecordConflict, Workers
    <3>4. ASSUME NEW w \in Workers, Crash(w) PROVE ApprovalInv'
      BY <2>1, <3>4 DEF Crash
    <3>5. ASSUME NEW i \in ItemIds, BecomeStuck(i) PROVE ApprovalInv'
      BY <2>1, <3>5 DEF BecomeStuck
    <3>6. CASE Reconcile \/ Reap
      BY <2>1, <3>6 DEF Reconcile, Reap
    <3>7. QED
      BY <2>6, <2>7, <2>9, <3>1, <3>2, <3>3, <3>4, <3>5, <3>6 DEF Next
  <2>10. QED
    BY <2>8, <2>9
<1>3. QED
  BY <1>1, <1>2, PTL DEF Spec

\* An image is approved only after a passing verdict was recorded for it: the
\* approval setting, single and bulk approval and racing reviewers included.
THEOREM OnlyPassedApproved == Spec => []ApprovedPassedQc
<1>1. ApprovalInv => ApprovedPassedQc
  BY DEF ApprovalInv, ApprovedPassedQc
<1>2. QED
  BY <1>1, ApprovalInvariant, PTL
=============================================================================
