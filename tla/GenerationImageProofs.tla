----------------------- MODULE GenerationImageProofs -----------------------
(***************************************************************************)
(* Theorems about the images, the quota and the retry ladder of            *)
(* Generation, for every value of its constants.  They rest on RenderInv   *)
(* and ApprovalInv of GenerationProofs.                                    *)
(***************************************************************************)
EXTENDS GenerationProofs, FiniteSetTheorems

------------------------------------------------------------------------------
(* What the steps do to the images *)

\* The item of a worker that is not idle.
LEMMA BusyItem ==
    ASSUME RenderInv, NEW w \in Workers, worker[w].pc # "idle"
    PROVE  /\ worker[w].item \in ItemIds /\ items[worker[w].item] # None
           /\ worker[w].pc \in {"rendering", "completing"} => items[worker[w].item] = "running"
<1>1. worker[w].item \in ItemIds /\ items[worker[w].item] # None
  BY DEF RenderInv, Provenance
<1>2. QED
  BY <1>1 DEF RenderInv, OneRendererPerItem, Rendering

\* NoItem is no item, and the slot of an item is a slot.
LEMMA ItemFacts ==
    /\ NoItem \notin ItemIds
    /\ \A i \in ItemIds : i[1] \in Requests /\ i[2] \in Slots /\ i[3] \in Attempts
    /\ \A r \in Requests, s \in Slots, a \in Attempts :
          /\ <<r, s, a>> \in ItemIds
          /\ <<r, s, a>>[1] = r /\ <<r, s, a>>[2] = s /\ <<r, s, a>>[3] = a
    /\ \A i \in ItemIds : i = <<i[1], i[2], i[3]>>
  BY GenerationAssumptions DEF NoItem, ItemIds, Requests

\* Completing a render inserts one image and retires one.
LEMMA CompleteImages ==
    ASSUME images \in [ItemIds -> ImageRows], NEW w \in Workers, CompleteRender(w)
    PROVE  /\ images' \in [ItemIds -> ImageRows]
           /\ \A k \in ItemIds :
                 /\ k = worker[w].item => images'[k].status = "pending_qc" /\ images'[k].live
                 /\ k # worker[w].item =>
                       /\ images'[k].status = images[k].status
                       /\ images'[k].live = (k # worker[w].live /\ images[k].live)
<1> DEFINE i == worker[w].item
<1>1. images' = [k \in ItemIds |->
                    CASE k = i -> [status |-> "pending_qc", live |-> TRUE]
                      [] k # i /\ k = worker[w].live -> [images[k] EXCEPT !.live = FALSE]
                      [] OTHER -> images[k]]
  BY DEF CompleteRender
<1>2. ASSUME NEW k \in ItemIds
      PROVE  /\ images'[k] \in ImageRows
             /\ k = i => images'[k].status = "pending_qc" /\ images'[k].live
             /\ k # i => /\ images'[k].status = images[k].status
                         /\ images'[k].live = (k # worker[w].live /\ images[k].live)
  <2>1. images[k] \in ImageRows
    OBVIOUS
  <2>2. CASE k = i
    <3>1. images'[k] = [status |-> "pending_qc", live |-> TRUE]
      BY <1>1, <2>2
    <3>2. QED
      BY <2>2, <3>1 DEF ImageRows, ImageStatuses
  <2>3. CASE k # i /\ k = worker[w].live
    <3>1. images'[k] = [images[k] EXCEPT !.live = FALSE]
      BY <1>1, <2>3
    <3>2. QED
      BY <2>1, <2>3, <3>1 DEF ImageRows
  <2>4. CASE k # i /\ k # worker[w].live
    <3>1. images'[k] = images[k]
      BY <1>1, <2>4
    <3>2. images[k].live \in BOOLEAN
      BY <2>1 DEF ImageRows
    <3>3. QED
      BY <2>1, <2>4, <3>1, <3>2
  <2>5. QED
    BY <2>2, <2>3, <2>4
<1>3. images' \in [ItemIds -> ImageRows]
  BY <1>1, <1>2
<1>4. QED
  BY <1>2, <1>3

\* Recording a verdict writes the status of the image judged.
LEMMA RecordImages ==
    ASSUME images \in [ItemIds -> ImageRows], NEW w \in Workers,
           RecordPass(w) \/ RecordRetry(w) \/ RecordEscalation(w)
    PROVE  /\ images' \in [ItemIds -> ImageRows]
           /\ \A k \in ItemIds :
                 /\ images'[k].live = images[k].live
                 /\ k = worker[w].item =>
                       /\ images'[k].status \in {"pending_approval", "approved", "qc_failed",
                                                 "human_review"}
                       /\ RecordRetry(w) => images'[k].status = "qc_failed"
                 /\ k # worker[w].item => images'[k] = images[k]
<1>1. PICK status \in {"pending_approval", "approved", "qc_failed", "human_review"} :
          /\ images' = [images EXCEPT ![worker[w].item].status = status]
          /\ RecordRetry(w) => status = "qc_failed"
  BY DEF RecordPass, RecordRetry, RecordEscalation
<1>2. ASSUME NEW k \in ItemIds
      PROVE  /\ images'[k] \in ImageRows /\ images'[k].live = images[k].live
             /\ k = worker[w].item => images'[k].status = status
             /\ k # worker[w].item => images'[k] = images[k]
  BY <1>1 DEF ImageRows, ImageStatuses
<1>3. images' \in [ItemIds -> ImageRows]
  BY <1>1, <1>2
<1>4. QED
  BY <1>1, <1>2, <1>3

\* A review writes its decision on the images it read.
LEMMA ReviewImages ==
    ASSUME ApprovalInv, NEW c \in Reviewers, ReviewCommit(c)
    PROVE  /\ images' \in [ItemIds -> ImageRows]
           /\ \A k \in ItemIds :
                 /\ images'[k].live = images[k].live
                 /\ k \in review[c].images => images'[k].status \in {"approved", "rejected"}
                 /\ k \notin review[c].images => images'[k] = images[k]
<1> DEFINE decision == review[c].decision
<1>1. images' = [i \in ItemIds |-> IF i \in review[c].images
                                   THEN [images[i] EXCEPT !.status = decision] ELSE images[i]]
  BY DEF ReviewCommit
<1>2. /\ images \in [ItemIds -> ImageRows]
      /\ review[c].images # {} => decision \in {"approved", "rejected"}
  BY DEF ApprovalInv
<1> HIDE DEF decision
<1>3. ASSUME NEW k \in ItemIds
      PROVE  /\ images'[k] \in ImageRows /\ images'[k].live = images[k].live
             /\ k \in review[c].images => images'[k].status \in {"approved", "rejected"}
             /\ k \notin review[c].images => images'[k] = images[k]
  BY <1>1, <1>2 DEF ImageRows, ImageStatuses
<1>4. images' \in [ItemIds -> ImageRows]
  BY <1>1, <1>3
<1>5. QED
  BY <1>3, <1>4

\* No other step touches an image.
LEMMA ImageCases ==
    ASSUME [Next]_vars
    PROVE  \/ images' = images
           \/ \E w \in Workers : CompleteRender(w)
           \/ \E w \in Workers : RecordPass(w) \/ RecordRetry(w) \/ RecordEscalation(w)
           \/ \E c \in Reviewers : ReviewCommit(c)
<1>1. ASSUME NEW r \in Requests, CreateRequest(r) \/ FanOut(r) PROVE images' = images
  BY <1>1 DEF CreateRequest, FanOut
<1>2. ASSUME NEW w \in RenderWorkers, RenderStep(w)
      PROVE  images' = images \/ CompleteRender(w)
  BY <1>2 DEF RenderStep, StartRender, FailRender, CompleteRead, CompleteConflict
<1>3. ASSUME NEW w \in QcWorkers, QcStep(w)
      PROVE  images' = images \/ RecordPass(w) \/ RecordRetry(w) \/ RecordEscalation(w)
  BY <1>3 DEF QcStep, StartQc, FailQc, QcRead, QcRaise, RecordConflict
<1>4. ASSUME NEW w \in Workers, Crash(w) PROVE images' = images
  BY <1>4 DEF Crash
<1>5. ASSUME NEW c \in Reviewers, ReviewRead(c) PROVE images' = images
  BY <1>5 DEF ReviewRead
<1>6. ASSUME NEW i \in ItemIds, BecomeStuck(i) PROVE images' = images
  BY <1>6 DEF BecomeStuck
<1>7. CASE Reconcile \/ Reap \/ UNCHANGED vars
  BY <1>7 DEF Reconcile, Reap, vars
<1>8. RenderWorkers \subseteq Workers /\ QcWorkers \subseteq Workers
  BY DEF Workers
<1>9. QED
  BY <1>1, <1>2, <1>3, <1>4, <1>5, <1>6, <1>7, <1>8 DEF Next

\* What a step makes of a worker.
LEMMA WorkerCases ==
    ASSUME RenderInv, [Next]_vars, NEW v \in Workers
    PROVE  \/ worker'[v] = worker[v]
           \/ worker'[v] = Idle
           \/ \E i \in ItemIds : (v \in RenderWorkers /\ StartRender(v, i)) \/ StartQc(v, i)
           \/ v \in RenderWorkers /\ CompleteRead(v)
           \/ QcRead(v)
<1>1. worker \in [Workers -> WorkerStates]
  BY DEF RenderInv, RowsOK
<1>2. ASSUME NEW r \in Requests, CreateRequest(r) \/ FanOut(r) PROVE worker' = worker
  BY <1>2 DEF CreateRequest, FanOut
<1>3. ASSUME NEW w \in RenderWorkers, RenderStep(w)
      PROVE  \/ worker'[v] = worker[v] \/ worker'[v] = Idle
             \/ v = w /\ (CompleteRead(w) \/ \E i \in ItemIds : StartRender(w, i))
  <2>1. CASE FailRender(w) \/ CompleteRender(w) \/ CompleteConflict(w)
    <3>1. worker' = [worker EXCEPT ![w] = Idle]
      BY <2>1 DEF FailRender, CompleteRender, CompleteConflict
    <3>2. QED
      BY <1>1, <3>1
  <2>2. CASE \E i \in ItemIds : StartRender(w, i)
    BY <1>1, <2>2 DEF StartRender
  <2>3. CASE CompleteRead(w)
    BY <1>1, <2>3 DEF CompleteRead
  <2>4. QED
    BY <1>3, <2>1, <2>2, <2>3 DEF RenderStep
<1>4. ASSUME NEW w \in QcWorkers, QcStep(w)
      PROVE  \/ worker'[v] = worker[v] \/ worker'[v] = Idle
             \/ v = w /\ (QcRead(w) \/ \E i \in ItemIds : StartQc(w, i))
  <2>1. CASE FailQc(w) \/ QcRaise(w) \/ RecordPass(w) \/ RecordRetry(w) \/ RecordConflict(w)
             \/ RecordEscalation(w)
    <3>1. worker' = [worker EXCEPT ![w] = Idle]
      BY <2>1 DEF FailQc, QcRaise, RecordPass, RecordRetry, RecordConflict, RecordEscalation
    <3>2. QED
      BY <1>1, <3>1
  <2>2. CASE \E i \in ItemIds : StartQc(w, i)
    BY <1>1, <2>2 DEF StartQc
  <2>3. CASE QcRead(w)
    BY <1>1, <2>3 DEF QcRead
  <2>4. QED
    BY <1>4, <2>1, <2>2, <2>3 DEF QcStep
<1>5. ASSUME NEW w \in Workers, Crash(w)
      PROVE  worker'[v] = worker[v] \/ worker'[v] = Idle
  BY <1>1, <1>5 DEF Crash
<1>6. ASSUME NEW c \in Reviewers, ReviewRead(c) \/ ReviewCommit(c) PROVE worker' = worker
  BY <1>6 DEF ReviewRead, ReviewCommit
<1>7. ASSUME NEW i \in ItemIds, BecomeStuck(i) PROVE worker' = worker
  BY <1>7 DEF BecomeStuck
<1>8. CASE Reconcile \/ Reap \/ UNCHANGED vars
  BY <1>8 DEF Reconcile, Reap, vars
<1>9. QED
  BY <1>2, <1>3, <1>4, <1>5, <1>6, <1>7, <1>8 DEF Next

\* What a step makes of a reviewer's transaction.
LEMMA ReviewCases ==
    ASSUME ApprovalInv, [Next]_vars, NEW c \in Reviewers
    PROVE  review'[c] = review[c] \/ review'[c] = NoReview \/ ReviewRead(c)
<1>1. \A d \in Reviewers : ReviewRead(d) \/ ReviewCommit(d) =>
          review'[c] = review[c] \/ review'[c] = NoReview \/ ReviewRead(c)
  <2>1. review = [d \in Reviewers |-> review[d]]
    BY DEF ApprovalInv
  <2>2. QED
    BY <2>1 DEF ReviewRead, ReviewCommit
<1>2. \/ review' = review
      \/ \E d \in Reviewers : ReviewRead(d) \/ ReviewCommit(d)
  BY DEF Next, vars, CreateRequest, FanOut, RenderStep, StartRender, FailRender, CompleteRead,
         CompleteRender, CompleteConflict, QcStep, StartQc, FailQc, QcRead, QcRaise, RecordPass,
         RecordRetry, RecordConflict, RecordEscalation, Crash, BecomeStuck, Reconcile, Reap
<1>3. QED
  BY <1>1, <1>2

\* The state of a worker that starts, and of one that reads.
LEMMA StartFacts ==
    ASSUME RenderInv, NEW v \in Workers, NEW i \in ItemIds
    PROVE  /\ StartRender(v, i) => worker'[v] = [Idle EXCEPT !.pc = "rendering", !.item = i]
           /\ StartQc(v, i) => worker'[v] = [Idle EXCEPT !.pc = "judging", !.item = i]
<1>1. worker \in [Workers -> WorkerStates]
  BY DEF RenderInv, RowsOK
<1>2. QED
  BY <1>1 DEF StartRender, StartQc

\* Completing keeps the item and reads a live image of its slot.
LEMMA CompleteReadFacts ==
    ASSUME RenderInv, NEW v \in Workers, CompleteRead(v)
    PROVE  /\ worker'[v].item = worker[v].item /\ worker'[v].pc = "completing"
           /\ worker'[v].live # NoItem => worker'[v].live \in LiveIn(worker[v].item[2])
<1> DEFINE live == LiveIn(worker[v].item[2])
<1> DEFINE seen == IF live = {} THEN NoItem ELSE CHOOSE k \in live : TRUE
<1>1. worker' = [worker EXCEPT ![v].pc = "completing", ![v].live = seen]
  BY DEF CompleteRead
<1>2. seen # NoItem => seen \in live
  OBVIOUS
<1> HIDE DEF seen, live
<1>3. /\ worker'[v].item = worker[v].item /\ worker'[v].pc = "completing"
      /\ worker'[v].live = seen
  BY <1>1 DEF RenderInv, RowsOK, WorkerStates
<1>4. QED
  BY <1>2, <1>3 DEF live

\* QC reads an image that waits for its verdict, and for a failure the ladder.
LEMMA QcReadFacts ==
    ASSUME RenderInv, NEW v \in Workers, QcRead(v)
    PROVE  /\ worker[v].pc = "judging" /\ images[worker[v].item].status = "pending_qc"
           /\ worker'[v].item = worker[v].item /\ worker'[v].live = worker[v].live
           /\ worker'[v].pc = "recording"
           /\ \/ worker'[v].verdict = "pass"
              \/ \E alternate \in Alternates :
                    worker'[v].rung = NextRung(worker[v].item, alternate)
<1>1. worker \in [Workers -> WorkerStates] /\ worker[v] \in WorkerStates
  BY DEF RenderInv, RowsOK
<1>2. worker[v].pc = "judging" /\ images[worker[v].item].status = "pending_qc"
  BY DEF QcRead
<1>3. CASE worker' = [worker EXCEPT ![v].pc = "recording", ![v].verdict = "pass"]
  BY <1>1, <1>2, <1>3 DEF WorkerStates
<1>4. ASSUME NEW alternate \in Alternates,
             worker' = [worker EXCEPT ![v].pc = "recording", ![v].verdict = "fail",
                                      ![v].rung = NextRung(worker[v].item, alternate)]
      PROVE  /\ worker'[v].item = worker[v].item /\ worker'[v].live = worker[v].live
             /\ worker'[v].pc = "recording"
             /\ worker'[v].rung = NextRung(worker[v].item, alternate)
  BY <1>1, <1>4 DEF WorkerStates
<1>5. QED
  BY <1>2, <1>3, <1>4 DEF QcRead

------------------------------------------------------------------------------
(* One live image *)

\* In a slot at most one image is live, and one is once the slot has an image;
\* a completion that is open retires an image of its own slot; verdicts and
\* decisions are on their way to images that exist.
LiveInv ==
    /\ \A j, k \in ItemIds : j[2] = k[2] /\ images[j].live /\ images[k].live => j = k
    /\ \A i \in ItemIds : images[i].status # None => LiveIn(i[2]) # {}
    /\ \A w \in Workers : worker[w].live # NoItem => worker[w].live[2] = worker[w].item[2]
    /\ \A w \in Workers : worker[w].pc = "recording" => images[worker[w].item].status # None
    /\ \A c \in Reviewers : \A i \in review[c].images : images[i].status # None

\* Every step preserves it.
LEMMA LiveStep ==
    ASSUME RenderInv, ApprovalInv, LiveInv, [Next]_vars
    PROVE  LiveInv'
<1>1. images \in [ItemIds -> ImageRows] /\ review \in [Reviewers -> [images: SUBSET ItemIds,
                                 decision: {"none", "approved", "rejected"}]]
  BY DEF ApprovalInv
<1>2. \A k \in ItemIds : images[k].status # None => images'[k].status # None
  <2>1. ASSUME NEW w \in Workers, CompleteRender(w)
        PROVE  \A k \in ItemIds : images[k].status # None => images'[k].status # None
    BY <1>1, <2>1, CompleteImages DEF None
  <2>2. ASSUME NEW w \in Workers, RecordPass(w) \/ RecordRetry(w) \/ RecordEscalation(w)
        PROVE  \A k \in ItemIds : images[k].status # None => images'[k].status # None
    BY <1>1, <2>2, RecordImages DEF None
  <2>3. ASSUME NEW c \in Reviewers, ReviewCommit(c)
        PROVE  \A k \in ItemIds : images[k].status # None => images'[k].status # None
    BY <2>3, ReviewImages DEF None
  <2>4. QED
    BY <2>1, <2>2, <2>3, ImageCases
<1>3. ASSUME \A k \in ItemIds : /\ images'[k].live = images[k].live
                                /\ images'[k].status # None => images[k].status # None
      PROVE  /\ \A j, k \in ItemIds : j[2] = k[2] /\ images'[j].live /\ images'[k].live => j = k
             /\ \A i \in ItemIds : images'[i].status # None => LiveIn(i[2])' # {}
  BY <1>3 DEF LiveInv, LiveIn
<1>4. /\ \A j, k \in ItemIds : j[2] = k[2] /\ images'[j].live /\ images'[k].live => j = k
      /\ \A i \in ItemIds : images'[i].status # None => LiveIn(i[2])' # {}
  <2>1. CASE images' = images
    BY <1>3, <2>1
  <2>2. ASSUME NEW w \in Workers, CompleteRender(w)
        PROVE  /\ \A j, k \in ItemIds : j[2] = k[2] /\ images'[j].live /\ images'[k].live => j = k
               /\ \A i \in ItemIds : images'[i].status # None => LiveIn(i[2])' # {}
    <3>1. PICK new, old : new = worker[w].item /\ old = worker[w].live
      OBVIOUS
    <3>2. new \in ItemIds /\ (old # NoItem => old[2] = new[2])
      BY <2>2, <3>1, BusyItem DEF CompleteRender, LiveInv
    <3>3. \A k \in ItemIds :
             /\ k = new => images'[k].status = "pending_qc" /\ images'[k].live
             /\ k # new => /\ images'[k].status = images[k].status
                           /\ images'[k].live = (k # old /\ images[k].live)
      BY <1>1, <2>2, <3>1, CompleteImages
    <3>4. \A k \in ItemIds : k[2] = new[2] /\ images[k].live => k = old
      BY <2>2, <3>1 DEF CompleteRender, IndexAdmits, LiveIn
    <3>5. \A k \in ItemIds : k[2] = new[2] => (images'[k].live <=> k = new)
      BY <3>3, <3>4
    <3>6. \A k \in ItemIds : k[2] # new[2] => images'[k].status = images[k].status /\
                                              (images'[k].live <=> images[k].live)
      <4>1. \A k \in ItemIds : k[2] # new[2] => k # new /\ k # old
        BY <3>2, ItemFacts
      <4>2. QED
        BY <3>3, <4>1
    <3>7. \A j, k \in ItemIds : j[2] = k[2] /\ images'[j].live /\ images'[k].live => j = k
      BY <3>5, <3>6 DEF LiveInv
    <3>8. ASSUME NEW i \in ItemIds, images'[i].status # None
          PROVE  LiveIn(i[2])' # {}
      <4>1. CASE i[2] = new[2]
        BY <3>2, <3>5, <4>1 DEF LiveIn
      <4>2. CASE i[2] # new[2]
        <5>1. PICK k \in ItemIds : k[2] = i[2] /\ images[k].live
          BY <3>6, <3>8, <4>2 DEF LiveInv, LiveIn
        <5>2. QED
          BY <3>6, <4>2, <5>1 DEF LiveIn
      <4>3. QED
        BY <4>1, <4>2
    <3>9. QED
      BY <3>7, <3>8
  <2>3. ASSUME NEW w \in Workers, RecordPass(w) \/ RecordRetry(w) \/ RecordEscalation(w)
        PROVE  \A k \in ItemIds : /\ images'[k].live = images[k].live
                                  /\ images'[k].status # None => images[k].status # None
    <3>1. images[worker[w].item].status # None
      BY <2>3 DEF LiveInv, RecordPass, RecordRetry, RecordEscalation
    <3>2. QED
      BY <1>1, <2>3, <3>1, RecordImages
  <2>4. ASSUME NEW c \in Reviewers, ReviewCommit(c)
        PROVE  \A k \in ItemIds : /\ images'[k].live = images[k].live
                                  /\ images'[k].status # None => images[k].status # None
    BY <2>4, ReviewImages DEF LiveInv
  <2>5. QED
    BY <1>3, <2>1, <2>2, <2>3, <2>4, ImageCases
<1>5. ASSUME NEW v \in Workers
      PROVE  /\ worker'[v].live # NoItem => worker'[v].live[2] = worker'[v].item[2]
             /\ worker'[v].pc = "recording" => images'[worker'[v].item].status # None
  <2>1. CASE worker'[v] = worker[v]
    BY <1>2, <2>1, BusyItem DEF LiveInv
  <2>2. CASE worker'[v] = Idle
    BY <2>2 DEF Idle
  <2>3. ASSUME NEW i \in ItemIds, StartRender(v, i) \/ StartQc(v, i)
        PROVE  worker'[v].live = NoItem /\ worker'[v].pc # "recording"
    BY <2>3, StartFacts DEF Idle
  <2>4. CASE CompleteRead(v)
    BY <2>4, CompleteReadFacts DEF LiveIn
  <2>5. CASE QcRead(v)
    <3>1. /\ worker[v].pc = "judging" /\ images[worker[v].item].status = "pending_qc"
          /\ worker'[v].item = worker[v].item /\ worker'[v].live = worker[v].live
      BY <2>5, QcReadFacts
    <3>2. worker[v].item \in ItemIds
      BY <3>1, BusyItem
    <3>3. QED
      BY <1>2, <3>1, <3>2 DEF LiveInv, None
  <2>6. QED
    BY <2>1, <2>2, <2>3, <2>4, <2>5, WorkerCases
<1>6. ASSUME NEW c \in Reviewers, NEW i \in review'[c].images
      PROVE  images'[i].status # None
  <2>1. CASE review'[c] = review[c]
    BY <1>1, <1>2, <1>6, <2>1 DEF LiveInv
  <2>2. CASE review'[c] = NoReview
    BY <1>6, <2>2 DEF NoReview
  <2>3. CASE ReviewRead(c)
    <3>1. PICK batch \in SUBSET Reviewable, decision \in {"approved", "rejected"} :
             review' = [review EXCEPT ![c] = [images |-> batch, decision |-> decision]]
      BY <2>3 DEF ReviewRead
    <3>2. i \in Reviewable
      BY <1>1, <1>6, <3>1
    <3>3. i \in ItemIds /\ images[i].status # None
      BY <3>2 DEF Reviewable, None
    <3>4. QED
      BY <1>2, <3>3
  <2>4. review'[c] = review[c] \/ review'[c] = NoReview \/ ReviewRead(c)
    BY ReviewCases
  <2>5. QED
    BY <2>1, <2>2, <2>3, <2>4
<1>7. QED
  BY <1>4, <1>5, <1>6 DEF LiveInv

\* It holds in every behaviour.
LEMMA LiveInvariant == Spec => []LiveInv
<1>1. Init => LiveInv
  <2> SUFFICES ASSUME Init PROVE LiveInv
    OBVIOUS
  <2>1. \A i \in ItemIds : images[i].status = None /\ ~images[i].live
    BY DEF Init
  <2>2. \A w \in Workers : worker[w].live = NoItem /\ worker[w].pc = "idle"
    BY DEF Init, Idle
  <2>3. \A c \in Reviewers : review[c].images = {}
    BY DEF Init, NoReview
  <2>4. QED
    BY <2>1, <2>2, <2>3 DEF LiveInv
<1>2. RenderInv /\ ApprovalInv /\ LiveInv /\ [Next]_vars => LiveInv'
  BY LiveStep
<1>3. QED
  BY <1>1, <1>2, RenderInvariant, ApprovalInvariant, PTL DEF Spec

\* A slot that has an image has exactly one live image: racing completions
\* neither leave two nor retire the last one, with slow and crashing workers.
THEOREM OneLive == Spec => []OneLiveImage
<1>1. LiveInv => OneLiveImage
  <2> SUFFICES ASSUME LiveInv, NEW s \in Slots, NEW i \in ItemIds, i[2] = s,
                      images[i].status # None
               PROVE  Cardinality(LiveIn(s)) = 1
    BY DEF OneLiveImage
  <2>1. PICK k : k \in LiveIn(s)
    BY DEF LiveInv
  <2>2. LiveIn(s) = {k}
    BY <2>1 DEF LiveInv, LiveIn
  <2>3. QED
    BY <2>2, FS_Singleton
<1>2. QED
  BY <1>1, LiveInvariant, PTL

------------------------------------------------------------------------------
(* The quota balance *)

\* Everything the quota counts is finite.
LEMMA Finite ==
    /\ IsFiniteSet(Requests) /\ IsFiniteSet(Slots) /\ Cardinality(Slots) \in Nat
    /\ \A R \in SUBSET Requests : IsFiniteSet(R)
    /\ \A P \in SUBSET (Requests \X Slots) : IsFiniteSet(P) /\ Cardinality(P) \in Nat
<1>1. IsFiniteSet(Requests)
  BY GenerationAssumptions, FS_Interval DEF Requests
<1>2. IsFiniteSet(Slots)
  BY GenerationAssumptions
<1>3. IsFiniteSet(Requests \X Slots)
  BY <1>1, <1>2, FS_Product
<1>4. \A R \in SUBSET Requests : IsFiniteSet(R)
  BY <1>1, FS_Subset
<1>5. \A P \in SUBSET (Requests \X Slots) : IsFiniteSet(P)
  BY <1>3, FS_Subset
<1>6. QED
  BY <1>1, <1>2, <1>4, <1>5, FS_CardinalityType

\* The cardinality of two disjoint sets of slots of requests.
LEMMA DisjointSum ==
    ASSUME NEW A \in SUBSET (Requests \X Slots), NEW B \in SUBSET (Requests \X Slots),
           A \cap B = {}
    PROVE  Cardinality(A \cup B) = Cardinality(A) + Cardinality(B)
<1>1. Cardinality(A \cup B) = Cardinality(A) + Cardinality(B) - Cardinality(A \cap B)
  BY Finite, FS_Union
<1>2. Cardinality(A \cap B) = 0
  BY FS_EmptySet
<1>3. QED
  BY <1>1, <1>2, Finite

\* A rollup is known when every slot has succeeded or failed, and settles the
\* request.
LEMMA RollupFacts ==
    ASSUME NEW r \in Requests, Rollup(r) # None
    PROVE  /\ \A s \in Slots : SlotSucceeded(r, s) \/ SlotFailed(r, s)
           /\ Rollup(r) \in Settled
  BY DEF Rollup, Settled

\* The sweep settles running requests, and what it commits and releases is what
\* they hold.
LEMMA ReconcileFacts ==
    ASSUME Reconcile
    PROVE  \E ready \in SUBSET Requests, delivered, lost \in SUBSET (Requests \X Slots) :
              /\ \A r \in ready : requests[r] = "running" /\ requests'[r] \in Settled
              /\ \A r \in Requests \ ready : requests'[r] = requests[r]
              /\ \A r \in ready, s \in Slots : SlotSucceeded(r, s) \/ SlotFailed(r, s)
              /\ delivered = {p \in ready \X Slots : SlotSucceeded(p[1], p[2])}
              /\ delivered \cup lost = ready \X Slots /\ delivered \cap lost = {}
              /\ quota' = [reserved |-> quota.reserved - Cardinality(lost),
                           committed |-> quota.committed + Cardinality(delivered)]
              /\ items' = items
<1> DEFINE ready == {r \in Swept : Rollup(r) # None}
           delivered == {p \in ready \X Slots : SlotSucceeded(p[1], p[2])}
           lost == {p \in ready \X Slots : SlotFailed(p[1], p[2])}
<1>1. /\ requests' = [r \in Requests |-> IF r \in ready THEN Rollup(r) ELSE requests[r]]
      /\ quota' = [reserved |-> quota.reserved - Cardinality(lost),
                   committed |-> quota.committed + Cardinality(delivered)]
      /\ items' = items
  BY DEF Reconcile
<1>2. ready \in SUBSET Requests /\ \A r \in ready : requests[r] = "running"
  BY DEF Swept
<1>3. \A r \in ready : /\ Rollup(r) \in Settled
                       /\ \A s \in Slots : SlotSucceeded(r, s) \/ SlotFailed(r, s)
  BY <1>2, RollupFacts
<1>4. \A r \in ready, s \in Slots : ~(SlotSucceeded(r, s) /\ SlotFailed(r, s))
  BY DEF SlotFailed
<1> HIDE DEF ready
<1>5. delivered \cup lost = ready \X Slots
  BY <1>3
<1>6. delivered \cap lost = {}
  BY <1>4
<1>7. delivered \in SUBSET (Requests \X Slots) /\ lost \in SUBSET (Requests \X Slots)
  BY <1>2
<1>8. delivered = {p \in ready \X Slots : SlotSucceeded(p[1], p[2])}
  OBVIOUS
<1> HIDE DEF delivered, lost
<1>9. /\ \A r \in ready : requests'[r] \in Settled
      /\ \A r \in Requests \ ready : requests'[r] = requests[r]
  BY <1>1, <1>2, <1>3
<1>10. QED
  BY <1>1, <1>2, <1>3, <1>5, <1>6, <1>7, <1>8, <1>9

\* The type of the quota row and its balance.
QuotaInv ==
    /\ quota \in [reserved: Nat, committed: Nat]
    /\ QuotaBalanced

\* Only three steps touch a request, and only two of them the quota.
LEMMA RequestCases ==
    ASSUME [Next]_vars
    PROVE  \/ UNCHANGED <<requests, quota>>
           \/ \E r \in Requests : CreateRequest(r) \/ FanOut(r)
           \/ Reconcile
<1>1. ASSUME NEW w \in RenderWorkers, RenderStep(w) PROVE UNCHANGED <<requests, quota>>
  BY <1>1 DEF RenderStep, StartRender, FailRender, CompleteRead, CompleteRender, CompleteConflict
<1>2. ASSUME NEW w \in QcWorkers, QcStep(w) PROVE UNCHANGED <<requests, quota>>
  BY <1>2 DEF QcStep, StartQc, FailQc, QcRead, QcRaise, RecordPass, RecordRetry,
              RecordConflict, RecordEscalation
<1>3. ASSUME NEW w \in Workers, Crash(w) PROVE UNCHANGED <<requests, quota>>
  BY <1>3 DEF Crash
<1>4. ASSUME NEW c \in Reviewers, ReviewRead(c) \/ ReviewCommit(c)
      PROVE  UNCHANGED <<requests, quota>>
  BY <1>4 DEF ReviewRead, ReviewCommit
<1>5. ASSUME NEW i \in ItemIds, BecomeStuck(i) PROVE UNCHANGED <<requests, quota>>
  BY <1>5 DEF BecomeStuck
<1>6. CASE Reap \/ UNCHANGED vars
  BY <1>6 DEF Reap, vars
<1>7. QED
  BY <1>1, <1>2, <1>3, <1>4, <1>5, <1>6 DEF Next

\* Every step preserves the balance.
LEMMA QuotaStep ==
    ASSUME RenderInv, QuotaInv, [Next]_vars
    PROVE  QuotaInv'
<1> DEFINE open == {r \in Requests : Open(r)}
           open1 == {r \in Requests : Open(r)'}
<1>1. /\ quota.reserved \in Nat /\ quota.committed \in Nat
      /\ quota.reserved = quota.committed + Cardinality(open \X Slots)
      /\ quota.reserved <= QuotaLimit
      /\ requests \in [Requests -> RequestStatuses \cup {None}]
  BY DEF QuotaInv, QuotaBalanced, RenderInv, RowsOK
<1>2. SUFFICES /\ quota' \in [reserved: Nat, committed: Nat]
               /\ quota'.reserved = quota'.committed + Cardinality(open1 \X Slots)
               /\ quota'.reserved <= QuotaLimit
  BY DEF QuotaInv, QuotaBalanced
<1>3. /\ open \X Slots \in SUBSET (Requests \X Slots)
      /\ open1 \X Slots \in SUBSET (Requests \X Slots)
      /\ IsFiniteSet(open) /\ Cardinality(open) \in Nat
  BY Finite, FS_CardinalityType
<1>4. Cardinality(open \X Slots) \in Nat /\ Cardinality(open1 \X Slots) \in Nat
  BY <1>3, Finite
<1>5. CASE UNCHANGED <<requests, quota>>
  <2>1. open1 = open
    BY <1>5 DEF Open
  <2>2. QED
    BY <1>1, <1>5, <2>1 DEF QuotaInv
<1>6. ASSUME NEW r \in Requests, CreateRequest(r)
      PROVE  /\ quota' \in [reserved: Nat, committed: Nat]
             /\ quota'.reserved = quota'.committed + Cardinality(open1 \X Slots)
             /\ quota'.reserved <= QuotaLimit
  <2>1. /\ requests[r] = None /\ requests' = [requests EXCEPT ![r] = "queued"]
        /\ QuotaLimit - quota.reserved >= Cardinality(Slots)
        /\ quota' = [quota EXCEPT !.reserved = @ + Cardinality(Slots)]
    BY <1>6 DEF CreateRequest, CanReserve
  <2>2. open1 = open \cup {r} /\ r \notin open
    BY <1>1, <2>1 DEF Open, None
  <2>3. open1 \X Slots = (open \X Slots) \cup ({r} \X Slots)
    BY <2>2
  <2>4. (open \X Slots) \cap ({r} \X Slots) = {}
    BY <2>2
  <2>5. {r} \X Slots \in SUBSET (Requests \X Slots)
    OBVIOUS
  <2>6. Cardinality({r} \X Slots) = Cardinality(Slots)
    <3>1. Cardinality({r} \X Slots) = Cardinality({r}) * Cardinality(Slots)
      BY Finite, FS_Singleton, FS_Product
    <3>2. QED
      BY <3>1, Finite, FS_Singleton
  <2> HIDE DEF open, open1
  <2>7. Cardinality(open1 \X Slots) = Cardinality(open \X Slots) + Cardinality(Slots)
    BY <1>3, <2>3, <2>4, <2>5, <2>6, DisjointSum
  <2>8. /\ quota' \in [reserved: Nat, committed: Nat]
        /\ quota'.reserved = quota.reserved + Cardinality(Slots)
        /\ quota'.committed = quota.committed
    BY <2>1, Finite DEF QuotaInv
  <2>9. QED
    BY <1>1, <1>4, <2>1, <2>7, <2>8, Finite, GenerationAssumptions
<1>7. ASSUME NEW r \in Requests, FanOut(r)
      PROVE  quota' = quota /\ open1 = open
  BY <1>1, <1>7 DEF FanOut, Open
<1>8. CASE Reconcile
  <2>1. PICK ready \in SUBSET Requests, delivered, lost \in SUBSET (Requests \X Slots) :
              /\ \A r \in ready : requests[r] = "running" /\ requests'[r] \in Settled
              /\ \A r \in Requests \ ready : requests'[r] = requests[r]
              /\ delivered \cup lost = ready \X Slots /\ delivered \cap lost = {}
              /\ quota' = [reserved |-> quota.reserved - Cardinality(lost),
                           committed |-> quota.committed + Cardinality(delivered)]
    BY <1>8, ReconcileFacts
  <2>2. open = open1 \cup ready /\ open1 \cap ready = {}
    BY <2>1 DEF Open, Settled
  <2>3. /\ open \X Slots = (open1 \X Slots) \cup (ready \X Slots)
        /\ (open1 \X Slots) \cap (ready \X Slots) = {}
        /\ ready \X Slots \in SUBSET (Requests \X Slots)
    BY <2>2
  <2> HIDE DEF open, open1
  <2>4. Cardinality(open \X Slots) = Cardinality(open1 \X Slots) + Cardinality(ready \X Slots)
    BY <1>3, <2>3, DisjointSum
  <2>5. Cardinality(ready \X Slots) = Cardinality(delivered) + Cardinality(lost)
    BY <2>1, DisjointSum
  <2>6. Cardinality(delivered) \in Nat /\ Cardinality(lost) \in Nat
    BY Finite
  <2>7. /\ quota'.reserved = quota.reserved - Cardinality(lost)
        /\ quota'.committed = quota.committed + Cardinality(delivered)
    BY <2>1
  <2>8. quota'.reserved \in Nat /\ quota'.committed \in Nat
    BY <1>1, <1>4, <2>4, <2>5, <2>6, <2>7
  <2>9. quota' \in [reserved: Nat, committed: Nat]
    BY <2>1, <2>7, <2>8
  <2>10. QED
    BY <1>1, <1>4, <2>4, <2>5, <2>6, <2>7, <2>9, GenerationAssumptions
<1>9. QED
  BY <1>1, <1>5, <1>6, <1>7, <1>8, RequestCases DEF QuotaInv

\* The quota invariant holds in every reachable state.
LEMMA QuotaInvariant == Spec => []QuotaInv
<1>1. Init => QuotaInv
  <2> SUFFICES ASSUME Init PROVE QuotaInv
    OBVIOUS
  <2>1. {r \in Requests : Open(r)} \X Slots = {}
    BY DEF Init, Open, None
  <2>2. Cardinality({r \in Requests : Open(r)} \X Slots) = 0
    BY <2>1, FS_EmptySet
  <2>3. quota = [reserved |-> 0, committed |-> 0]
    BY DEF Init
  <2>4. QuotaBalanced
    BY <2>2, <2>3, GenerationAssumptions DEF QuotaBalanced
  <2>5. QED
    BY <2>3, <2>4 DEF QuotaInv
<1>2. RenderInv /\ QuotaInv /\ [Next]_vars => QuotaInv'
  BY QuotaStep
<1>3. QED
  BY <1>1, <1>2, RenderInvariant, PTL DEF Spec

\* The reserved quota is what open requests may still use plus what settled
\* ones delivered, and stays within the limit, for any number of slots and
\* requests (CreateGenerationRequest, ReconcileGenerationRequestsForTenant).
THEOREM Balanced == Spec => []QuotaBalanced
<1>1. QuotaInv => QuotaBalanced
  BY DEF QuotaInv
<1>2. QED
  BY <1>1, QuotaInvariant, PTL

------------------------------------------------------------------------------
(* What is paid for *)

\* What a step may make of an item.  An item that succeeded or is dead stays so.
LEMMA ItemCases ==
    ASSUME RenderInv, [Next]_vars, NEW k \in ItemIds
    PROVE  \/ items'[k] = items[k]
           \/ /\ items[k] = None /\ items'[k] = "pending" /\ requests[k[1]] = "queued"
              /\ k[3] = 1 /\ FanOut(k[1])
           \/ items[k] \in {"pending", "failed"} /\ items'[k] = "running"
           \/ items[k] = "running" /\ items'[k] \in {"failed", "dead", "succeeded"}
           \/ \E w \in Workers : /\ RecordRetry(w) /\ items[k] = None /\ items'[k] = "pending"
                                 /\ k = <<worker[w].item[1], worker[w].item[2], worker[w].rung>>
<1>1. items \in [ItemIds -> ItemStatuses \cup {None}]
  BY DEF RenderInv, RowsOK
<1>2. RenderWorkers \subseteq Workers /\ QcWorkers \subseteq Workers
  BY DEF Workers
<1>3. ASSUME NEW r \in Requests, FanOut(r)
      PROVE  \/ items'[k] = items[k]
             \/ /\ items[k] = None /\ items'[k] = "pending" /\ requests[k[1]] = "queued"
                /\ k[3] = 1 /\ FanOut(k[1])
  <2>1. /\ requests[r] = "queued"
        /\ items' = [i \in ItemIds |-> IF i \in FirstItems(r) THEN "pending" ELSE items[i]]
    BY <1>3 DEF FanOut
  <2>2. k \in FirstItems(r) => k[1] = r /\ k[3] = 1
    BY DEF FirstItems
  <2>3. k \in FirstItems(r) => items[k] = None
    BY <2>1, <2>2 DEF RenderInv, Provenance
  <2>4. QED
    BY <1>3, <2>1, <2>2, <2>3
<1>4. ASSUME NEW w \in RenderWorkers, RenderStep(w)
      PROVE  \/ items'[k] = items[k]
             \/ items[k] \in {"pending", "failed"} /\ items'[k] = "running"
             \/ items[k] = "running" /\ items'[k] \in {"failed", "dead", "succeeded"}
  <2>1. ASSUME NEW i \in ItemIds, StartRender(w, i)
        PROVE  \/ items'[k] = items[k]
               \/ items[k] \in {"pending", "failed"} /\ items'[k] = "running"
    BY <1>1, <2>1 DEF StartRender, MayRun
  <2>2. CASE FailRender(w)
    BY <1>1, <2>2 DEF FailRender
  <2>3. CASE CompleteRender(w)
    <3>1. items[worker[w].item] = "running"
      BY <1>2, <2>3, BusyItem DEF CompleteRender
    <3>2. QED
      BY <1>1, <2>3, <3>1 DEF CompleteRender
  <2>4. CASE CompleteRead(w) \/ CompleteConflict(w)
    BY <2>4 DEF CompleteRead, CompleteConflict
  <2>5. QED
    BY <1>4, <2>1, <2>2, <2>3, <2>4 DEF RenderStep
<1>5. ASSUME NEW w \in QcWorkers, QcStep(w)
      PROVE  items'[k] = items[k] \/
             /\ RecordRetry(w) /\ items[k] = None /\ items'[k] = "pending"
             /\ k = <<worker[w].item[1], worker[w].item[2], worker[w].rung>>
  <2>1. CASE RecordRetry(w)
    BY <1>1, <2>1 DEF RecordRetry
  <2>2. CASE ~RecordRetry(w)
    BY <1>5, <2>2 DEF QcStep, StartQc, FailQc, QcRead, QcRaise, RecordPass, RecordConflict,
                      RecordEscalation
  <2>3. QED
    BY <2>1, <2>2
<1>6. \/ items' = items
      \/ \E r \in Requests : FanOut(r)
      \/ \E w \in RenderWorkers : RenderStep(w)
      \/ \E w \in QcWorkers : QcStep(w)
  BY DEF Next, vars, CreateRequest, Crash, ReviewRead, ReviewCommit, BecomeStuck, Reconcile, Reap
<1>7. QED
  BY <1>2, <1>3, <1>4, <1>5, <1>6

\* QC is for rendered items, a later attempt is for a slot that has a rendered
\* one, and a slot of a settled request either delivered or will never deliver.
SlotInv ==
    /\ \A i \in ItemIds : checks[i].status # "absent" => items[i] = "succeeded"
    /\ \A w \in Workers : worker[w].pc \in {"judging", "recording"} =>
          items[worker[w].item] = "succeeded"
    /\ \A i \in ItemIds : items[i] # None /\ i[3] > 1 => SlotSucceeded(i[1], i[2])
    /\ \A r \in Requests, s \in Slots : requests[r] \in Settled =>
          SlotSucceeded(r, s) \/ \A a \in Attempts : items[<<r, s, a>>] \in {"dead", None}

\* A check job appears when its render completes.
LEMMA CheckCases ==
    ASSUME RenderInv, SlotInv, [Next]_vars, NEW k \in ItemIds, checks'[k].status # "absent"
    PROVE  items'[k] = "succeeded"
<1>1. /\ items \in [ItemIds -> ItemStatuses \cup {None}] /\ checks \in [ItemIds -> JobRows]
  BY DEF RenderInv, RowsOK
<1>2. items[k] = "succeeded" => items'[k] = "succeeded"
  BY ItemCases DEF None
<1>3. CASE checks'[k] = checks[k]
  BY <1>2, <1>3 DEF SlotInv
<1>4. ASSUME NEW w \in Workers, CompleteRender(w), k = worker[w].item
      PROVE  items'[k] = "succeeded"
  BY <1>1, <1>4 DEF CompleteRender
<1>5. \/ checks'[k] = checks[k]
      \/ checks[k].status # "absent"
      \/ \E w \in Workers : CompleteRender(w) /\ k = worker[w].item
      \/ \E w \in Workers : worker[w].pc \in {"judging", "recording"} /\ k = worker[w].item
  <2>1. ASSUME NEW w \in RenderWorkers, RenderStep(w)
        PROVE  checks'[k] = checks[k] \/ (CompleteRender(w) /\ k = worker[w].item)
    BY <1>1, <2>1 DEF RenderStep, StartRender, FailRender, CompleteRead, CompleteRender,
                      CompleteConflict
  <2>2. ASSUME NEW w \in QcWorkers, QcStep(w)
        PROVE  \/ checks'[k] = checks[k]
               \/ checks[k].status # "absent"
               \/ worker[w].pc \in {"judging", "recording"} /\ k = worker[w].item
    <3>1. CASE worker[w].pc \in {"judging", "recording"} /\ k # worker[w].item
      BY <1>1, <2>2, <3>1 DEF QcStep, StartQc, FailQc, QcRead, QcRaise, RecordPass, RecordRetry,
                              RecordConflict, RecordEscalation
    <3>2. CASE \E i \in ItemIds : StartQc(w, i)
      BY <1>1, <3>2 DEF StartQc
    <3>3. QED
      BY <2>2, <3>1, <3>2 DEF QcStep, FailQc, QcRead, QcRaise, RecordPass, RecordRetry,
                              RecordConflict, RecordEscalation
  <2>3. ASSUME NEW i \in ItemIds, BecomeStuck(i)
        PROVE  checks'[k] = checks[k] \/ checks[k].status # "absent"
    BY <1>1, <2>3 DEF BecomeStuck
  <2>4. CASE Reap
    BY <1>1, <2>4 DEF Reap, Reaped, Reapable
  <2>5. ASSUME NEW r \in Requests, CreateRequest(r) \/ FanOut(r) PROVE checks' = checks
    BY <2>5 DEF CreateRequest, FanOut
  <2>6. ASSUME NEW c \in Reviewers, ReviewRead(c) \/ ReviewCommit(c) PROVE checks' = checks
    BY <2>6 DEF ReviewRead, ReviewCommit
  <2>7. ASSUME NEW w \in Workers, Crash(w) PROVE checks' = checks
    BY <2>7 DEF Crash
  <2>8. CASE Reconcile \/ UNCHANGED vars
    BY <2>8 DEF Reconcile, vars
  <2>9. RenderWorkers \subseteq Workers /\ QcWorkers \subseteq Workers
    BY DEF Workers
  <2>10. QED
    BY <2>1, <2>2, <2>3, <2>4, <2>5, <2>6, <2>7, <2>8, <2>9 DEF Next
<1>6. QED
  BY <1>2, <1>3, <1>4, <1>5 DEF SlotInv

\* Every step preserves it, and a slot of a settled request keeps its outcome.
LEMMA SlotStep ==
    ASSUME RenderInv, SlotInv, [Next]_vars
    PROVE  /\ SlotInv'
           /\ \A r \in Requests, s \in Slots : requests[r] \in Settled =>
                 /\ requests'[r] = requests[r]
                 /\ SlotSucceeded(r, s)' <=> SlotSucceeded(r, s)
<1>1. \A k \in ItemIds : items[k] = "succeeded" => items'[k] = "succeeded"
  BY ItemCases DEF None
<1>2. \A r \in Requests, s \in Slots : SlotSucceeded(r, s) => SlotSucceeded(r, s)'
  BY <1>1, ItemFacts DEF SlotSucceeded
<1>3. ASSUME NEW w \in Workers, RecordRetry(w)
      PROVE  /\ worker[w].item \in ItemIds
             /\ SlotSucceeded(worker[w].item[1], worker[w].item[2])
  <2>1. worker[w].pc = "recording"
    BY <1>3 DEF RecordRetry
  <2>2. worker[w].item \in ItemIds /\ items[worker[w].item] = "succeeded"
    BY <2>1, BusyItem DEF SlotInv
  <2>3. QED
    BY <2>2, ItemFacts DEF SlotSucceeded
<1>4. ASSUME NEW i \in ItemIds, checks'[i].status # "absent"
      PROVE  items'[i] = "succeeded"
  BY <1>4, CheckCases
<1>5. ASSUME NEW v \in Workers, worker'[v].pc \in {"judging", "recording"}
      PROVE  items'[worker'[v].item] = "succeeded"
  <2>1. CASE worker'[v] = worker[v]
    BY <1>1, <1>5, <2>1, BusyItem DEF SlotInv
  <2>2. ASSUME NEW i \in ItemIds, StartQc(v, i)
        PROVE  items'[worker'[v].item] = "succeeded"
    <3>1. worker'[v].item = i
      BY <2>2, StartFacts DEF Idle
    <3>2. items[i] = "succeeded"
      BY <2>2 DEF StartQc, SlotInv
    <3>3. QED
      BY <1>1, <3>1, <3>2
  <2>3. CASE QcRead(v)
    BY <1>1, <2>3, QcReadFacts, BusyItem DEF SlotInv
  <2>4. worker'[v] # Idle /\ ~CompleteRead(v) /\ \A i \in ItemIds : ~StartRender(v, i)
    <3>1. worker'[v] # Idle
      BY <1>5, IdleFacts
    <3>2. ~CompleteRead(v)
      BY <1>5, CompleteReadFacts
    <3>3. ASSUME NEW i \in ItemIds, StartRender(v, i) PROVE FALSE
      <4>1. worker'[v].pc = "rendering"
        BY <3>3, StartFacts DEF Idle
      <4>2. QED
        BY <1>5, <4>1
    <3>4. QED
      BY <3>1, <3>2, <3>3
  <2>5. QED
    BY <2>1, <2>2, <2>3, <2>4, WorkerCases
<1>6. ASSUME NEW i \in ItemIds, items'[i] # None, i[3] > 1
      PROVE  SlotSucceeded(i[1], i[2])'
  <2>1. i[1] \in Requests /\ i[2] \in Slots
    BY ItemFacts
  <2>2. CASE items[i] # None
    BY <1>2, <1>6, <2>1, <2>2 DEF SlotInv
  <2>3. CASE items[i] = None
    <3>1. PICK w \in Workers :
             /\ RecordRetry(w)
             /\ i = <<worker[w].item[1], worker[w].item[2], worker[w].rung>>
      BY <1>6, <2>3, ItemCases DEF None
    <3>2. i[1] = worker[w].item[1] /\ i[2] = worker[w].item[2]
      BY <3>1
    <3>3. QED
      BY <1>2, <1>3, <2>1, <3>1, <3>2
  <2>4. QED
    BY <2>2, <2>3
<1>7. \A r \in Requests : requests[r] \in Settled => requests'[r] = requests[r]
  <2>1. requests \in [Requests -> RequestStatuses \cup {None}]
    BY DEF RenderInv, RowsOK
  <2>2. ASSUME NEW q \in Requests, CreateRequest(q) \/ FanOut(q)
        PROVE  \A r \in Requests : requests[r] \in Settled => requests'[r] = requests[r]
    BY <2>1, <2>2 DEF CreateRequest, FanOut, Settled, None
  <2>3. CASE Reconcile
    <3>1. PICK ready \in SUBSET Requests :
             /\ \A r \in ready : requests[r] = "running"
             /\ \A r \in Requests \ ready : requests'[r] = requests[r]
      BY <2>3, ReconcileFacts
    <3>2. QED
      BY <3>1 DEF Settled
  <2>4. QED
    BY <2>2, <2>3, RequestCases
<1>8. ASSUME NEW r \in Requests, NEW s \in Slots, requests[r] \in Settled, ~SlotSucceeded(r, s),
             NEW a \in Attempts
      PROVE  items'[<<r, s, a>>] = items[<<r, s, a>>] /\ items[<<r, s, a>>] \in {"dead", None}
  <2>1. <<r, s, a>> \in ItemIds /\ <<r, s, a>>[1] = r /\ <<r, s, a>>[2] = s
    BY ItemFacts
  <2>2. items[<<r, s, a>>] \in {"dead", None} /\ requests[r] # "queued"
    BY <1>8 DEF SlotInv, Settled
  <2>3. ASSUME NEW w \in Workers, RecordRetry(w),
               <<r, s, a>> = <<worker[w].item[1], worker[w].item[2], worker[w].rung>>
        PROVE  FALSE
    BY <1>3, <1>8, <2>3
  <2>4. QED
    BY <2>1, <2>2, <2>3, ItemCases DEF None
<1>9. ASSUME NEW r \in Requests, NEW s \in Slots, requests[r] \in Settled
      PROVE  SlotSucceeded(r, s)' <=> SlotSucceeded(r, s)
  BY <1>2, <1>8, <1>9 DEF SlotSucceeded, None
<1>10. ASSUME NEW r \in Requests, NEW s \in Slots, requests'[r] \in Settled
       PROVE  SlotSucceeded(r, s)' \/ \A a \in Attempts : items'[<<r, s, a>>] \in {"dead", None}
  <2>1. CASE requests[r] \in Settled
    BY <1>2, <1>8, <2>1
  <2>2. CASE requests[r] \notin Settled
    <3>1. Reconcile
      <4>1. ASSUME NEW q \in Requests, CreateRequest(q) \/ FanOut(q)
            PROVE  requests'[r] \notin Settled
        BY <2>2, <4>1 DEF CreateRequest, FanOut, Settled, RenderInv, RowsOK
      <4>2. QED
        BY <1>10, <2>2, <4>1, RequestCases
    <3>2. /\ SlotSucceeded(r, s) \/ SlotFailed(r, s)
          /\ items' = items
      BY <1>10, <2>2, <3>1, ReconcileFacts
    <3>3. CASE ~SlotSucceeded(r, s)
      <4>1. \A b \in Attempts : b > 1 => items[<<r, s, b>>] = None
        BY <3>3, ItemFacts DEF SlotInv
      <4>2. items[<<r, s, 1>>] \in {"dead", None}
        BY <3>2, <3>3, <4>1 DEF SlotFailed, Attempts
      <4>3. QED
        BY <3>2, <4>1, <4>2 DEF Attempts
    <3>4. QED
      BY <1>2, <3>3, <3>2
  <2>3. QED
    BY <2>1, <2>2
<1>11. SlotInv'
  BY <1>4, <1>5, <1>6, <1>10 DEF SlotInv
<1>12. QED
  BY <1>7, <1>9, <1>11

\* The slots that have been paid for.
Paid == {p \in Requests \X Slots : requests[p[1]] \in Settled /\ SlotSucceeded(p[1], p[2])}

\* It holds in every reachable state.
LEMMA SlotInvariant == Spec => []SlotInv
<1>1. Init => SlotInv
  <2> SUFFICES ASSUME Init PROVE SlotInv
    OBVIOUS
  <2>1. /\ \A i \in ItemIds : items[i] = None /\ checks[i].status = "absent"
        /\ \A w \in Workers : worker[w].pc = "idle"
        /\ \A r \in Requests : requests[r] = None
    BY DEF Init, NoJob, Idle
  <2>2. QED
    BY <2>1 DEF SlotInv, Settled, None
<1>2. RenderInv /\ SlotInv /\ [Next]_vars => SlotInv'
  BY SlotStep
<1>3. QED
  BY <1>1, <1>2, RenderInvariant, PTL DEF Spec

\* Quota is committed for exactly the slots of settled requests that have a
\* rendered image, also when workers and QC retries go on after the settlement.
THEOREM PaysForDelivered == Spec => []QuotaPaysForDelivered
<1>1. Init => QuotaPaysForDelivered
  <2> SUFFICES ASSUME Init PROVE quota.committed = Cardinality(Paid)
    BY DEF QuotaPaysForDelivered, Paid
  <2>1. Paid = {}
    BY DEF Init, Paid, Settled, None
  <2>2. QED
    BY <2>1, FS_EmptySet DEF Init
<1>2. RenderInv /\ SlotInv /\ QuotaInv /\ QuotaPaysForDelivered /\ [Next]_vars
        => QuotaPaysForDelivered'
  <2> SUFFICES ASSUME RenderInv, SlotInv, QuotaInv, quota.committed = Cardinality(Paid), [Next]_vars
               PROVE  quota'.committed = Cardinality(Paid')
    BY DEF QuotaPaysForDelivered, Paid
  <2>1. ASSUME \A r \in Requests : requests'[r] \in Settled => requests[r] \in Settled
        PROVE  Paid' = Paid
    <3>1. \A p \in Requests \X Slots : p[1] \in Requests /\ p[2] \in Slots
      OBVIOUS
    <3>2. \A p \in Requests \X Slots : p \in Paid' <=> p \in Paid
      BY <2>1, <3>1, SlotStep DEF Paid
    <3>3. QED
      BY <3>2 DEF Paid
  <2>2. ASSUME NEW r \in Requests, CreateRequest(r) \/ FanOut(r)
        PROVE  quota'.committed = Cardinality(Paid')
    <3>1. \A q \in Requests : requests'[q] \in Settled => requests[q] \in Settled
      BY <2>2 DEF CreateRequest, FanOut, Settled, RenderInv, RowsOK
    <3>2. quota'.committed = quota.committed
      BY <2>2 DEF CreateRequest, FanOut, QuotaInv
    <3>3. QED
      BY <2>1, <3>1, <3>2
  <2>3. CASE UNCHANGED <<requests, quota>>
    BY <2>1, <2>3
  <2>4. CASE Reconcile
    <3>1. PICK ready \in SUBSET Requests, delivered \in SUBSET (Requests \X Slots) :
              /\ \A r \in ready : requests[r] = "running" /\ requests'[r] \in Settled
              /\ \A r \in Requests \ ready : requests'[r] = requests[r]
              /\ delivered = {p \in ready \X Slots : SlotSucceeded(p[1], p[2])}
              /\ quota'.committed = quota.committed + Cardinality(delivered)
              /\ items' = items
      BY <2>4, ReconcileFacts
    <3>2. Paid' = Paid \cup delivered
      <4>1. \A r \in Requests, s \in Slots : SlotSucceeded(r, s)' <=> SlotSucceeded(r, s)
        BY <3>1 DEF SlotSucceeded
      <4>2. \A r \in Requests : requests'[r] \in Settled <=> r \in ready \/ requests[r] \in Settled
        BY <3>1
      <4>3. QED
        BY <3>1, <4>1, <4>2 DEF Paid
    <3>3. Paid \cap delivered = {}
      BY <3>1 DEF Paid, Settled
    <3>4. Paid \in SUBSET (Requests \X Slots)
      BY DEF Paid
    <3>5. QED
      BY <3>1, <3>2, <3>3, <3>4, DisjointSum
  <2>5. QED
    BY <2>2, <2>3, <2>4, RequestCases
<1>3. QED
  BY <1>1, <1>2, RenderInvariant, SlotInvariant, QuotaInvariant, PTL DEF Spec

------------------------------------------------------------------------------
(* The retry ladder *)

\* While no worker outlasts the threshold an image has at most one judge, who
\* holds its job; what is about to be recorded is about an image that still
\* waits, and the rung to be taken is the one above it; reviewers hold only
\* images that passed QC, and images come from items that succeeded.
LadderInv ==
    /\ \A v, w \in Workers : \A i \in ItemIds : Judging(v, i) =>
          /\ checks[i].status = "running" /\ ~checks[i].stuck
          /\ Judging(w, i) => v = w
    /\ \A w \in Workers : worker[w].pc = "recording" =>
          /\ images[worker[w].item].status = "pending_qc"
          /\ worker[w].verdict = "fail" /\ worker[w].rung # 0 =>
                worker[w].rung = worker[w].item[3] + 1
    /\ \A c \in Reviewers : \A i \in review[c].images :
          images[i].status \in {"pending_approval", "approved", "rejected"}
    /\ \A i \in ItemIds : images[i].status # None => items[i] = "succeeded"
    /\ RetryFollowsFailure

\* An image that waits for its verdict belongs to the latest attempt for its
\* slot, so the next rung is one above it.
LEMMA WaitingIsLatest ==
    ASSUME LadderInv, NEW i \in ItemIds, images[i].status = "pending_qc", NEW alternate,
           NextRung(i, alternate) # 0
    PROVE  NextRung(i, alternate) = i[3] + 1
<1> DEFINE tried == {a \in Attempts : items[<<i[1], i[2], a>>] # None}
           latest == CHOOSE a \in tried : \A b \in tried : b <= a
<1>1. /\ i[1] \in Requests /\ i[2] \in Slots /\ i[3] \in Attempts
      /\ i = <<i[1], i[2], i[3]>>
  BY ItemFacts
<1>2. i[3] \in tried
  BY <1>1 DEF LadderInv, None
<1>3. \A a \in tried : a > 1 =>
          images[<<i[1], i[2], a - 1>>].status = "qc_failed" /\ (a = 3 => 2 \in tried)
  <2>1. ASSUME NEW a \in tried, a > 1
        PROVE  images[<<i[1], i[2], a - 1>>].status = "qc_failed"
    <3>1. <<i[1], i[2], a>> \in ItemIds /\ <<i[1], i[2], a>>[1] = i[1]
          /\ <<i[1], i[2], a>>[2] = i[2] /\ <<i[1], i[2], a>>[3] = a
      BY <1>1, ItemFacts
    <3>2. QED
      BY <2>1, <3>1 DEF LadderInv, RetryFollowsFailure
  <2>2. ASSUME 3 \in tried PROVE 2 \in tried
    <3>1. images[<<i[1], i[2], 2>>].status = "qc_failed"
      BY <2>1, <2>2
    <3>2. <<i[1], i[2], 2>> \in ItemIds
      <4>1. 2 \in Attempts
        BY DEF Attempts
      <4>2. QED
        BY <1>1, <4>1, ItemFacts
    <3>3. QED
      BY <3>1, <3>2 DEF LadderInv, None, Attempts
  <2>3. QED
    BY <2>1, <2>2
<1>4. i[3] + 1 \notin tried
  BY <1>1, <1>3 DEF Attempts
<1>5. PICK n \in Nat : n = i[3] /\ n \in {1, 2, 3}
  BY <1>1 DEF Attempts
<1>6. latest = n
  <2>1. /\ tried \subseteq {1, 2, 3} /\ n \in tried /\ n + 1 \notin tried
        /\ 3 \in tried => 2 \in tried
    BY <1>2, <1>3, <1>4, <1>5 DEF Attempts
  <2> HIDE DEF tried
  <2>2. \A b \in tried : b <= n
    BY <1>5, <2>1
  <2>3. latest \in tried /\ \A b \in tried : b <= latest
    BY <2>1, <2>2
  <2> HIDE DEF latest
  <2>4. QED
    BY <1>5, <2>1, <2>2, <2>3
<1>7. NextRung(i, alternate) = IF latest = 1 \/ (latest = 2 /\ alternate) THEN latest + 1 ELSE 0
  BY DEF NextRung
<1> HIDE DEF latest
<1>8. QED
  BY <1>5, <1>6, <1>7

\* What a step makes of the job of an image that has a judge.
LEMMA JudgedJob ==
    ASSUME RenderInv, SlotInv, LadderInv, ~SlowWorkers, [Next]_vars,
           NEW v \in Workers, NEW k \in ItemIds, Judging(v, k), Judging(v, k)'
    PROVE  checks'[k] = checks[k]
<1>1. /\ checks \in [ItemIds -> JobRows] /\ worker \in [Workers -> WorkerStates]
      /\ RenderWorkers \subseteq Workers /\ QcWorkers \subseteq Workers
  BY DEF RenderInv, RowsOK, Workers
<1>2. /\ checks[k].status = "running" /\ ~checks[k].stuck /\ items[k] = "succeeded"
      /\ \A w \in Workers : Judging(w, k) => w = v
  BY DEF LadderInv, SlotInv, Judging
<1>3. ASSUME NEW w \in RenderWorkers, RenderStep(w) PROVE checks'[k] = checks[k]
  <2>1. CASE CompleteRender(w)
    <3>1. items[worker[w].item] = "running"
      BY <1>1, <2>1, BusyItem DEF CompleteRender
    <3>2. QED
      BY <1>1, <1>2, <2>1, <3>1 DEF CompleteRender
  <2>2. CASE ~CompleteRender(w)
    BY <1>3, <2>2 DEF RenderStep, StartRender, FailRender, CompleteRead, CompleteConflict
  <2>3. QED
    BY <2>1, <2>2
<1>4. ASSUME NEW w \in QcWorkers, QcStep(w) PROVE checks'[k] = checks[k]
  <2>1. ASSUME NEW i \in ItemIds, StartQc(w, i) PROVE checks'[k] = checks[k]
    BY <1>1, <1>2, <2>1 DEF StartQc
  <2>2. CASE QcRead(w) \/ QcRaise(w) \/ RecordConflict(w)
    BY <2>2 DEF QcRead, QcRaise, RecordConflict
  <2>3. CASE FailQc(w) \/ RecordPass(w) \/ RecordRetry(w) \/ RecordEscalation(w)
    <3>1. /\ worker[w].pc \in {"judging", "recording"} /\ worker' = [worker EXCEPT ![w] = Idle]
          /\ \A i \in ItemIds : i # worker[w].item => checks'[i] = checks[i]
      BY <1>1, <2>3 DEF FailQc, RecordPass, RecordRetry, RecordEscalation
    <3>2. w # v
      BY <1>1, <3>1, IdleFacts DEF Judging
    <3>3. k # worker[w].item
      BY <1>1, <1>2, <3>1, <3>2 DEF Judging
    <3>4. QED
      BY <3>1, <3>3
  <2>4. QED
    BY <1>4, <2>1, <2>2, <2>3 DEF QcStep
<1>5. ASSUME NEW i \in ItemIds, BecomeStuck(i) PROVE checks'[k] = checks[k]
  <2>1. CASE checks' = checks
    BY <2>1
  <2>2. CASE (\A w \in Workers : ~Judging(w, i)) /\ checks' = [checks EXCEPT ![i].stuck = TRUE]
    BY <1>1, <2>2
  <2>3. QED
    BY <1>5, <2>1, <2>2 DEF BecomeStuck
<1>6. CASE Reap
  BY <1>2, <1>6 DEF Reap, Reaped, Reapable
<1>7. ASSUME NEW r \in Requests, CreateRequest(r) \/ FanOut(r) PROVE checks' = checks
  BY <1>7 DEF CreateRequest, FanOut
<1>8. ASSUME NEW c \in Reviewers, ReviewRead(c) \/ ReviewCommit(c) PROVE checks' = checks
  BY <1>8 DEF ReviewRead, ReviewCommit
<1>9. ASSUME NEW w \in Workers, Crash(w) PROVE checks' = checks
  BY <1>9 DEF Crash
<1>10. CASE Reconcile \/ UNCHANGED vars
  BY <1>10 DEF Reconcile, vars
<1>11. QED
  BY <1>3, <1>4, <1>5, <1>6, <1>7, <1>8, <1>9, <1>10 DEF Next

\* An image with a judge waits until its judge records; a failed one stays so.
LEMMA WaitingImage ==
    ASSUME RenderInv, ApprovalInv, LadderInv, [Next]_vars, NEW k \in ItemIds
    PROVE  /\ images[k].status = "qc_failed" => images'[k].status = "qc_failed"
           /\ images[k].status = "pending_qc" =>
                 \/ images'[k].status = "pending_qc"
                 \/ \E w \in Workers : /\ worker[w].item = k /\ worker[w].pc = "recording"
                                       /\ worker' = [worker EXCEPT ![w] = Idle]
           /\ images[k].status \in {"pending_approval", "approved", "rejected"} =>
                 images'[k].status \in {"pending_approval", "approved", "rejected"}
           /\ images'[k].status # None => images[k].status # None \/ items'[k] = "succeeded"
<1>1. images \in [ItemIds -> ImageRows] /\ items \in [ItemIds -> ItemStatuses \cup {None}]
  BY DEF ApprovalInv, RenderInv, RowsOK
<1>2. ASSUME NEW w \in Workers, CompleteRender(w)
      PROVE  \/ images'[k].status = images[k].status
             \/ images[k].status = None /\ items'[k] = "succeeded"
  <2>1. items[worker[w].item] = "running" /\ worker[w].item \in ItemIds
    BY <1>2, BusyItem DEF CompleteRender
  <2>2. images[worker[w].item].status = None
    BY <2>1 DEF LadderInv
  <2>3. items' = [items EXCEPT ![worker[w].item] = "succeeded"]
    BY <1>2 DEF CompleteRender
  <2>4. QED
    BY <1>1, <1>2, <2>2, <2>3, CompleteImages
<1>3. ASSUME NEW w \in Workers, RecordPass(w) \/ RecordRetry(w) \/ RecordEscalation(w)
      PROVE  \/ images'[k] = images[k]
             \/ /\ images[k].status = "pending_qc" /\ worker[w].item = k
                /\ worker[w].pc = "recording" /\ worker' = [worker EXCEPT ![w] = Idle]
  <2>1. worker[w].pc = "recording" /\ worker' = [worker EXCEPT ![w] = Idle]
    BY <1>3 DEF RecordPass, RecordRetry, RecordEscalation
  <2>2. images[worker[w].item].status = "pending_qc"
    BY <2>1 DEF LadderInv
  <2>3. QED
    BY <1>1, <1>3, <2>1, <2>2, RecordImages
<1>4. ASSUME NEW c \in Reviewers, ReviewCommit(c)
      PROVE  \/ images'[k] = images[k]
             \/ /\ images[k].status \in {"pending_approval", "approved", "rejected"}
                /\ images'[k].status \in {"pending_approval", "approved", "rejected"}
  BY <1>4, ReviewImages DEF LadderInv
<1>5. QED
  BY <1>2, <1>3, <1>4, ImageCases DEF None

\* A judge was one before or has just started.
LEMMA JudgeCases ==
    ASSUME RenderInv, [Next]_vars, NEW v \in Workers, NEW k \in ItemIds, Judging(v, k)'
    PROVE  Judging(v, k) \/ StartQc(v, k)
<1>1. worker'[v].pc \in {"judging", "recording"} /\ worker'[v].item = k
  BY DEF Judging
<1>2. CASE worker'[v] = worker[v]
  BY <1>1, <1>2 DEF Judging
<1>3. worker'[v] # Idle
  BY <1>1, IdleFacts
<1>4. ASSUME NEW i \in ItemIds, StartRender(v, i) PROVE FALSE
  <2>1. worker'[v].pc = "rendering"
    BY <1>4, StartFacts DEF Idle
  <2>2. QED
    BY <1>1, <2>1
<1>5. ASSUME NEW i \in ItemIds, StartQc(v, i) PROVE i = k
  <2>1. worker'[v].item = i
    BY <1>5, StartFacts DEF Idle
  <2>2. QED
    BY <1>1, <2>1
<1>6. ~CompleteRead(v)
  BY <1>1, CompleteReadFacts
<1>7. CASE QcRead(v)
  BY <1>1, <1>7, QcReadFacts DEF Judging
<1>8. QED
  BY <1>2, <1>3, <1>4, <1>5, <1>6, <1>7, WorkerCases

\* Every step preserves the ladder invariant.
LEMMA LadderStep ==
    ASSUME RenderInv, ApprovalInv, SlotInv, LadderInv, ~SlowWorkers, [Next]_vars
    PROVE  LadderInv'
<1>1. /\ images \in [ItemIds -> ImageRows] /\ checks \in [ItemIds -> JobRows]
      /\ worker \in [Workers -> WorkerStates]
      /\ review \in [Reviewers -> [images: SUBSET ItemIds,
                                   decision: {"none", "approved", "rejected"}]]
  BY DEF ApprovalInv, RenderInv, RowsOK
<1>2. ASSUME NEW v \in Workers, NEW i \in ItemIds, Judging(v, i)'
      PROVE  checks'[i].status = "running" /\ ~checks'[i].stuck
  <2>1. CASE Judging(v, i)
    BY <1>2, <2>1, JudgedJob DEF LadderInv
  <2>2. CASE StartQc(v, i)
    <3>1. checks'[i] = Claimed(checks[i]) /\ checks[i] \in JobRows
      BY <1>1, <2>2 DEF StartQc
    <3>2. QED
      BY <3>1 DEF Claimed, JobRows
  <2>3. QED
    BY <1>2, <2>1, <2>2, JudgeCases
<1>3. ASSUME NEW v \in Workers, NEW w \in Workers, NEW i \in ItemIds,
             Judging(v, i)', Judging(w, i)'
      PROVE  v = w
  <2>1. ASSUME NEW x \in Workers, NEW y \in Workers, Judging(x, i), StartQc(y, i) PROVE FALSE
    BY <2>1 DEF LadderInv, StartQc
  <2>2. CASE StartQc(v, i) /\ StartQc(w, i)
    <3>1. worker[w].pc = "idle" /\ (w # v => worker'[w] = worker[w])
      BY <1>1, <2>2 DEF StartQc
    <3>2. QED
      BY <1>3, <3>1 DEF Judging
  <2>3. CASE Judging(v, i) /\ Judging(w, i)
    BY <2>3 DEF LadderInv
  <2>4. QED
    BY <1>3, <2>1, <2>2, <2>3, JudgeCases
<1>4. ASSUME NEW v \in Workers, worker'[v].pc = "recording"
      PROVE  /\ images'[worker'[v].item].status = "pending_qc"
             /\ worker'[v].verdict = "fail" /\ worker'[v].rung # 0 =>
                   worker'[v].rung = worker'[v].item[3] + 1
  <2>1. CASE worker'[v] = worker[v]
    <3>1. PICK k \in ItemIds : k = worker[v].item
      BY <1>4, <2>1, BusyItem
    <3>2. /\ images[k].status = "pending_qc"
          /\ worker[v].verdict = "fail" /\ worker[v].rung # 0 => worker[v].rung = k[3] + 1
      BY <1>4, <2>1, <3>1 DEF LadderInv
    <3>3. ASSUME NEW w \in Workers, worker[w].item = k, worker[w].pc = "recording",
                 worker' = [worker EXCEPT ![w] = Idle]
          PROVE  FALSE
      <4>1. Judging(v, k) /\ Judging(w, k)
        BY <1>4, <2>1, <3>1, <3>3 DEF Judging
      <4>2. v = w
        BY <4>1 DEF LadderInv
      <4>3. QED
        BY <1>1, <1>4, <3>3, <4>2, IdleFacts
    <3>4. images'[k].status = "pending_qc"
      BY <3>2, <3>3, WaitingImage
    <3>5. QED
      BY <2>1, <3>1, <3>2, <3>4
  <2>2. CASE QcRead(v)
    <3>1. /\ worker[v].pc = "judging" /\ images[worker[v].item].status = "pending_qc"
          /\ worker'[v].item = worker[v].item /\ images' = images
          /\ \/ worker'[v].verdict = "pass"
             \/ \E alternate \in Alternates :
                   worker'[v].rung = NextRung(worker[v].item, alternate)
      BY <2>2, QcReadFacts DEF QcRead
    <3>2. PICK k \in ItemIds : k = worker[v].item
      BY <3>1, BusyItem
    <3>3. QED
      BY <3>1, <3>2, WaitingIsLatest
  <2>3. /\ worker'[v] # Idle /\ ~CompleteRead(v)
    BY <1>4, IdleFacts, CompleteReadFacts
  <2>4. ASSUME NEW i \in ItemIds, StartRender(v, i) \/ StartQc(v, i) PROVE FALSE
    <3>1. worker'[v].pc \in {"rendering", "judging"}
      BY <2>4, StartFacts DEF Idle
    <3>2. QED
      BY <1>4, <3>1
  <2>5. QED
    BY <2>1, <2>2, <2>3, <2>4, WorkerCases
<1>5. ASSUME NEW c \in Reviewers, NEW i \in review'[c].images
      PROVE  images'[i].status \in {"pending_approval", "approved", "rejected"}
  <2>1. CASE review'[c] = review[c]
    BY <1>1, <1>5, <2>1, WaitingImage DEF LadderInv
  <2>2. review'[c] # NoReview
    BY <1>5 DEF NoReview
  <2>3. CASE ReviewRead(c)
    <3>1. PICK batch \in SUBSET Reviewable, decision \in {"approved", "rejected"} :
             review' = [review EXCEPT ![c] = [images |-> batch, decision |-> decision]]
      BY <2>3 DEF ReviewRead
    <3>2. i \in Reviewable
      BY <1>1, <1>5, <3>1
    <3>3. QED
      BY <2>3, <3>2 DEF Reviewable, ReviewRead
  <2>4. QED
    BY <2>1, <2>2, <2>3, ReviewCases
<1>6. ASSUME NEW i \in ItemIds, images'[i].status # None
      PROVE  items'[i] = "succeeded"
  <2>1. CASE images[i].status # None
    <3>1. items[i] = "succeeded"
      BY <2>1 DEF LadderInv
    <3>2. QED
      BY <3>1, ItemCases DEF None
  <2>2. QED
    BY <1>6, <2>1, WaitingImage
<1>7. RetryFollowsFailure'
  <2> SUFFICES ASSUME NEW i \in ItemIds, items'[i] # None, i[3] > 1
               PROVE  images'[<<i[1], i[2], i[3] - 1>>].status = "qc_failed"
    BY DEF RetryFollowsFailure
  <2>1. CASE items[i] # None
    <3>1. i[3] - 1 \in Attempts /\ i[1] \in Requests /\ i[2] \in Slots
      <4>1. i[3] \in Attempts /\ i[1] \in Requests /\ i[2] \in Slots
        BY ItemFacts
      <4>2. QED
        BY <4>1 DEF Attempts
    <3>2. <<i[1], i[2], i[3] - 1>> \in ItemIds
      BY <3>1, ItemFacts
    <3>3. images[<<i[1], i[2], i[3] - 1>>].status = "qc_failed"
      BY <2>1 DEF LadderInv, RetryFollowsFailure
    <3>4. QED
      BY <3>2, <3>3, WaitingImage
  <2>2. CASE items[i] = None
    <3>1. PICK w \in Workers :
             /\ RecordRetry(w)
             /\ i = <<worker[w].item[1], worker[w].item[2], worker[w].rung>>
      BY <2>2, ItemCases DEF None
    <3>2. /\ worker[w].pc = "recording" /\ worker[w].verdict = "fail" /\ worker[w].rung # 0
      BY <3>1 DEF RecordRetry
    <3>3. PICK k \in ItemIds : k = worker[w].item
      BY <3>2, BusyItem
    <3>4. worker[w].rung = k[3] + 1
      BY <3>2, <3>3 DEF LadderInv
    <3>5. k[3] \in Nat
      BY ItemFacts DEF Attempts
    <3>6. i[1] = k[1] /\ i[2] = k[2] /\ i[3] - 1 = k[3]
      BY <3>1, <3>3, <3>4, <3>5
    <3>7. <<i[1], i[2], i[3] - 1>> = k
      BY <3>6, ItemFacts
    <3>8. images'[k].status = "qc_failed"
      BY <1>1, <3>1, <3>3, RecordImages
    <3>9. QED
      BY <3>7, <3>8
  <2>3. QED
    BY <2>1, <2>2
<1>8. QED
  BY <1>2, <1>3, <1>4, <1>5, <1>6, <1>7 DEF LadderInv

\* It holds in every behaviour without slow workers.
LEMMA LadderInvariant == ~SlowWorkers /\ Spec => []LadderInv
<1>1. Init => LadderInv
  <2> SUFFICES ASSUME Init PROVE LadderInv
    OBVIOUS
  <2>1. /\ \A i \in ItemIds : items[i] = None /\ images[i].status = None
        /\ \A w \in Workers : worker[w].pc = "idle"
        /\ \A c \in Reviewers : review[c].images = {}
    BY DEF Init, Idle, NoReview
  <2>2. RetryFollowsFailure
    BY <2>1 DEF RetryFollowsFailure
  <2>3. QED
    BY <2>1, <2>2 DEF LadderInv, Judging
<1>2. CASE ~SlowWorkers
  <2>1. RenderInv /\ ApprovalInv /\ SlotInv /\ LadderInv /\ [Next]_vars => LadderInv'
    BY <1>2, LadderStep
  <2>2. QED
    BY <1>1, <2>1, RenderInvariant, ApprovalInvariant, SlotInvariant, PTL DEF Spec
<1>3. CASE SlowWorkers
  BY <1>3
<1>4. QED
  BY <1>2, <1>3

\* The ladder climbs only from a failed image: while no worker outlasts
\* STUCK_JOB_THRESHOLD, the attempt before an existing one was rendered and
\* failed QC (next_rung, CompleteCatalogImageQc), whatever crashes.
THEOREM RetriesFollowFailures == ~SlowWorkers /\ Spec => []RetryFollowsFailure
<1>1. LadderInv => RetryFollowsFailure
  BY DEF LadderInv
<1>2. QED
  BY <1>1, LadderInvariant, PTL

------------------------------------------------------------------------------
(* Items and their jobs *)

\* What the agreement of items and jobs takes: nobody is slow or dies, and no
\* two renders of a slot complete at once, because there is one request or one
\* render worker.
Steady ==
    /\ ~SlowWorkers /\ ~Crashes
    /\ MaxRequests <= 1 \/ \A v, w \in RenderWorkers : v = w

\* An item waits while its job does, is rendered by somebody while its job runs,
\* and is settled when its job is.
Tended(i) ==
    /\ items[i] \in {"pending", "failed"} => renders[i].status = "pending"
    /\ items[i] = "running" =>
          /\ renders[i].status = "running" /\ ~renders[i].stuck
          /\ \E w \in RenderWorkers : Rendering(w, i)
    /\ items[i] \in {"succeeded", "dead"} => renders[i].status \in {"succeeded", "dead"}

\* A completion that is open will not meet the unique index, which would leave
\* its item running with nobody at it.
TrackInv ==
    /\ \A i \in ItemIds : Tended(i)
    /\ \A w \in Workers : worker[w].pc \in {"rendering", "completing"} => w \in RenderWorkers
    /\ \A w \in Workers : worker[w].pc = "completing" => IndexAdmits(w)

\* An item a step does not touch.
LEMMA TendedFramed ==
    ASSUME NEW k \in ItemIds, Tended(k), items'[k] = items[k], renders'[k] = renders[k],
           \A w \in RenderWorkers : Rendering(w, k) => Rendering(w, k)'
    PROVE  Tended(k)'
  BY DEF Tended

\* No job is left for the reaper.
LEMMA NothingStuck ==
    ASSUME RenderInv, TrackInv, NEW k \in ItemIds, renders[k].status = "running"
    PROVE  ~renders[k].stuck /\ \E w \in Workers : Rendering(w, k)
<1>1. items[k] \in ItemStatuses \cup {None}
  BY DEF RenderInv, RowsOK
<1>2. items[k] # None
  BY DEF RenderInv, Provenance
<1>3. Tended(k) /\ RenderWorkers \subseteq Workers
  BY DEF TrackInv, Workers
<1>4. QED
  BY <1>1, <1>2, <1>3 DEF Tended, ItemStatuses, None

\* The step of a render worker and the items.
LEMMA RenderTended ==
    ASSUME Steady, RenderInv, TrackInv, NEW w \in RenderWorkers, RenderStep(w), NEW k \in ItemIds
    PROVE  Tended(k)'
<1>1. /\ items \in [ItemIds -> ItemStatuses \cup {None}] /\ renders \in [ItemIds -> JobRows]
      /\ worker \in [Workers -> WorkerStates] /\ w \in Workers /\ Tended(k)
      /\ RenderWorkers \subseteq Workers
  BY DEF RenderInv, RowsOK, Workers, TrackInv
<1>2. ASSUME NEW i \in ItemIds, StartRender(w, i) PROVE Tended(k)'
  <2>1. /\ worker[w].pc = "idle" /\ items' = [items EXCEPT ![i] = "running"]
        /\ renders' = [renders EXCEPT ![i] = Claimed(renders[i])]
    BY <1>2 DEF StartRender
  <2>2. worker'[w] = [Idle EXCEPT !.pc = "rendering", !.item = i]
    BY <1>1, <1>2, StartFacts
  <2>3. worker'[w].pc = "rendering" /\ worker'[w].item = i
    BY <2>2 DEF Idle
  <2>4. CASE k = i
    <3>1. renders[i] \in JobRows /\ renders'[i] = Claimed(renders[i]) /\ items'[i] = "running"
      BY <1>1, <2>1
    <3>2. renders'[i].status = "running" /\ ~renders'[i].stuck
      BY <3>1 DEF JobRows, Claimed
    <3>3. QED
      BY <2>3, <2>4, <3>1, <3>2 DEF Tended, Rendering
  <2>5. CASE k # i
    <3>1. \A v \in RenderWorkers : Rendering(v, k) => Rendering(v, k)'
      <4>1. \A v \in RenderWorkers : v # w => worker'[v] = worker[v]
        BY <1>1, <1>2 DEF StartRender
      <4>2. QED
        BY <2>1, <4>1 DEF Rendering
    <3>2. QED
      BY <1>1, <2>1, <2>5, <3>1, TendedFramed
  <2>6. QED
    BY <2>4, <2>5
<1>3. ASSUME worker[w].pc \in {"rendering", "completing"}, k # worker[w].item,
             FailRender(w) \/ CompleteRender(w)
      PROVE  Tended(k)'
  <2>1. items'[k] = items[k] /\ renders'[k] = renders[k] /\ worker' = [worker EXCEPT ![w] = Idle]
    BY <1>1, <1>3 DEF FailRender, CompleteRender
  <2>2. \A v \in RenderWorkers : Rendering(v, k) => Rendering(v, k)'
    BY <1>1, <1>3, <2>1 DEF Rendering
  <2>3. QED
    BY <1>1, <2>1, <2>2, TendedFramed
<1>4. CASE FailRender(w)
  <2>1. CASE k # worker[w].item
    BY <1>3, <1>4, <2>1 DEF FailRender
  <2>2. CASE k = worker[w].item
    <3> PICK job : job = Failed(renders[k], MaxAttempts)
      OBVIOUS
    <3>1. renders'[k] = job /\ items'[k] = IF job.status = "dead" THEN "dead" ELSE "failed"
      BY <1>1, <1>4, <2>2 DEF FailRender
    <3>2. job.status \in {"pending", "dead"}
      BY <1>1, JobFacts
    <3>3. QED
      BY <3>1, <3>2 DEF Tended
  <2>3. QED
    BY <2>1, <2>2
<1>5. CASE CompleteRender(w)
  <2>1. CASE k # worker[w].item
    BY <1>3, <1>5, <2>1 DEF CompleteRender
  <2>2. CASE k = worker[w].item
    <3>1. renders'[k] = Completed(renders[k]) /\ items'[k] = "succeeded"
      BY <1>1, <1>5, <2>2 DEF CompleteRender
    <3>2. renders'[k].status = "succeeded"
      BY <1>1, <3>1, JobFacts
    <3>3. QED
      BY <3>1, <3>2 DEF Tended
  <2>3. QED
    BY <2>1, <2>2
<1>6. CASE CompleteRead(w)
  <2>1. worker'[w].item = worker[w].item /\ worker'[w].pc = "completing"
    BY <1>1, <1>6, CompleteReadFacts
  <2>2. \A v \in RenderWorkers : v # w => worker'[v] = worker[v]
    BY <1>1, <1>6 DEF CompleteRead
  <2>3. items' = items /\ renders' = renders
    BY <1>6 DEF CompleteRead
  <2>4. \A v \in RenderWorkers : Rendering(v, k) => Rendering(v, k)'
    BY <2>1, <2>2 DEF Rendering
  <2>5. QED
    BY <1>1, <2>3, <2>4, TendedFramed
<1>7. ~CompleteConflict(w)
  BY <1>1 DEF TrackInv, CompleteConflict
<1>8. QED
  BY <1>2, <1>4, <1>5, <1>6, <1>7 DEF RenderStep

\* The step of a QC worker and the items.
LEMMA QcTended ==
    ASSUME RenderInv, TrackInv, NEW w \in QcWorkers, QcStep(w), NEW k \in ItemIds
    PROVE  Tended(k)'
<1>1. /\ items \in [ItemIds -> ItemStatuses \cup {None}] /\ renders \in [ItemIds -> JobRows]
      /\ worker \in [Workers -> WorkerStates] /\ w \in Workers /\ Tended(k)
      /\ RenderWorkers \subseteq Workers
  BY DEF RenderInv, RowsOK, Workers, TrackInv
<1>2. worker[w].pc \in {"idle", "judging", "recording"}
  BY DEF QcStep, StartQc, FailQc, QcRead, QcRaise, RecordPass, RecordRetry, RecordConflict,
         RecordEscalation
<1>3. \A v \in RenderWorkers : v # w => worker'[v] = worker[v]
  BY <1>1 DEF QcStep, StartQc, FailQc, QcRead, QcRaise, RecordPass, RecordRetry, RecordConflict,
              RecordEscalation
<1>4. \A v \in RenderWorkers : Rendering(v, k) => Rendering(v, k)'
  BY <1>2, <1>3 DEF Rendering
<1>5. CASE RecordRetry(w)
  <2> PICK next : next = <<worker[w].item[1], worker[w].item[2], worker[w].rung>>
    OBVIOUS
  <2>1. /\ items' = [items EXCEPT ![next] = "pending"]
        /\ renders' = [renders EXCEPT ![next] = Enqueued]
    BY <1>5 DEF RecordRetry
  <2>2. CASE k = next
    BY <1>1, <2>1, <2>2 DEF Tended, Enqueued
  <2>3. CASE k # next
    BY <1>1, <1>4, <2>1, <2>3, TendedFramed
  <2>4. QED
    BY <2>2, <2>3
<1>6. CASE ~RecordRetry(w)
  <2>1. items' = items /\ renders' = renders
    BY <1>6 DEF QcStep, StartQc, FailQc, QcRead, QcRaise, RecordPass, RecordConflict,
                RecordEscalation
  <2>2. QED
    BY <1>1, <1>4, <2>1, TendedFramed
<1>7. QED
  BY <1>5, <1>6

\* Every step keeps items and jobs in agreement.
LEMMA TendedStep ==
    ASSUME Steady, RenderInv, TrackInv, [Next]_vars, NEW k \in ItemIds
    PROVE  Tended(k)'
<1>1. Tended(k) /\ renders \in [ItemIds -> JobRows]
  BY DEF TrackInv, RenderInv, RowsOK
<1>2. CASE items' = items /\ renders' = renders /\ worker' = worker
  BY <1>1, <1>2, TendedFramed DEF Rendering
<1>3. ASSUME NEW r \in Requests, FanOut(r) PROVE Tended(k)'
  <2>1. /\ worker' = worker
        /\ items'[k] = IF k \in FirstItems(r) THEN "pending" ELSE items[k]
        /\ renders'[k] = IF k \in FirstItems(r) THEN Enqueued ELSE renders[k]
    BY <1>3 DEF FanOut
  <2>2. CASE k \in FirstItems(r)
    BY <2>1, <2>2 DEF Tended, Enqueued
  <2>3. CASE k \notin FirstItems(r)
    BY <1>1, <2>1, <2>3, TendedFramed DEF Rendering
  <2>4. QED
    BY <2>2, <2>3
<1>4. ASSUME NEW i \in ItemIds, BecomeStuck(i) PROVE Tended(k)'
  <2>1. ~(renders[i].status = "running" /\ ~renders[i].stuck
          /\ (SlowWorkers \/ \A w \in Workers : ~Rendering(w, i)))
    BY NothingStuck DEF Steady
  <2>2. items' = items /\ renders' = renders /\ worker' = worker
    BY <1>4, <2>1 DEF BecomeStuck
  <2>3. QED
    BY <1>2, <2>2
<1>5. CASE Reap
  <2>1. ~Reapable(renders[k])
    BY NothingStuck DEF Reapable
  <2>2. items' = items /\ worker' = worker /\ renders'[k] = renders[k]
    BY <1>5, <2>1 DEF Reap, Reaped
  <2>3. QED
    BY <1>1, <2>2, TendedFramed DEF Rendering
<1>6. ASSUME NEW w \in Workers PROVE ~Crash(w)
  BY DEF Steady, Crash
<1>7. ASSUME NEW r \in Requests, CreateRequest(r) PROVE Tended(k)'
  BY <1>2, <1>7 DEF CreateRequest
<1>8. ASSUME NEW c \in Reviewers, ReviewRead(c) \/ ReviewCommit(c) PROVE Tended(k)'
  BY <1>2, <1>8 DEF ReviewRead, ReviewCommit
<1>9. CASE Reconcile \/ UNCHANGED vars
  BY <1>2, <1>9 DEF Reconcile, vars
<1>10. QED
  BY <1>3, <1>4, <1>5, <1>6, <1>7, <1>8, <1>9, RenderTended, QcTended DEF Next

\* The attempts before one that exists are over.
LEMMA EarlierSucceeded ==
    ASSUME RenderInv, LadderInv, NEW r \in Requests, NEW s \in Slots,
           NEW a \in Attempts, NEW b \in Attempts, a < b, items[<<r, s, b>>] # None
    PROVE  items[<<r, s, a>>] = "succeeded"
<1>1. ASSUME NEW c \in Attempts, c > 1, items[<<r, s, c>>] # None
      PROVE  items[<<r, s, c - 1>>] = "succeeded"
  <2>1. PICK i \in ItemIds, j \in ItemIds : i = <<r, s, c>> /\ j = <<r, s, c - 1>>
    <3>1. c - 1 \in Attempts
      BY <1>1 DEF Attempts
    <3>2. QED
      BY <3>1 DEF ItemIds
  <2>2. i[1] = r /\ i[2] = s /\ i[3] = c
    BY <2>1
  <2>3. images[j].status = "qc_failed"
    BY <1>1, <2>1, <2>2 DEF LadderInv, RetryFollowsFailure
  <2>4. images[j].status # None
    BY <2>3 DEF None
  <2>5. QED
    BY <2>1, <2>4 DEF LadderInv
<1>2. "succeeded" # None
  BY DEF None
<1>3. CASE a = b - 1
  BY <1>1, <1>3 DEF Attempts
<1>4. CASE a = 1 /\ b = 3
  <2>1. items[<<r, s, 3 - 1>>] = "succeeded"
    BY <1>1, <1>4
  <2>2. items[<<r, s, 2>>] # None
    BY <1>2, <2>1
  <2>3. items[<<r, s, 2 - 1>>] = "succeeded"
    BY <1>1, <2>2 DEF Attempts
  <2>4. QED
    BY <1>4, <2>3
<1>5. QED
  BY <1>3, <1>4 DEF Attempts

\* Of one request a slot is rendered by one worker at a time.
LEMMA OneAtASlot ==
    ASSUME RenderInv, LadderInv, MaxRequests <= 1, NEW v \in Workers, NEW w \in Workers,
           worker[v].pc \in {"rendering", "completing"}, worker[w].pc \in {"rendering", "completing"},
           worker[v].item[2] = worker[w].item[2]
    PROVE  v = w
<1>1. PICK i \in ItemIds, j \in ItemIds : i = worker[v].item /\ j = worker[w].item
  BY BusyItem
<1>2. items[i] = "running" /\ items[j] = "running"
  BY <1>1, BusyItem
<1>3. i[1] = 1 /\ j[1] = 1
  BY ItemFacts, GenerationAssumptions DEF Requests
<1>4. PICK s \in Slots, a \in Attempts, b \in Attempts : i = <<1, s, a>> /\ j = <<1, s, b>>
  BY <1>1, <1>3, ItemFacts
<1>5. 1 \in Requests
  BY <1>3, ItemFacts
<1>6. "running" # None
  BY DEF None
<1>7. ~(a < b) /\ ~(b < a)
  <2>1. a < b => items[i] = "succeeded"
    BY <1>2, <1>4, <1>5, <1>6, EarlierSucceeded
  <2>2. b < a => items[j] = "succeeded"
    BY <1>2, <1>4, <1>5, <1>6, EarlierSucceeded
  <2>3. QED
    BY <1>2, <2>1, <2>2
<1>8. i = j
  BY <1>4, <1>7 DEF Attempts
<1>9. Rendering(v, i) /\ Rendering(w, i)
  BY <1>1, <1>8 DEF Rendering
<1>10. QED
  BY <1>9 DEF RenderInv, OneRendererPerItem

\* A completion finds the slot as it read it: another one is of another slot.
LEMMA AdmittedStep ==
    ASSUME Steady, RenderInv, ApprovalInv, LiveInv, LadderInv, TrackInv, [Next]_vars,
           NEW v \in Workers, worker'[v].pc \in {"rendering", "completing"}
    PROVE  v \in RenderWorkers /\ (worker'[v].pc = "completing" => IndexAdmits(v)')
<1>1. worker'[v] # Idle
  BY IdleFacts
<1>2. CASE worker'[v] = worker[v]
  <2>1. v \in RenderWorkers /\ (worker[v].pc = "completing" => IndexAdmits(v))
    BY <1>2 DEF TrackInv
  <2>2. images \in [ItemIds -> ImageRows]
    BY DEF ApprovalInv
  <2>3. PICK slot : slot = worker[v].item[2]
    OBVIOUS
  <2>4. ASSUME NEW w \in Workers, CompleteRender(w), NEW k \in ItemIds, k[2] = slot
        PROVE  images'[k].live = images[k].live
    <3>1. worker[w].pc = "completing" /\ worker' = [worker EXCEPT ![w] = Idle]
      BY <2>4 DEF CompleteRender
    <3>2. w # v
      BY <1>1, <3>1 DEF RenderInv, RowsOK
    <3>3. worker[w].item[2] # slot
      <4>1. w \in RenderWorkers
        BY <3>1 DEF TrackInv
      <4>2. MaxRequests <= 1
        BY <2>1, <3>2, <4>1 DEF Steady
      <4>3. worker[v].pc \in {"rendering", "completing"}
        BY <1>2
      <4>4. QED
        BY <2>3, <3>1, <3>2, <4>2, <4>3, OneAtASlot
    <3>4. k # worker[w].item
      BY <2>4, <3>3
    <3>5. k # worker[w].live
      <4>1. k # NoItem
        BY ItemFacts
      <4>2. worker[w].live # NoItem => worker[w].live[2] = worker[w].item[2]
        BY DEF LiveInv
      <4>3. QED
        BY <2>4, <3>3, <4>1, <4>2
    <3>6. images'[k].live = (k # worker[w].live /\ images[k].live)
      BY <2>2, <2>4, <3>4, CompleteImages
    <3>7. images[k].live \in BOOLEAN
      BY <2>2 DEF ImageRows
    <3>8. QED
      BY <3>5, <3>6, <3>7
  <2>5. \A k \in ItemIds : k[2] = slot => images'[k].live = images[k].live
    BY <2>2, <2>4, ImageCases, RecordImages, ReviewImages
  <2>6. LiveIn(slot)' = LiveIn(slot)
    BY <2>5 DEF LiveIn
  <2>7. worker[v].pc = "completing" => IndexAdmits(v)'
    BY <1>2, <2>1, <2>3, <2>6 DEF IndexAdmits
  <2>8. QED
    BY <1>2, <2>1, <2>7
<1>3. ASSUME NEW i \in ItemIds, v \in RenderWorkers, StartRender(v, i)
      PROVE  worker'[v].pc = "rendering"
  BY <1>3, StartFacts DEF Idle
<1>4. ASSUME NEW i \in ItemIds, StartQc(v, i) PROVE FALSE
  <2>1. worker'[v].pc = "judging"
    BY <1>4, StartFacts DEF Idle
  <2>2. QED
    BY <2>1
<1>5. ASSUME QcRead(v) PROVE FALSE
  BY <1>5, QcReadFacts
<1>6. ASSUME CompleteRead(v), v \in RenderWorkers PROVE IndexAdmits(v)'
  <2> PICK live : live = LiveIn(worker[v].item[2])
    OBVIOUS
  <2>1. worker' = [worker EXCEPT ![v].pc = "completing",
                                 ![v].live = IF live = {} THEN NoItem ELSE CHOOSE k \in live : TRUE]
        /\ images' = images
    BY <1>6 DEF CompleteRead
  <2>2. /\ worker'[v].item = worker[v].item
        /\ worker'[v].live = IF live = {} THEN NoItem ELSE CHOOSE k \in live : TRUE
    BY <2>1 DEF RenderInv, RowsOK, WorkerStates
  <2>3. live # {} => worker'[v].live \in live
    BY <2>2
  <2>4. \A j, k \in live : j = k
    BY DEF LiveInv, LiveIn
  <2>5. LiveIn(worker[v].item[2])' = live
    <3>1. worker[v].item[2] = worker'[v].item[2]
      BY <2>2
    <3>2. QED
      BY <2>1, <3>1 DEF LiveIn
  <2>6. QED
    BY <2>3, <2>4, <2>5 DEF IndexAdmits
<1>7. QED
  BY <1>1, <1>2, <1>3, <1>4, <1>5, <1>6, WorkerCases

\* "The two trackers must never disagree about whether this attempt is still
\* alive" (FailGenerationItemRender): they do not, while no worker is slow or
\* dies, and one request is rendered by any number of workers or any number of
\* requests by one.  Each of the three is needed: two requests rendered by two
\* workers meet in the unique index, and the loser's item stays running.
THEOREM TrackersStayAgreed == Steady /\ Spec => []TrackersAgree
<1>1. Init => TrackInv
  <2> SUFFICES ASSUME Init PROVE TrackInv
    OBVIOUS
  <2>1. (\A i \in ItemIds : items[i] = None) /\ \A w \in Workers : worker[w].pc = "idle"
    BY DEF Init, Idle
  <2>2. QED
    BY <2>1 DEF TrackInv, Tended, None
<1>2. RenderInv /\ TrackInv => TrackersAgree
  <2> SUFFICES ASSUME RenderInv, TrackInv, NEW i \in ItemIds, items[i] # None
               PROVE  items[i] \in {"pending", "running", "failed"} <=> Unsettled(renders[i])
    BY DEF TrackersAgree
  <2>1. items[i] \in ItemStatuses /\ Tended(i)
    BY DEF RenderInv, RowsOK, TrackInv
  <2>2. QED
    BY <2>1 DEF ItemStatuses, Tended, Unsettled
<1>3. CASE Steady
  <2>1. RenderInv /\ ApprovalInv /\ LiveInv /\ LadderInv /\ TrackInv /\ [Next]_vars => TrackInv'
    <3> SUFFICES ASSUME RenderInv, ApprovalInv, LiveInv, LadderInv, TrackInv, [Next]_vars
                 PROVE  TrackInv'
      OBVIOUS
    <3>1. \A i \in ItemIds : Tended(i)'
      BY <1>3, TendedStep
    <3>2. \A v \in Workers : worker'[v].pc \in {"rendering", "completing"} =>
              v \in RenderWorkers /\ (worker'[v].pc = "completing" => IndexAdmits(v)')
      BY <1>3, AdmittedStep
    <3>3. QED
      BY <3>1, <3>2 DEF TrackInv
  <2>2. ~SlowWorkers
    BY <1>3 DEF Steady
  <2>3. QED
    BY <1>1, <1>2, <2>1, <2>2, RenderInvariant, ApprovalInvariant, LiveInvariant, LadderInvariant,
       PTL DEF Spec
<1>4. CASE ~Steady
  BY <1>4
<1>5. QED
  BY <1>3, <1>4

------------------------------------------------------------------------------
(* Types *)

\* Only images of the system have passed.
PassedOK == passed \in SUBSET ItemIds

\* It holds in every reachable state.
LEMMA PassedTyped == Spec => []PassedOK
<1>1. Init => PassedOK
  BY DEF Init, PassedOK
<1>2. RenderInv /\ PassedOK /\ [Next]_vars => PassedOK'
  <2> SUFFICES ASSUME RenderInv, passed \in SUBSET ItemIds, [Next]_vars
               PROVE  passed' \in SUBSET ItemIds
    BY DEF PassedOK
  <2>1. ASSUME NEW w \in Workers, RecordPass(w) PROVE passed' \in SUBSET ItemIds
    BY <2>1, BusyItem DEF RecordPass
  <2>2. ASSUME NEW w \in QcWorkers, QcStep(w), ~RecordPass(w) PROVE passed' = passed
    BY <2>2 DEF QcStep, StartQc, FailQc, QcRead, QcRaise, RecordRetry, RecordConflict,
                RecordEscalation
  <2>3. ASSUME NEW w \in RenderWorkers, RenderStep(w) PROVE passed' = passed
    BY <2>3 DEF RenderStep, StartRender, FailRender, CompleteRead, CompleteRender,
                CompleteConflict
  <2>4. CASE ~(\E w \in QcWorkers : QcStep(w)) /\ ~(\E w \in RenderWorkers : RenderStep(w))
    BY <2>4 DEF Next, vars, CreateRequest, FanOut, Crash, ReviewRead, ReviewCommit,
                BecomeStuck, Reconcile, Reap
  <2>5. QcWorkers \subseteq Workers
    BY DEF Workers
  <2>6. QED
    BY <2>1, <2>2, <2>3, <2>4, <2>5
<1>3. QED
  BY <1>1, <1>2, RenderInvariant, PTL DEF Spec

\* Type correctness of the whole state.
THEOREM TypeCorrect == Spec => []TypeOK
<1>1. RenderInv /\ ApprovalInv /\ QuotaInv /\ PassedOK => TypeOK
  BY DEF PassedOK, RenderInv, RowsOK, ApprovalInv, QuotaInv, TypeOK
<1>2. QED
  BY <1>1, RenderInvariant, ApprovalInvariant, QuotaInvariant, PassedTyped, PTL
=============================================================================
