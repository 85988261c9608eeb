------------------------ MODULE ContentDraftsProofs ------------------------
(***************************************************************************)
(* Theorems about ContentDrafts, for every value of its constants.         *)
(***************************************************************************)
EXTENDS ContentDrafts, TLAPS

\* The two settings, and what the history flags remember of them.
SettingsInv ==
    /\ claims \in ClaimSettings /\ approval \in ApprovalSettings
    /\ changes \in 0..MaxChanges
    /\ unlisted \in BOOLEAN /\ opened \in BOOLEAN
    /\ claims = "unset" => unlisted
    /\ approval = "false" => opened

\* A worker writes for a request; it decided to approve by itself only if the
\* gate was open, and it holds the list unless there was a time without one.
WorkersInv ==
    /\ worker \in [Workers -> WorkerStates]
    /\ \A w \in Workers :
          /\ worker[w].auto => opened
          /\ worker[w].pc # "idle" =>
                worker[w].job \in Requests /\ (worker[w].claims = "list" \/ unlisted)
          /\ worker[w].live # NoDraft => Exists(worker[w].live)

\* The same of an open transaction of a person.
TxInv ==
    /\ tx \in [People -> TxStates]
    /\ \A p \in People :
          /\ tx[p].auto => opened
          /\ tx[p].copy = "claim" => unlisted
          /\ tx[p].draft # NoDraft => Exists(tx[p].draft)

\* The chain of drafts: a superseded row exists, and as long as there is a row
\* at all one of them is live.
ChainInv ==
    /\ \A d \in DraftIds : drafts[d].next # NoDraft => Exists(d)
    /\ (\E d \in DraftIds : Exists(d)) => Live # {}

DraftsInv ==
    /\ drafts \in [DraftIds -> DraftRows]
    /\ \A d \in DraftIds :
          /\ drafts[d].status = "approved" => drafts[d].approved_by = "person" \/ opened
          /\ drafts[d].copy = "claim" => unlisted
    /\ ChainInv

ContentInv ==
    /\ SettingsInv /\ WorkersInv /\ TxInv /\ DraftsInv
    /\ jobs \in [Requests -> JobRows]

------------------------------------------------------------------------------
(* Operators *)

\* What the queue's operations make of a job row.
LEMMA JobFacts ==
    ASSUME NEW job \in JobRows
    PROVE  /\ Enqueued \in JobRows /\ Enqueued.status = "pending"
           /\ NoJob \in JobRows /\ NoJob.status = "absent"
           /\ Claimed(job) \in JobRows
           /\ Claimed(job).status = "running" /\ ~Claimed(job).stuck
           /\ Completed(job) \in JobRows /\ Completed(job).status = "succeeded"
           /\ Failed(job, MaxAttempts) \in JobRows
           /\ Failed(job, MaxAttempts).status \in {"pending", "dead"}
<1>1. job.attempts \in Nat /\ job.status \in JobStatuses /\ job.stuck \in BOOLEAN
  BY DEF JobRows
<1>2. /\ Enqueued \in JobRows /\ Enqueued.status = "pending"
      /\ NoJob \in JobRows /\ NoJob.status = "absent"
  BY DEF JobRows, JobStatuses, Enqueued, NoJob
<1>3. /\ Claimed(job) \in JobRows
      /\ Claimed(job).status = "running" /\ ~Claimed(job).stuck
  BY DEF JobRows, JobStatuses, Claimed
<1>4. Completed(job) \in JobRows /\ Completed(job).status = "succeeded"
  BY DEF JobRows, JobStatuses, Completed
<1>5. /\ Failed(job, MaxAttempts) \in JobRows
      /\ Failed(job, MaxAttempts).status \in {"pending", "dead"}
  <2> DEFINE s == IF job.attempts + 1 >= MaxAttempts THEN "dead" ELSE "pending"
  <2>1. s \in {"pending", "dead"} /\ job.attempts + 1 \in Nat
    BY <1>1
  <2>2. Failed(job, MaxAttempts) = [job EXCEPT !.status = s, !.attempts = job.attempts + 1]
    BY DEF Failed, FailedAs
  <2> HIDE DEF s
  <2>3. QED
    BY <2>1, <2>2 DEF JobRows, JobStatuses
<1>6. QED
  BY <1>2, <1>3, <1>4, <1>5

\* The resting states of a worker and of a person.
LEMMA RestFacts ==
    /\ Idle \in WorkerStates /\ Idle.pc = "idle" /\ Idle.auto = FALSE /\ Idle.live = NoDraft
    /\ NoTx \in TxStates /\ NoTx.auto = FALSE /\ NoTx.copy = "plain" /\ NoTx.op = None
    /\ NoTx.draft = NoDraft
  BY DEF Idle, WorkerStates, NoTx, TxStates, None, ClaimSettings, Copies

\* No draft has the id that stands for none.
LEMMA DraftIdFacts == NoDraft \notin DraftIds
  BY ContentAssumptions DEF NoDraft, DraftIds

\* What superseding one row and inserting another does to the table.
LEMMA ReplacedFacts ==
    ASSUME drafts \in [DraftIds -> DraftRows], HasRoom,
           NEW old \in DraftIds \cup {NoDraft}, NEW copy \in Copies,
           NEW job \in Requests \cup {0}, NEW auto \in BOOLEAN,
           drafts' = Replaced(old, copy, job, auto)
    PROVE  /\ drafts' \in [DraftIds -> DraftRows]
           /\ Fresh \in DraftIds /\ ~Exists(Fresh)
           /\ drafts'[Fresh].status = (IF auto THEN "approved" ELSE "pending_approval")
           /\ drafts'[Fresh].next = NoDraft
           /\ drafts'[Fresh].copy = copy /\ drafts'[Fresh].job = job
           /\ \A d \in DraftIds \ {Fresh} :
                 /\ drafts'[d].status = drafts[d].status
                 /\ drafts'[d].copy = drafts[d].copy
                 /\ drafts'[d].job = drafts[d].job
                 /\ drafts'[d].approved_by = drafts[d].approved_by
                 /\ drafts'[d].next = (IF d = old THEN Fresh ELSE drafts[d].next)
<1>1. Fresh \in DraftIds /\ ~Exists(Fresh)
  BY DEF HasRoom, Fresh
<1> DEFINE row == [status |-> IF auto THEN "approved" ELSE "pending_approval",
                   next |-> NoDraft, copy |-> copy, job |-> job,
                   approved_by |-> IF auto THEN "setting" ELSE None]
<1>2. row \in DraftRows
  BY DEF DraftRows, DraftStatuses
<1>3. /\ row.status = (IF auto THEN "approved" ELSE "pending_approval")
      /\ row.next = NoDraft /\ row.copy = copy /\ row.job = job
  OBVIOUS
<1>4. drafts' = [d \in DraftIds |-> IF d = Fresh THEN row
                                    ELSE IF d = old THEN [drafts[d] EXCEPT !.next = Fresh]
                                    ELSE drafts[d]]
  BY DEF Replaced
<1> HIDE DEF row
<1>5. \A d \in DraftIds : [drafts[d] EXCEPT !.next = Fresh] \in DraftRows
  BY <1>1 DEF DraftRows
<1>6. drafts' \in [DraftIds -> DraftRows]
  BY <1>2, <1>4, <1>5
<1>7. ASSUME NEW d \in DraftIds \ {Fresh}
      PROVE  /\ drafts'[d].status = drafts[d].status
             /\ drafts'[d].copy = drafts[d].copy
             /\ drafts'[d].job = drafts[d].job
             /\ drafts'[d].approved_by = drafts[d].approved_by
             /\ drafts'[d].next = (IF d = old THEN Fresh ELSE drafts[d].next)
  <2>1. drafts[d] \in DraftRows
    OBVIOUS
  <2>2. drafts'[d] = (IF d = old THEN [drafts[d] EXCEPT !.next = Fresh] ELSE drafts[d])
    BY <1>4
  <2>3. QED
    BY <2>1, <2>2 DEF DraftRows
<1>8. drafts'[Fresh] = row
  BY <1>1, <1>4
<1>9. QED
  BY <1>1, <1>3, <1>6, <1>7, <1>8

\* A replacement keeps the table's invariant: the gate and the list speak for
\* the new row, and the new row is the live one.
LEMMA ReplacedStep ==
    ASSUME DraftsInv, HasRoom, UNCHANGED <<unlisted, opened>>,
           NEW old \in DraftIds \cup {NoDraft}, NEW copy \in Copies,
           NEW job \in Requests \cup {0}, NEW auto \in BOOLEAN,
           drafts' = Replaced(old, copy, job, auto),
           old # NoDraft => Exists(old), auto => opened, copy = "claim" => unlisted
    PROVE  DraftsInv' /\ \A d \in DraftIds : Exists(d) => Exists(d)'
<1> USE DEF DraftsInv
<1>1. /\ drafts' \in [DraftIds -> DraftRows]
      /\ Fresh \in DraftIds /\ ~Exists(Fresh)
      /\ drafts'[Fresh].status = (IF auto THEN "approved" ELSE "pending_approval")
      /\ drafts'[Fresh].next = NoDraft
      /\ drafts'[Fresh].copy = copy
      /\ \A d \in DraftIds \ {Fresh} :
            /\ drafts'[d].status = drafts[d].status
            /\ drafts'[d].copy = drafts[d].copy
            /\ drafts'[d].approved_by = drafts[d].approved_by
            /\ drafts'[d].next = (IF d = old THEN Fresh ELSE drafts[d].next)
  BY ReplacedFacts
<1> HIDE DEF Fresh
<1>2. \A d \in DraftIds : drafts'[d].status = "approved" =>
          drafts'[d].approved_by = "person" \/ opened'
  BY <1>1
<1>3. \A d \in DraftIds : drafts'[d].copy = "claim" => unlisted'
  BY <1>1
<1>4. ChainInv'
  <2>1. Fresh \in Live'
    BY <1>1 DEF Live, Exists, None
  <2>2. ASSUME NEW d \in DraftIds, drafts'[d].next # NoDraft
        PROVE  Exists(d)'
    <3>1. CASE d = old /\ d # Fresh
      BY <1>1, <3>1, DraftIdFacts DEF Exists
    <3>2. CASE d # old /\ d # Fresh
      BY <1>1, <2>2, <3>2 DEF ChainInv, Exists
    <3>3. QED
      BY <1>1, <2>2, <3>1, <3>2
  <2>3. QED
    BY <2>1, <2>2 DEF ChainInv
<1>5. \A d \in DraftIds : Exists(d) => Exists(d)'
  BY <1>1 DEF Exists
<1>6. QED
  BY <1>1, <1>2, <1>3, <1>4, <1>5

------------------------------------------------------------------------------
(* The steps *)

\* The initial state satisfies the invariant.
LEMMA ContentInit == Init => ContentInv
<1> SUFFICES ASSUME Init PROVE ContentInv
  OBVIOUS
<1>1. SettingsInv
  <2>1. changes \in 0..MaxChanges
    BY ContentAssumptions DEF Init
  <2>2. unlisted \in BOOLEAN /\ opened \in BOOLEAN
    BY Zenon DEF Init
  <2>3. (claims = "unset" => unlisted) /\ (approval = "false" => opened)
    BY Zenon DEF Init
  <2>4. QED
    BY <2>1, <2>2, <2>3 DEF Init, SettingsInv
<1>2. WorkersInv
  BY RestFacts DEF Init, WorkersInv
<1>3. TxInv
  BY RestFacts DEF Init, TxInv
<1>4. drafts \in [DraftIds -> DraftRows]
  BY DEF Init, DraftRows, Copies
<1>5. \A d \in DraftIds : /\ drafts[d].status = None /\ drafts[d].next = NoDraft
                          /\ drafts[d].copy = "plain"
  BY DEF Init
<1>6. DraftsInv
  BY <1>4, <1>5 DEF DraftsInv, ChainInv, Exists, None
<1>7. jobs \in [Requests -> JobRows]
  BY DEF Init, NoJob, JobRows, JobStatuses
<1>8. QED
  BY <1>1, <1>2, <1>3, <1>6, <1>7 DEF ContentInv

\* A step of one worker that writes no draft.
LEMMA WorkerMoves ==
    ASSUME ContentInv, NEW w \in Workers, NEW state \in WorkerStates,
           UNCHANGED <<drafts, claims, approval, changes, tx, unlisted, opened>>,
           jobs' \in [Requests -> JobRows],
           worker' = [worker EXCEPT ![w] = state],
           state.auto => opened,
           state.pc # "idle" => state.job \in Requests /\ (state.claims = "list" \/ unlisted),
           state.live # NoDraft => Exists(state.live)
    PROVE  ContentInv'
<1>1. SettingsInv' /\ TxInv' /\ DraftsInv'
  BY DEF ContentInv, SettingsInv, TxInv, DraftsInv, ChainInv, Exists, Live
<1>2. \A v \in Workers : worker'[v] = IF v = w THEN state ELSE worker[v]
  BY DEF ContentInv, WorkersInv
<1>3. worker' \in [Workers -> WorkerStates]
  BY DEF ContentInv, WorkersInv
<1>4. WorkersInv'
  BY <1>2, <1>3 DEF ContentInv, WorkersInv, Exists
<1>5. QED
  BY <1>1, <1>4 DEF ContentInv

\* Requests and the passage of time touch the job table only.
LEMMA JobSteps ==
    ASSUME ContentInv, NEW r \in Requests,
           \/ GenerateContentDraft(r) \/ BecomeStuck(r) \/ Reap
           \/ \E w \in Workers : StartWithMalformedClaims(w, r)
    PROVE  ContentInv'
<1>1. UNCHANGED <<drafts, claims, approval, changes, worker, tx, unlisted, opened>>
  BY DEF GenerateContentDraft, BecomeStuck, Reap, StartWithMalformedClaims
<1>2. SettingsInv' /\ WorkersInv' /\ TxInv' /\ DraftsInv'
  BY <1>1 DEF ContentInv, SettingsInv, WorkersInv, TxInv, DraftsInv, ChainInv, Exists, Live
<1>3. jobs \in [Requests -> JobRows]
  BY DEF ContentInv
<1>4. jobs' \in [Requests -> JobRows]
  <2>1. CASE GenerateContentDraft(r)
    BY <1>3, <2>1, JobFacts DEF GenerateContentDraft
  <2>2. CASE BecomeStuck(r)
    <3>1. [jobs[r] EXCEPT !.stuck = TRUE] \in JobRows
      BY <1>3 DEF JobRows
    <3>2. jobs' = [jobs EXCEPT ![r] = [jobs[r] EXCEPT !.stuck = TRUE]]
      BY <2>2 DEF BecomeStuck
    <3>3. QED
      BY <1>3, <3>1, <3>2
  <2>3. CASE Reap
    <3>1. \A q \in Requests : Failed(jobs[q], MaxAttempts) \in JobRows
      BY <1>3, JobFacts
    <3>2. QED
      BY <1>3, <2>3, <3>1 DEF Reap
  <2>4. CASE \E w \in Workers : StartWithMalformedClaims(w, r)
    <3>1. Failed(Claimed(jobs[r]), MaxAttempts) \in JobRows
      <4>1. Claimed(jobs[r]) \in JobRows
        BY <1>3, JobFacts
      <4>2. QED
        BY <4>1, JobFacts
    <3>2. jobs' = [jobs EXCEPT ![r] = Failed(Claimed(jobs[r]), MaxAttempts)]
      BY <2>4 DEF StartWithMalformedClaims
    <3>3. QED
      BY <1>3, <3>1, <3>2
  <2>5. QED
    BY <2>1, <2>2, <2>3, <2>4
<1>5. QED
  BY <1>2, <1>4 DEF ContentInv

\* Starting, with the list resolved.
LEMMA StartSteps ==
    ASSUME ContentInv, NEW w \in Workers, NEW r \in Requests,
           StartContentDraftGeneration(w, r)
    PROVE  ContentInv'
<1> DEFINE state == [Idle EXCEPT !.pc = "writing", !.job = r, !.claims = claims]
<1>1. /\ jobs' = [jobs EXCEPT ![r] = Claimed(jobs[r])]
      /\ worker' = [worker EXCEPT ![w] = state]
      /\ claims # "malformed"
      /\ UNCHANGED <<drafts, claims, approval, changes, tx, unlisted, opened>>
  BY DEF StartContentDraftGeneration, ClaimsResolve
<1>2. claims \in ClaimSettings /\ (claims = "list" \/ unlisted)
  BY <1>1 DEF ContentInv, SettingsInv, ClaimSettings
<1>3. /\ state \in WorkerStates /\ state.auto = FALSE /\ state.live = NoDraft
      /\ state.job = r /\ state.claims = claims
  BY <1>2 DEF Idle, WorkerStates
<1>4. jobs' \in [Requests -> JobRows]
  BY <1>1, JobFacts DEF ContentInv
<1> HIDE DEF state
<1>5. QED
  BY <1>1, <1>2, <1>3, <1>4, WorkerMoves

\* The run ends without a draft: the provider or the list refuses, the index
\* refuses, or the worker dies.
LEMMA EndSteps ==
    ASSUME ContentInv, NEW w \in Workers,
           \/ FailContentDraftGeneration(w) \/ CompleteWithViolation(w)
           \/ CompleteConflict(w) \/ Crash(w)
    PROVE  ContentInv'
<1>1. /\ worker' = [worker EXCEPT ![w] = Idle]
      /\ worker[w].pc # "idle"
      /\ UNCHANGED <<drafts, claims, approval, changes, tx, unlisted, opened>>
      /\ \/ jobs' = jobs
         \/ jobs' = [jobs EXCEPT ![worker[w].job] = Failed(jobs[worker[w].job], MaxAttempts)]
  BY DEF FailContentDraftGeneration, CompleteWithViolation, CompleteConflict, Crash
<1>2. worker[w].job \in Requests
  BY <1>1 DEF ContentInv, WorkersInv
<1>3. jobs' \in [Requests -> JobRows]
  BY <1>1, <1>2, JobFacts DEF ContentInv
<1>4. QED
  BY <1>1, <1>3, RestFacts, WorkerMoves

\* The completion reads a draft that exists and the gate as it is now.
LEMMA CompleteReadStep ==
    ASSUME ContentInv, NEW w \in Workers, CompleteRead(w)
    PROVE  ContentInv'
<1>1. PICK live \in IF Live = {} THEN {NoDraft} ELSE Live :
          worker' = [worker EXCEPT ![w].pc = "completing", ![w].live = live,
                                   ![w].auto = AutoApproves(approval)]
  BY DEF CompleteRead
<1>2. live \in DraftIds \cup {NoDraft} /\ (live # NoDraft => Exists(live))
  BY DEF Live
<1> DEFINE auto == AutoApproves(approval)
<1> DEFINE state == [worker[w] EXCEPT !.pc = "completing", !.live = live, !.auto = auto]
<1>3. auto \in BOOLEAN /\ (auto => opened)
  BY DEF AutoApproves, ContentInv, SettingsInv
<1>4. worker[w] \in WorkerStates
  BY DEF ContentInv, WorkersInv
<1>5. worker' = [worker EXCEPT ![w] = state]
  BY <1>1
<1> HIDE DEF auto
<1>6. /\ state \in WorkerStates /\ state.auto = auto /\ state.live = live
      /\ state.job = worker[w].job /\ state.claims = worker[w].claims
  BY <1>2, <1>3, <1>4 DEF WorkerStates
<1>7. worker[w].job \in Requests /\ (worker[w].claims = "list" \/ unlisted)
  BY DEF CompleteRead, ContentInv, WorkersInv
<1>8. /\ UNCHANGED <<drafts, claims, approval, changes, tx, unlisted, opened>>
      /\ jobs' \in [Requests -> JobRows]
  BY DEF CompleteRead, ContentInv
<1> HIDE DEF state
<1>9. QED
  BY <1>2, <1>3, <1>5, <1>6, <1>7, <1>8, WorkerMoves

\* The completion commits: the copy is held against the list the worker has.
LEMMA CompleteCommitStep ==
    ASSUME ContentInv, NEW w \in Workers, CompleteCommit(w)
    PROVE  ContentInv'
<1>1. PICK copy \in Copies :
          /\ CopyIsValid(copy, worker[w].claims)
          /\ drafts' = Replaced(worker[w].live, copy, worker[w].job, worker[w].auto)
  BY DEF CompleteCommit
<1>2. /\ worker[w].pc = "completing" /\ HasRoom
      /\ jobs' = [jobs EXCEPT ![worker[w].job] = Completed(jobs[worker[w].job])]
      /\ worker' = [worker EXCEPT ![w] = Idle]
      /\ UNCHANGED <<claims, approval, changes, tx, unlisted, opened>>
  BY DEF CompleteCommit
<1>3. /\ worker[w].live \in DraftIds \cup {NoDraft} /\ worker[w].auto \in BOOLEAN
      /\ worker[w].job \in Requests
      /\ worker[w].live # NoDraft => Exists(worker[w].live)
      /\ worker[w].auto => opened
      /\ copy = "claim" => unlisted
  BY <1>1, <1>2 DEF ContentInv, WorkersInv, WorkerStates, CopyIsValid
<1>4. DraftsInv' /\ \A d \in DraftIds : Exists(d) => Exists(d)'
  BY <1>1, <1>2, <1>3, ReplacedStep DEF ContentInv
<1>5. WorkersInv'
  <2>1. worker' \in [Workers -> WorkerStates]
    BY <1>2, RestFacts DEF ContentInv, WorkersInv
  <2>2. \A v \in Workers : worker'[v] = IF v = w THEN Idle ELSE worker[v]
    BY <1>2 DEF ContentInv, WorkersInv
  <2>3. \A v \in Workers : worker[v].live \in DraftIds \cup {NoDraft}
    BY DEF ContentInv, WorkersInv, WorkerStates
  <2>4. QED
    BY <1>2, <1>4, <2>1, <2>2, <2>3, RestFacts DEF ContentInv, WorkersInv
<1>6. TxInv'
  <2>1. \A p \in People : tx[p].draft \in DraftIds \cup {NoDraft}
    BY DEF ContentInv, TxInv, TxStates
  <2>2. QED
    BY <1>2, <1>4, <2>1 DEF ContentInv, TxInv
<1>7. SettingsInv' /\ jobs' \in [Requests -> JobRows]
  BY <1>2, <1>3, JobFacts DEF ContentInv, SettingsInv
<1>8. QED
  BY <1>4, <1>5, <1>6, <1>7 DEF ContentInv

\* A step of one person that writes no draft.
LEMMA PersonMoves ==
    ASSUME ContentInv, NEW p \in People, NEW state \in TxStates,
           UNCHANGED <<drafts, jobs, claims, approval, changes, worker, unlisted, opened>>,
           tx' = [tx EXCEPT ![p] = state],
           state.auto => opened, state.copy = "claim" => unlisted,
           state.draft # NoDraft => Exists(state.draft)
    PROVE  ContentInv'
<1>1. SettingsInv' /\ WorkersInv' /\ DraftsInv' /\ jobs' \in [Requests -> JobRows]
  BY DEF ContentInv, SettingsInv, WorkersInv, DraftsInv, ChainInv, Exists, Live
<1>2. \A q \in People : tx'[q] = IF q = p THEN state ELSE tx[q]
  BY DEF ContentInv, TxInv
<1>3. tx' \in [People -> TxStates]
  BY DEF ContentInv, TxInv
<1>4. TxInv'
  BY <1>2, <1>3 DEF ContentInv, TxInv, Exists
<1>5. QED
  BY <1>1, <1>4 DEF ContentInv

\* Reading a draft to edit or to review it, and losing an edit to the index.
LEMMA PersonReads ==
    ASSUME ContentInv, NEW p \in People, NEW d \in DraftIds,
           EditRead(p, d) \/ ReviewRead(p, d) \/ EditConflict(p)
    PROVE  ContentInv'
<1>1. CASE EditRead(p, d)
  <2>1. PICK copy \in Copies :
            /\ EditIsValid(copy)
            /\ tx' = [tx EXCEPT ![p] = [op |-> "edit", draft |-> d, copy |-> copy,
                                        auto |-> AutoApproves(approval)]]
    BY <1>1 DEF EditRead
  <2> DEFINE auto == AutoApproves(approval)
  <2> DEFINE state == [op |-> "edit", draft |-> d, copy |-> copy, auto |-> auto]
  <2>2. auto \in BOOLEAN /\ (auto => opened)
    BY DEF AutoApproves, ContentInv, SettingsInv
  <2> HIDE DEF auto
  <2>3. copy = "claim" => unlisted
    BY <2>1 DEF EditIsValid, CopyIsValid, ClaimsResolve, ContentInv, SettingsInv, ClaimSettings
  <2>4. state \in TxStates /\ state.auto = auto /\ state.copy = copy /\ state.draft = d
    BY <2>2 DEF TxStates
  <2>5. /\ tx' = [tx EXCEPT ![p] = state]
        /\ UNCHANGED <<drafts, jobs, claims, approval, changes, worker, unlisted, opened>>
        /\ Exists(d)
    BY <1>1, <2>1 DEF EditRead, Live, auto
  <2> HIDE DEF state
  <2>6. QED
    BY <2>2, <2>3, <2>4, <2>5, PersonMoves
<1>2. CASE ReviewRead(p, d)
  <2>1. PICK op \in {"approved", "rejected"} :
            tx' = [tx EXCEPT ![p] = [NoTx EXCEPT !.op = op, !.draft = d]]
    BY <1>2 DEF ReviewRead
  <2> DEFINE state == [NoTx EXCEPT !.op = op, !.draft = d]
  <2>2. /\ state \in TxStates /\ state.auto = FALSE /\ state.copy = "plain"
        /\ state.draft = d
    BY DEF NoTx, TxStates, Copies
  <2>3. /\ tx' = [tx EXCEPT ![p] = state]
        /\ UNCHANGED <<drafts, jobs, claims, approval, changes, worker, unlisted, opened>>
        /\ Exists(d)
    BY <1>2, <2>1 DEF ReviewRead, Reviewable, Exists, None
  <2> HIDE DEF state
  <2>4. QED
    BY <2>2, <2>3, PersonMoves
<1>3. CASE EditConflict(p)
  BY <1>3, RestFacts, PersonMoves DEF EditConflict
<1>4. QED
  BY <1>1, <1>2, <1>3

\* A step of one person that closes the transaction and loses no draft.
LEMMA PersonWrites ==
    ASSUME ContentInv, NEW p \in People,
           DraftsInv', \A d \in DraftIds : Exists(d) => Exists(d)',
           UNCHANGED <<jobs, claims, approval, changes, worker, unlisted, opened>>,
           tx' = [tx EXCEPT ![p] = NoTx]
    PROVE  ContentInv'
<1>1. \A q \in People : tx[q].draft \in DraftIds \cup {NoDraft}
  BY DEF ContentInv, TxInv, TxStates
<1>2. \A v \in Workers : worker[v].live \in DraftIds \cup {NoDraft}
  BY DEF ContentInv, WorkersInv, WorkerStates
<1>3. SettingsInv' /\ WorkersInv' /\ jobs' \in [Requests -> JobRows]
  BY <1>2 DEF ContentInv, SettingsInv, WorkersInv
<1>4. \A q \in People : tx'[q] = IF q = p THEN NoTx ELSE tx[q]
  BY DEF ContentInv, TxInv
<1>5. tx' \in [People -> TxStates]
  BY RestFacts DEF ContentInv, TxInv
<1>6. TxInv'
  BY <1>1, <1>4, <1>5, RestFacts DEF ContentInv, TxInv
<1>7. QED
  BY <1>3, <1>6 DEF ContentInv

\* What a review writes: the status and, for an approval, its author.
LEMMA ReviewFacts ==
    ASSUME ContentInv, NEW p \in People, ReviewCommit(p)
    PROVE  /\ drafts' \in [DraftIds -> DraftRows]
           /\ \A d \in DraftIds :
                 /\ drafts'[d].next = drafts[d].next
                 /\ drafts'[d].copy = drafts[d].copy
                 /\ drafts'[d].job = drafts[d].job
                 /\ \/ drafts'[d] = drafts[d]
                    \/ /\ d = tx[p].draft
                       /\ drafts'[d].status \in {"approved", "rejected"}
                       /\ drafts'[d].status = "approved" => drafts'[d].approved_by = "person"
<1> DEFINE e == tx[p].draft
<1> DEFINE by == IF tx[p].op = "approved" THEN "person" ELSE drafts[e].approved_by
<1>1. tx[p].op \in {"approved", "rejected"}
  BY DEF ReviewCommit
<1>2. drafts \in [DraftIds -> DraftRows]
  BY DEF ContentInv, DraftsInv
<1>3. drafts' = [drafts EXCEPT ![e] = [drafts[e] EXCEPT !.status = tx[p].op,
                                                          !.approved_by = by]]
  BY DEF ReviewCommit
<1>4. e \in DraftIds => by \in {None, "person", "setting"}
  BY <1>2 DEF DraftRows
<1>5. tx[p].op = "approved" => by = "person"
  OBVIOUS
<1> HIDE DEF e, by
<1>6. ASSUME NEW d \in DraftIds
      PROVE  /\ drafts'[d] \in DraftRows
             /\ drafts'[d].next = drafts[d].next
             /\ drafts'[d].copy = drafts[d].copy
             /\ drafts'[d].job = drafts[d].job
             /\ \/ drafts'[d] = drafts[d]
                \/ /\ d = tx[p].draft
                   /\ drafts'[d].status \in {"approved", "rejected"}
                   /\ drafts'[d].status = "approved" => drafts'[d].approved_by = "person"
  <2>1. drafts[d] \in DraftRows
    BY <1>2
  <2>2. CASE d = e
    <3>1. drafts'[d] = [drafts[d] EXCEPT !.status = tx[p].op, !.approved_by = by]
      BY <1>2, <1>3, <2>2
    <3>2. QED
      BY <1>1, <1>4, <1>5, <2>1, <2>2, <3>1 DEF DraftRows, DraftStatuses, e
  <2>3. CASE d # e
    BY <1>2, <1>3, <2>1, <2>3
  <2>4. QED
    BY <2>2, <2>3
<1>7. drafts' \in [DraftIds -> DraftRows]
  BY <1>2, <1>3, <1>6
<1>8. QED
  BY <1>6, <1>7

\* Committing an edit or a review.
LEMMA PersonCommits ==
    ASSUME ContentInv, NEW p \in People, EditCommit(p) \/ ReviewCommit(p)
    PROVE  ContentInv'
<1>1. CASE EditCommit(p)
  <2>1. /\ drafts' = Replaced(tx[p].draft, tx[p].copy, 0, tx[p].auto)
        /\ HasRoom /\ tx' = [tx EXCEPT ![p] = NoTx]
        /\ UNCHANGED <<jobs, claims, approval, changes, worker, unlisted, opened>>
    BY <1>1 DEF EditCommit
  <2>2. /\ tx[p].draft \in DraftIds \cup {NoDraft} /\ tx[p].auto \in BOOLEAN
        /\ tx[p].copy \in Copies
        /\ tx[p].draft # NoDraft => Exists(tx[p].draft)
        /\ tx[p].auto => opened
        /\ tx[p].copy = "claim" => unlisted
    BY DEF ContentInv, TxInv, TxStates
  <2>3. DraftsInv' /\ \A d \in DraftIds : Exists(d) => Exists(d)'
    BY <2>1, <2>2, ReplacedStep DEF ContentInv
  <2>4. QED
    BY <2>1, <2>3, PersonWrites
<1>2. CASE ReviewCommit(p)
  <2>1. /\ drafts' \in [DraftIds -> DraftRows]
        /\ \A d \in DraftIds :
              /\ drafts'[d].next = drafts[d].next
              /\ drafts'[d].copy = drafts[d].copy
              /\ \/ drafts'[d] = drafts[d]
                 \/ /\ d = tx[p].draft
                    /\ drafts'[d].status \in {"approved", "rejected"}
                    /\ drafts'[d].status = "approved" => drafts'[d].approved_by = "person"
    BY <1>2, ReviewFacts
  <2>2. /\ tx' = [tx EXCEPT ![p] = NoTx]
        /\ UNCHANGED <<jobs, claims, approval, changes, worker, unlisted, opened>>
    BY <1>2 DEF ReviewCommit
  <2>3. \A d \in DraftIds : Exists(d) => Exists(d)'
    BY <2>1 DEF Exists, None
  <2>4. \A d \in DraftIds : Exists(d)' => Exists(d)
    <3>1. tx[p].draft # NoDraft => Exists(tx[p].draft)
      BY DEF ContentInv, TxInv
    <3>2. QED
      BY <2>1, <3>1, DraftIdFacts DEF Exists
  <2>5. ChainInv'
    <3>1. Live' = Live
      BY <2>1, <2>3, <2>4 DEF Live
    <3>2. QED
      BY <2>1, <2>3, <2>4, <3>1 DEF ContentInv, DraftsInv, ChainInv
  <2>6. DraftsInv'
    BY <2>1, <2>2, <2>5 DEF ContentInv, DraftsInv
  <2>7. QED
    BY <2>2, <2>3, <2>6, PersonWrites
<1>3. QED
  BY <1>1, <1>2

\* A change of a setting is remembered by the flags.
LEMMA ChangeSettingStep ==
    ASSUME ContentInv, ChangeSetting
    PROVE  ContentInv'
<1>1. /\ claims' \in ClaimSettings /\ approval' \in ApprovalSettings
      /\ changes' \in 0..MaxChanges
  <2>1. changes < MaxChanges /\ changes' = changes + 1
    BY DEF ChangeSetting
  <2>2. changes' \in 0..MaxChanges
    BY <2>1, ContentAssumptions DEF ContentInv, SettingsInv
  <2>3. QED
    BY <2>2 DEF ChangeSetting, ContentInv, SettingsInv
<1>2. /\ unlisted' \in BOOLEAN /\ opened' \in BOOLEAN
      /\ claims' = "unset" => unlisted'
      /\ approval' = "false" => opened'
      /\ unlisted => unlisted'
      /\ opened => opened'
  BY Zenon DEF ChangeSetting
<1>3. UNCHANGED <<drafts, jobs, worker, tx>>
  BY DEF ChangeSetting
<1>4. SettingsInv'
  BY <1>1, <1>2 DEF SettingsInv
<1>5. WorkersInv' /\ TxInv'
  BY <1>2, <1>3 DEF ContentInv, WorkersInv, TxInv, Exists
<1>6. ChainInv'
  BY <1>3 DEF ContentInv, DraftsInv, ChainInv, Exists, Live
<1>7. DraftsInv'
  BY <1>2, <1>3, <1>6 DEF ContentInv, DraftsInv
<1>8. QED
  BY <1>3, <1>4, <1>5, <1>7 DEF ContentInv

\* Every step preserves the invariant.
LEMMA ContentStep == ContentInv /\ [Next]_vars => ContentInv'
<1> SUFFICES ASSUME ContentInv, [Next]_vars PROVE ContentInv'
  OBVIOUS
<1>1. CASE UNCHANGED vars
  BY <1>1 DEF vars, ContentInv, SettingsInv, WorkersInv, TxInv, DraftsInv, ChainInv,
              Exists, Live
<1>2. ASSUME NEW r \in Requests, GenerateContentDraft(r) \/ BecomeStuck(r)
      PROVE  ContentInv'
  BY <1>2, JobSteps
<1>3. ASSUME NEW w \in Workers, NEW r \in Requests, StartStep(w, r)
      PROVE  ContentInv'
  BY <1>3, JobSteps, StartSteps DEF StartStep
<1>4. ASSUME NEW w \in Workers, WorkerStep(w) \/ Crash(w)
      PROVE  ContentInv'
  BY <1>4, EndSteps, CompleteReadStep, CompleteCommitStep DEF WorkerStep
<1>5. ASSUME NEW p \in People, PersonStep(p)
      PROVE  ContentInv'
  <2>1. CASE \E d \in DraftIds : EditRead(p, d) \/ ReviewRead(p, d)
    BY <2>1, PersonReads
  <2>2. CASE EditConflict(p)
    BY <2>2, RestFacts, PersonMoves DEF EditConflict
  <2>3. CASE EditCommit(p) \/ ReviewCommit(p)
    BY <2>3, PersonCommits
  <2>4. QED
    BY <1>5, <2>1, <2>2, <2>3 DEF PersonStep
<1>6. CASE Reap
  <2>1. PICK r \in Requests : Reapable(jobs[r])
    BY <1>6 DEF Reap
  <2>2. QED
    BY <1>6, <2>1, JobSteps
<1>7. QED
  BY <1>1, <1>2, <1>3, <1>4, <1>5, <1>6, ChangeSettingStep DEF Next

\* The invariant of the module holds in every behaviour.
THEOREM ContentInvariant == Spec => []ContentInv
  BY ContentInit, ContentStep, PTL DEF Spec

\* Every variable keeps its type.
THEOREM TypeCorrect == Spec => []TypeOK
<1>1. ContentInv => TypeOK
  BY DEF ContentInv, SettingsInv, WorkersInv, TxInv, DraftsInv, TypeOK
<1>2. QED
  BY <1>1, ContentInvariant, PTL

\* The approval gate fails closed: a worker or an editor that read an unset or
\* malformed approval.required never approves on its own, whenever it commits.
THEOREM GateStaysClosed == Spec => []GateFailsClosed
<1>1. ContentInv => GateFailsClosed
  BY DEF ContentInv, DraftsInv, GateFailsClosed
<1>2. QED
  BY <1>1, ContentInvariant, PTL

\* The brand rule: while the list of forbidden claims was never removed, no
\* draft in the table contains one, whatever list its writer had resolved.
THEOREM ClaimsStayOut == Spec => []ForbiddenClaimsKeptOut
<1>1. ContentInv => ForbiddenClaimsKeptOut
  BY DEF ContentInv, DraftsInv, ForbiddenClaimsKeptOut
<1>2. QED
  BY <1>1, ContentInvariant, PTL

------------------------------------------------------------------------------
(* Superseded for good *)

\* Where the index admits a replacement, the row replaced was not superseded.
LEMMA ReplacedIsLive ==
    ASSUME ContentInv, HasRoom, NEW old \in DraftIds \cup {NoDraft}, NEW copy \in Copies,
           NEW job \in Requests \cup {0}, NEW auto \in BOOLEAN,
           IndexAdmits(old), drafts' = Replaced(old, copy, job, auto),
           NEW d \in DraftIds, drafts[d].next # NoDraft
    PROVE  drafts'[d].next = drafts[d].next
<1>1. /\ Fresh \in DraftIds /\ ~Exists(Fresh)
      /\ \A e \in DraftIds \ {Fresh} :
            drafts'[e].next = (IF e = old THEN Fresh ELSE drafts[e].next)
  BY ReplacedFacts DEF ContentInv, DraftsInv
<1>2. Exists(d) /\ Live # {}
  BY DEF ContentInv, DraftsInv, ChainInv
<1>3. d \notin Live
  BY DEF Live
<1>4. d # old
  BY <1>2, <1>3 DEF IndexAdmits
<1>5. QED
  BY <1>1, <1>2, <1>4

\* A superseded draft keeps its successor, whoever reviews it late and however
\* completions and edits race: only a live row is ever superseded.
THEOREM SupersededStays == Spec => SupersededForGood
<1> DEFINE Kept == \A d \in DraftIds :
                      drafts[d].next # NoDraft => drafts'[d].next = drafts[d].next
<1>1. ContentInv /\ [Next]_vars => [Kept]_vars
  <2> SUFFICES ASSUME ContentInv, Next, NEW d \in DraftIds, drafts[d].next # NoDraft
               PROVE  drafts'[d].next = drafts[d].next
    OBVIOUS
  <2>1. CASE drafts' = drafts
    BY <2>1
  <2>2. ASSUME NEW w \in Workers, CompleteCommit(w)
        PROVE  drafts'[d].next = drafts[d].next
    <3>1. PICK copy \in Copies :
              drafts' = Replaced(worker[w].live, copy, worker[w].job, worker[w].auto)
      BY <2>2 DEF CompleteCommit
    <3>2. HasRoom /\ IndexAdmits(worker[w].live) /\ worker[w].pc = "completing"
      BY <2>2 DEF CompleteCommit
    <3>3. /\ worker[w].live \in DraftIds \cup {NoDraft} /\ worker[w].auto \in BOOLEAN
          /\ worker[w].job \in Requests
      BY <3>2 DEF ContentInv, WorkersInv, WorkerStates
    <3>4. QED
      BY <3>1, <3>2, <3>3, ReplacedIsLive
  <2>3. ASSUME NEW p \in People, EditCommit(p)
        PROVE  drafts'[d].next = drafts[d].next
    <3>1. /\ drafts' = Replaced(tx[p].draft, tx[p].copy, 0, tx[p].auto)
          /\ HasRoom /\ IndexAdmits(tx[p].draft)
      BY <2>3 DEF EditCommit
    <3>2. /\ tx[p].draft \in DraftIds \cup {NoDraft} /\ tx[p].auto \in BOOLEAN
          /\ tx[p].copy \in Copies
      BY DEF ContentInv, TxInv, TxStates
    <3>3. QED
      BY <3>1, <3>2, ReplacedIsLive
  <2>4. ASSUME NEW p \in People, ReviewCommit(p)
        PROVE  drafts'[d].next = drafts[d].next
    BY <2>4, ReviewFacts
  <2>5. \/ drafts' = drafts
        \/ \E w \in Workers : CompleteCommit(w)
        \/ \E p \in People : EditCommit(p) \/ ReviewCommit(p)
    BY DEF Next, GenerateContentDraft, BecomeStuck, StartStep, StartContentDraftGeneration,
           StartWithMalformedClaims, WorkerStep, FailContentDraftGeneration,
           CompleteWithViolation, CompleteRead, CompleteConflict, Crash, PersonStep,
           EditRead, ReviewRead, EditConflict, ChangeSetting, Reap
  <2>6. QED
    BY <2>1, <2>2, <2>3, <2>4, <2>5
<1>2. QED
  BY <1>1, ContentInvariant, PTL DEF Spec, SupersededForGood

------------------------------------------------------------------------------
(* One draft per request *)

\* While no live worker outlasts the threshold: a worker's job is running and
\* its alone, and a request with a draft has succeeded, so that no worker will
\* have it again.
RequestInv ==
    /\ \A w \in Workers : worker[w].pc # "idle" =>
          jobs[worker[w].job].status = "running" /\ ~jobs[worker[w].job].stuck
    /\ \A v, w \in Workers :
          worker[v].pc # "idle" /\ worker[w].pc # "idle" /\ worker[v].job = worker[w].job => v = w
    /\ \A d \in DraftIds : drafts[d].job # 0 => jobs[drafts[d].job].status = "succeeded"
    /\ OneDraftPerRequest

\* A step that writes no draft, gives no worker a job and leaves alone the jobs
\* that a worker has or that succeeded.
LEMMA RequestQuiet ==
    ASSUME RequestInv,
           \A d \in DraftIds : drafts'[d].job = drafts[d].job,
           \A w \in Workers : worker'[w].pc # "idle" =>
              worker[w].pc # "idle" /\ worker'[w].job = worker[w].job,
           \A w \in Workers : worker'[w].pc # "idle" =>
              /\ jobs'[worker[w].job].status = "running"
              /\ ~jobs'[worker[w].job].stuck,
           \A d \in DraftIds : drafts[d].job # 0 => jobs'[drafts[d].job].status = "succeeded"
    PROVE  RequestInv'
  BY DEF RequestInv, OneDraftPerRequest

\* The steps that touch the job table only.
LEMMA RequestJobSteps ==
    ASSUME ContentInv, RequestInv, ~SlowWorkers, NEW r \in Requests,
           \/ GenerateContentDraft(r) \/ BecomeStuck(r) \/ Reap
           \/ \E w \in Workers : StartWithMalformedClaims(w, r)
    PROVE  RequestInv'
<1>1. UNCHANGED <<drafts, worker>>
  BY DEF GenerateContentDraft, BecomeStuck, Reap, StartWithMalformedClaims
<1>2. jobs \in [Requests -> JobRows]
  BY DEF ContentInv
<1>3. \A w \in Workers : worker[w].pc # "idle" => worker[w].job \in Requests
  BY DEF ContentInv, WorkersInv
<1>4. \A d \in DraftIds : drafts[d].job # 0 => drafts[d].job \in Requests
  BY DEF ContentInv, DraftsInv, DraftRows
<1>5. ASSUME NEW q \in Requests,
             \/ jobs[q].status = "running" /\ ~jobs[q].stuck /\ \E w \in Workers : WorksOn(w, q)
             \/ jobs[q].status = "succeeded"
      PROVE  jobs'[q].status = jobs[q].status /\ (jobs'[q].stuck => jobs[q].stuck)
  <2>1. CASE GenerateContentDraft(r)
    BY <1>2, <1>5, <2>1 DEF GenerateContentDraft, NoJob
  <2>2. CASE BecomeStuck(r)
    BY <1>2, <1>5, <2>2 DEF BecomeStuck, JobRows
  <2>3. CASE Reap
    BY <1>2, <1>5, <2>3 DEF Reap, Reapable
  <2>4. CASE \E w \in Workers : StartWithMalformedClaims(w, r)
    BY <1>2, <1>5, <2>4 DEF StartWithMalformedClaims
  <2>5. QED
    BY <2>1, <2>2, <2>3, <2>4
<1>6. \A w \in Workers : worker[w].pc # "idle" =>
          jobs'[worker[w].job].status = "running" /\ ~jobs'[worker[w].job].stuck
  BY <1>3, <1>5 DEF RequestInv, WorksOn
<1>7. \A d \in DraftIds : drafts[d].job # 0 => jobs'[drafts[d].job].status = "succeeded"
  BY <1>4, <1>5 DEF RequestInv
<1>8. QED
  BY <1>1, <1>6, <1>7, RequestQuiet

\* The claim takes a pending job, which no worker has and no draft was made for.
LEMMA RequestStart ==
    ASSUME ContentInv, RequestInv, NEW w \in Workers, NEW r \in Requests,
           StartContentDraftGeneration(w, r)
    PROVE  RequestInv'
<1> DEFINE state == [Idle EXCEPT !.pc = "writing", !.job = r, !.claims = claims]
<1>1. /\ jobs' = [jobs EXCEPT ![r] = Claimed(jobs[r])] /\ jobs[r].status = "pending"
      /\ worker' = [worker EXCEPT ![w] = state]
      /\ drafts' = drafts
  BY DEF StartContentDraftGeneration
<1>2. state.job = r
  BY DEF Idle
<1> HIDE DEF state
<1>3. \A v \in Workers : worker'[v] = IF v = w THEN state ELSE worker[v]
  BY <1>1 DEF ContentInv, WorkersInv
<1>4. /\ jobs \in [Requests -> JobRows]
      /\ jobs'[r].status = "running" /\ ~jobs'[r].stuck
      /\ \A q \in Requests \ {r} : jobs'[q] = jobs[q]
  BY <1>1, JobFacts DEF ContentInv
<1>5. \A v \in Workers : worker[v].pc # "idle" =>
          worker[v].job \in Requests /\ worker[v].job # r
  BY <1>1 DEF ContentInv, WorkersInv, RequestInv
<1>6. \A d \in DraftIds : drafts[d].job # 0 => drafts[d].job \in Requests /\ drafts[d].job # r
  BY <1>1 DEF ContentInv, DraftsInv, DraftRows, RequestInv
<1>7. \A v \in Workers : worker'[v].pc # "idle" =>
          jobs'[worker'[v].job].status = "running" /\ ~jobs'[worker'[v].job].stuck
  BY <1>2, <1>3, <1>4, <1>5 DEF RequestInv
<1>8. \A u, v \in Workers :
          worker'[u].pc # "idle" /\ worker'[v].pc # "idle" /\ worker'[u].job = worker'[v].job
             => u = v
  BY <1>2, <1>3, <1>5 DEF RequestInv
<1>9. \A d \in DraftIds : drafts'[d].job # 0 => jobs'[drafts'[d].job].status = "succeeded"
  BY <1>1, <1>4, <1>6 DEF RequestInv
<1>10. OneDraftPerRequest'
  BY <1>1 DEF RequestInv, OneDraftPerRequest
<1>11. QED
  BY <1>7, <1>8, <1>9, <1>10 DEF RequestInv

\* A run that ends without a draft leaves its job to nobody.
LEMMA RequestEnd ==
    ASSUME ContentInv, RequestInv, NEW w \in Workers,
           \/ FailContentDraftGeneration(w) \/ CompleteWithViolation(w)
           \/ CompleteConflict(w) \/ Crash(w) \/ CompleteRead(w)
    PROVE  RequestInv'
<1>1. /\ drafts' = drafts /\ worker[w].pc # "idle"
      /\ \/ jobs' = jobs
         \/ /\ jobs' = [jobs EXCEPT ![worker[w].job] = Failed(jobs[worker[w].job], MaxAttempts)]
            /\ worker' = [worker EXCEPT ![w] = Idle]
  BY DEF FailContentDraftGeneration, CompleteWithViolation, CompleteConflict, Crash,
         CompleteRead
<1>2. \A v \in Workers : worker'[v].pc # "idle" =>
          worker[v].pc # "idle" /\ worker'[v].job = worker[v].job
  <2>1. worker \in [Workers -> WorkerStates]
    BY DEF ContentInv, WorkersInv
  <2>2. CASE worker' = [worker EXCEPT ![w] = Idle]
    BY <2>1, <2>2, RestFacts
  <2>3. CASE CompleteRead(w)
    <3>1. PICK live \in IF Live = {} THEN {NoDraft} ELSE Live :
              worker' = [worker EXCEPT ![w].pc = "completing", ![w].live = live,
                                       ![w].auto = AutoApproves(approval)]
      BY <2>3 DEF CompleteRead
    <3>2. QED
      BY <1>1, <2>1, <3>1 DEF WorkerStates
  <2>4. QED
    BY <2>2, <2>3 DEF FailContentDraftGeneration, CompleteWithViolation, CompleteConflict, Crash
<1>3. \A v \in Workers : worker[v].pc # "idle" => worker[v].job \in Requests
  BY DEF ContentInv, WorkersInv
<1>4. \A v \in Workers : worker'[v].pc # "idle" =>
          jobs'[worker[v].job].status = "running" /\ ~jobs'[worker[v].job].stuck
  <2>1. CASE jobs' = jobs
    BY <1>2, <2>1 DEF RequestInv
  <2>2. CASE /\ jobs' = [jobs EXCEPT ![worker[w].job] = Failed(jobs[worker[w].job], MaxAttempts)]
             /\ worker' = [worker EXCEPT ![w] = Idle]
    <3>1. \A v \in Workers : worker'[v].pc # "idle" => v # w
      BY <2>2, RestFacts DEF ContentInv, WorkersInv
    <3>2. QED
      BY <1>1, <1>2, <1>3, <2>2, <3>1 DEF RequestInv, ContentInv
  <2>3. QED
    BY <1>1, <2>1, <2>2
<1>5. \A d \in DraftIds : drafts[d].job # 0 => jobs'[drafts[d].job].status = "succeeded"
  <2>1. \A d \in DraftIds : drafts[d].job # 0 => drafts[d].job \in Requests
    BY DEF ContentInv, DraftsInv, DraftRows
  <2>2. jobs[worker[w].job].status = "running"
    BY <1>1 DEF RequestInv
  <2>3. QED
    BY <1>1, <2>1, <2>2 DEF RequestInv, ContentInv
<1>6. QED
  BY <1>1, <1>2, <1>4, <1>5, RequestQuiet

\* The draft and the completion of its job are one transaction.
LEMMA RequestCommit ==
    ASSUME ContentInv, RequestInv, NEW w \in Workers, CompleteCommit(w)
    PROVE  RequestInv'
<1> DEFINE r == worker[w].job
<1>1. PICK copy \in Copies : drafts' = Replaced(worker[w].live, copy, r, worker[w].auto)
  BY DEF CompleteCommit
<1>2. /\ worker[w].pc = "completing" /\ HasRoom
      /\ jobs' = [jobs EXCEPT ![r] = Completed(jobs[r])]
      /\ worker' = [worker EXCEPT ![w] = Idle]
  BY DEF CompleteCommit
<1>3. /\ worker[w].live \in DraftIds \cup {NoDraft} /\ worker[w].auto \in BOOLEAN
      /\ r \in Requests
  BY <1>2 DEF ContentInv, WorkersInv, WorkerStates
<1>4. /\ Fresh \in DraftIds /\ drafts'[Fresh].job = r
      /\ \A d \in DraftIds \ {Fresh} : drafts'[d].job = drafts[d].job
  BY <1>1, <1>2, <1>3, ReplacedFacts DEF ContentInv, DraftsInv
<1>5. /\ jobs'[r].status = "succeeded"
      /\ \A q \in Requests \ {r} : jobs'[q] = jobs[q]
  BY <1>2, <1>3, JobFacts DEF ContentInv
<1>6. jobs[r].status = "running"
  BY <1>2 DEF RequestInv
<1>7. \A v \in Workers : worker'[v].pc # "idle" =>
          /\ v # w /\ worker'[v] = worker[v]
          /\ worker[v].job \in Requests /\ worker[v].job # r
  BY <1>2, RestFacts DEF ContentInv, WorkersInv, RequestInv
<1>8. \A d \in DraftIds : drafts[d].job # 0 => drafts[d].job \in Requests /\ drafts[d].job # r
  BY <1>6 DEF ContentInv, DraftsInv, DraftRows, RequestInv
<1> HIDE DEF r
<1>9. \A v \in Workers : worker'[v].pc # "idle" =>
          jobs'[worker'[v].job].status = "running" /\ ~jobs'[worker'[v].job].stuck
  BY <1>5, <1>7 DEF RequestInv
<1>10. \A u, v \in Workers :
          worker'[u].pc # "idle" /\ worker'[v].pc # "idle" /\ worker'[u].job = worker'[v].job
             => u = v
  BY <1>7 DEF RequestInv
<1>11. \A d \in DraftIds : drafts'[d].job # 0 => jobs'[drafts'[d].job].status = "succeeded"
  BY <1>4, <1>5, <1>8 DEF RequestInv
<1>12. OneDraftPerRequest'
  BY <1>4, <1>8 DEF RequestInv, OneDraftPerRequest
<1>13. QED
  BY <1>9, <1>10, <1>11, <1>12 DEF RequestInv

\* People write no draft for a request.
LEMMA RequestPeople ==
    ASSUME ContentInv, RequestInv, NEW p \in People, PersonStep(p)
    PROVE  RequestInv'
<1>1. UNCHANGED <<jobs, worker>>
  BY DEF PersonStep, EditRead, ReviewRead, EditCommit, EditConflict, ReviewCommit
<1>2. CASE \A d \in DraftIds : drafts'[d].job = drafts[d].job
  BY <1>1, <1>2, RequestQuiet DEF RequestInv
<1>3. CASE EditCommit(p)
  <2>1. drafts' = Replaced(tx[p].draft, tx[p].copy, 0, tx[p].auto) /\ HasRoom
    BY <1>3 DEF EditCommit
  <2>2. /\ tx[p].draft \in DraftIds \cup {NoDraft} /\ tx[p].auto \in BOOLEAN
        /\ tx[p].copy \in Copies
    BY DEF ContentInv, TxInv, TxStates
  <2>3. /\ Fresh \in DraftIds /\ drafts'[Fresh].job = 0
        /\ \A d \in DraftIds \ {Fresh} : drafts'[d].job = drafts[d].job
    <3>1. 0 \in Requests \cup {0} /\ drafts \in [DraftIds -> DraftRows]
      BY DEF ContentInv, DraftsInv
    <3>2. QED
      BY <2>1, <2>2, <3>1, ReplacedFacts
  <2>4. QED
    BY <1>1, <2>3 DEF RequestInv, OneDraftPerRequest
<1>4. CASE ReviewCommit(p)
  BY <1>2, <1>4, ReviewFacts
<1>5. \/ drafts' = drafts \/ EditCommit(p) \/ ReviewCommit(p)
  BY DEF PersonStep, EditRead, ReviewRead, EditConflict
<1>6. QED
  BY <1>2, <1>3, <1>4, <1>5

\* Every step preserves the invariant.
LEMMA RequestStep ==
    ~SlowWorkers /\ ContentInv /\ RequestInv /\ [Next]_vars => RequestInv'
<1> SUFFICES ASSUME ~SlowWorkers, ContentInv, RequestInv, [Next]_vars PROVE RequestInv'
  OBVIOUS
<1>1. CASE UNCHANGED <<drafts, jobs, worker>>
  BY <1>1 DEF RequestInv, OneDraftPerRequest
<1>2. CASE ChangeSetting \/ UNCHANGED vars
  BY <1>1, <1>2 DEF ChangeSetting, vars
<1>3. CASE Reap
  <2>1. PICK r \in Requests : Reapable(jobs[r])
    BY <1>3 DEF Reap
  <2>2. QED
    BY <1>3, <2>1, RequestJobSteps
<1>4. QED
  BY <1>2, <1>3, RequestJobSteps, RequestStart, RequestEnd, RequestCommit, RequestPeople
  DEF Next, StartStep, WorkerStep

\* A request yields one draft at most, whatever crashes, conflicts and retries
\* its job goes through: the row and the completion commit together, and a job
\* that succeeded is never claimed again.
THEOREM OneDraft == ~SlowWorkers /\ Spec => []OneDraftPerRequest
<1>1. Init => RequestInv
  BY RestFacts DEF Init, RequestInv, OneDraftPerRequest
<1>2. RequestInv => OneDraftPerRequest
  BY DEF RequestInv
<1>3. CASE ~SlowWorkers
  <2>1. ContentInv /\ RequestInv /\ [Next]_vars => RequestInv'
    BY <1>3, RequestStep
  <2>2. QED
    BY <1>1, <1>2, <2>1, ContentInvariant, PTL DEF Spec
<1>4. CASE SlowWorkers
  BY <1>4
<1>5. QED
  BY <1>3, <1>4
=============================================================================
