--------------------------- MODULE ContentDrafts ---------------------------
(***************************************************************************)
(* Marketing copy for one (variant, channel, locale) (decision D23): the   *)
(* copywriting worker (agents/copywriting.py), manual editing, approval,   *)
(* and the two settings both of them obey, content.forbidden_claims and    *)
(* approval.required.                                                      *)
(*                                                                         *)
(* A draft is never edited in place: a regeneration or an edit supersedes  *)
(* the live row and inserts a new one.  Completing, editing and reviewing  *)
(* read rows without locks and write them back later, so their read and    *)
(* their commit are separate steps; an UPDATE writes the columns that were *)
(* changed and no others.  The outbox event of a request appears as the    *)
(* pending job the relay makes of it.                                      *)
(***************************************************************************)
EXTENDS JobQueue, FiniteSets

CONSTANTS
    MaxEdits,       \* bound: edits
    MaxRequests,    \* bound: generation requests
    Workers,        \* copywriting workers
    People,         \* editors and approvers
    MaxAttempts,    \* max_attempts of a job
    MaxChanges,     \* bound: changes of the settings
    SlowWorkers,    \* may a live worker outlast STUCK_JOB_THRESHOLD?
    Crashes         \* may a worker die between two steps?

ASSUME ContentAssumptions ==
    /\ MaxEdits \in Nat /\ MaxRequests \in Nat /\ MaxChanges \in Nat
    /\ MaxAttempts \in Nat \ {0}
    /\ SlowWorkers \in BOOLEAN /\ Crashes \in BOOLEAN

DraftIds == 1..(MaxEdits + MaxRequests * MaxAttempts)
Requests == 1..MaxRequests
NoDraft == 0
None == "none"

DraftStatuses == {"pending_approval", "approved", "rejected"}
Copies == {"plain", "claim"}    \* does the text contain a forbidden claim?

\* content_drafts.  next is superseded_by, job the request it was made for (0
\* for an edit), approved_by says whether a person or the setting approved it.
DraftRows == [status: DraftStatuses \cup {None},
              next: DraftIds \cup {NoDraft},
              copy: Copies,
              job: Requests \cup {0},
              approved_by: {None, "person", "setting"}]

\* The resolved values of the two settings.
ClaimSettings == {"unset", "list", "malformed"}
ApprovalSettings == {"unset", "true", "false"}

VARIABLES
    drafts,     \* content_drafts of this variant, channel and locale
    jobs,       \* task_queue_jobs of type content_draft.generate_requested
    claims,     \* content.forbidden_claims
    approval,   \* approval.required
    changes,    \* number of changes of the settings (bounds the model)
    worker,     \* what each worker is doing
    tx,         \* the open transaction of each person
    unlisted,   \* was content.forbidden_claims ever unset? (history)
    opened      \* was approval.required ever false? (history)

vars == <<drafts, jobs, claims, approval, changes, worker, tx, unlisted, opened>>

\* pc: writing = provider call, with the claims resolved at the start;
\* completing = complete transaction open, having read the live draft and the
\* approval setting.
WorkerStates == [pc: {"idle", "writing", "completing"},
                 job: Requests \cup {0},
                 claims: ClaimSettings,
                 live: DraftIds \cup {NoDraft},
                 auto: BOOLEAN]
Idle == [pc |-> "idle", job |-> 0, claims |-> "unset", live |-> NoDraft, auto |-> FALSE]

\* op: edit = replace `draft' by a row with `copy'; approved and rejected = the
\* status to write.
TxStates == [op: {None, "edit", "approved", "rejected"},
             draft: DraftIds \cup {NoDraft},
             copy: Copies,
             auto: BOOLEAN]
NoTx == [op |-> None, draft |-> NoDraft, copy |-> "plain", auto |-> FALSE]

TypeOK ==
    /\ drafts \in [DraftIds -> DraftRows]
    /\ jobs \in [Requests -> JobRows]
    /\ claims \in ClaimSettings
    /\ approval \in ApprovalSettings
    /\ changes \in 0..MaxChanges
    /\ worker \in [Workers -> WorkerStates]
    /\ tx \in [People -> TxStates]
    /\ unlisted \in BOOLEAN
    /\ opened \in BOOLEAN

Init ==
    /\ drafts = [d \in DraftIds |-> [status |-> None, next |-> NoDraft, copy |-> "plain",
                                     job |-> 0, approved_by |-> None]]
    /\ jobs = [r \in Requests |-> NoJob]
    /\ claims \in ClaimSettings
    /\ approval \in ApprovalSettings
    /\ changes = 0
    /\ worker = [w \in Workers |-> Idle]
    /\ tx = [p \in People |-> NoTx]
    /\ unlisted = (claims = "unset")
    /\ opened = (approval = "false")

------------------------------------------------------------------------------
(* Rows *)

Exists(d) == drafts[d].status # None

\* SqlContentDraftRepository.get_live: superseded_by IS NULL.
Live == {d \in DraftIds : Exists(d) /\ drafts[d].next = NoDraft}

\* Bound: an INSERT finds an unused id (every execution of a job and every edit
\* makes one row at most, so there always is one).
HasRoom == \E d \in DraftIds : ~Exists(d)

\* The row the next INSERT makes.
Fresh == CHOOSE d \in DraftIds : ~Exists(d)

\* The live-row index admits a new live row once `old' is superseded.
IndexAdmits(old) == Live \subseteq {old}

\* mark_superseded on the row that was read (if any), then the INSERT.  The
\* new row is pending_approval, or approved by the setting.
Replaced(old, copy, job, auto) ==
    [d \in DraftIds |->
        CASE d = Fresh -> [status |-> IF auto THEN "approved" ELSE "pending_approval",
                           next |-> NoDraft, copy |-> copy, job |-> job,
                           approved_by |-> IF auto THEN "setting" ELSE None]
          [] d # Fresh /\ d = old -> [drafts[d] EXCEPT !.next = Fresh]
          [] OTHER -> drafts[d]]

\* Mutant: a truthiness test, so that an unset setting opens the gate.
AutoApprovesUnset(setting) == setting # "true"

\* `approval_required is False': anything else keeps the gate shut.
AutoApproves(setting) == setting = "false"

\* validate_copy: None where the list has nothing the copy contains.
CopyIsValid(copy, list) == list = "list" => copy # "claim"

------------------------------------------------------------------------------
(* The copywriting worker *)

\* GenerateContentDraft, for a variant with a live approved image; it raises
\* and writes nothing otherwise.
GenerateContentDraft(r) ==
    /\ jobs[r] = NoJob
    /\ \A q \in 1..(r - 1) : jobs[q] # NoJob
    /\ jobs' = [jobs EXCEPT ![r] = Enqueued]
    /\ UNCHANGED <<drafts, claims, approval, changes, worker, tx, unlisted, opened>>

\* Mutant: a malformed list counts as no list.
ClaimsResolveAlways == TRUE

\* resolve_forbidden_claims raises on a malformed value.
ClaimsResolve == claims # "malformed"

\* StartContentDraftGeneration: the claim, and the list the copy will be held
\* against.
StartContentDraftGeneration(w, r) ==
    /\ worker[w].pc = "idle"
    /\ jobs[r].status = "pending"
    /\ ClaimsResolve
    /\ jobs' = [jobs EXCEPT ![r] = Claimed(@)]
    /\ worker' = [worker EXCEPT ![w] = [Idle EXCEPT !.pc = "writing", !.job = r,
                                                    !.claims = claims]]
    /\ UNCHANGED <<drafts, claims, approval, changes, tx, unlisted, opened>>

\* Mutant: the exception leaves the transaction, and the claim with it.
StartMalformedRaises(w, r) ==
    /\ worker[w].pc = "idle"
    /\ jobs[r].status = "pending"
    /\ ~ClaimsResolve
    /\ UNCHANGED vars

\* The setting is malformed: the job just claimed is failed in the same
\* transaction, so that it dies instead of circling.
StartWithMalformedClaims(w, r) ==
    /\ worker[w].pc = "idle"
    /\ jobs[r].status = "pending"
    /\ ~ClaimsResolve
    /\ jobs' = [jobs EXCEPT ![r] = Failed(Claimed(@), MaxAttempts)]
    /\ UNCHANGED <<drafts, claims, approval, changes, worker, tx, unlisted, opened>>

\* The provider raises: FailContentDraftGeneration.
FailContentDraftGeneration(w) ==
    /\ worker[w].pc = "writing"
    /\ jobs' = [jobs EXCEPT ![worker[w].job] = Failed(@, MaxAttempts)]
    /\ worker' = [worker EXCEPT ![w] = Idle]
    /\ UNCHANGED <<drafts, claims, approval, changes, tx, unlisted, opened>>

\* CompleteContentDraftGeneration finds a forbidden claim: the job is failed
\* and no row is written.
CompleteWithViolation(w) ==
    /\ worker[w].pc = "writing"
    /\ \E copy \in Copies : ~CopyIsValid(copy, worker[w].claims)
    /\ jobs' = [jobs EXCEPT ![worker[w].job] = Failed(@, MaxAttempts)]
    /\ worker' = [worker EXCEPT ![w] = Idle]
    /\ UNCHANGED <<drafts, claims, approval, changes, tx, unlisted, opened>>

\* The copy is valid; the transaction reads the live draft and the approval
\* setting ...
CompleteRead(w) ==
    /\ worker[w].pc = "writing"
    /\ \E live \in IF Live = {} THEN {NoDraft} ELSE Live :
          worker' = [worker EXCEPT ![w].pc = "completing", ![w].live = live,
                                   ![w].auto = AutoApproves(approval)]
    /\ UNCHANGED <<drafts, jobs, claims, approval, changes, tx, unlisted, opened>>

\* Mutant: the draft is committed and the job left to be run again.
CompleteCommitOnly(w) ==
    /\ worker[w].pc = "completing"
    /\ IndexAdmits(worker[w].live)
    /\ HasRoom
    /\ \E copy \in Copies :
          /\ CopyIsValid(copy, worker[w].claims)
          /\ drafts' = Replaced(worker[w].live, copy, worker[w].job, worker[w].auto)
    /\ worker' = [worker EXCEPT ![w] = Idle]
    /\ UNCHANGED <<jobs, claims, approval, changes, tx, unlisted, opened>>

\* ... supersedes the one, inserts the other and completes the job.
CompleteCommit(w) ==
    /\ worker[w].pc = "completing"
    /\ IndexAdmits(worker[w].live)
    /\ HasRoom
    /\ \E copy \in Copies :
          /\ CopyIsValid(copy, worker[w].claims)
          /\ drafts' = Replaced(worker[w].live, copy, worker[w].job, worker[w].auto)
    /\ jobs' = [jobs EXCEPT ![worker[w].job] = Completed(@)]
    /\ worker' = [worker EXCEPT ![w] = Idle]
    /\ UNCHANGED <<claims, approval, changes, tx, unlisted, opened>>

\* The INSERT violates the index: everything is rolled back and the agent's
\* run ends with the exception.
CompleteConflict(w) ==
    /\ worker[w].pc = "completing"
    /\ ~IndexAdmits(worker[w].live)
    /\ worker' = [worker EXCEPT ![w] = Idle]
    /\ UNCHANGED <<drafts, jobs, claims, approval, changes, tx, unlisted, opened>>

------------------------------------------------------------------------------
(* People *)

\* EditContentDraft holds the text against the list in force.
EditIsValid(copy) == ClaimsResolve /\ CopyIsValid(copy, claims)

EditsBegun == Cardinality({d \in DraftIds : Exists(d) /\ drafts[d].job = 0})
              + Cardinality({p \in People : tx[p].op = "edit"})

\* EditContentDraft reads a draft that is not superseded and both settings;
\* it raises and writes nothing where the list is malformed or forbids the text.
EditRead(p, d) ==
    /\ tx[p] = NoTx
    /\ EditsBegun < MaxEdits
    /\ d \in Live
    /\ \E copy \in Copies :
          /\ EditIsValid(copy)
          /\ tx' = [tx EXCEPT ![p] = [op |-> "edit", draft |-> d, copy |-> copy,
                                      auto |-> AutoApproves(approval)]]
    /\ UNCHANGED <<drafts, jobs, claims, approval, changes, worker, unlisted, opened>>

EditCommit(p) ==
    /\ tx[p].op = "edit"
    /\ IndexAdmits(tx[p].draft)
    /\ HasRoom
    /\ drafts' = Replaced(tx[p].draft, tx[p].copy, 0, tx[p].auto)
    /\ tx' = [tx EXCEPT ![p] = NoTx]
    /\ UNCHANGED <<jobs, claims, approval, changes, worker, unlisted, opened>>

\* Somebody replaced the draft meanwhile: the index refuses the INSERT.
EditConflict(p) ==
    /\ tx[p].op = "edit"
    /\ ~IndexAdmits(tx[p].draft)
    /\ tx' = [tx EXCEPT ![p] = NoTx]
    /\ UNCHANGED <<drafts, jobs, claims, approval, changes, worker, unlisted, opened>>

\* ContentDraft.approve and reject refuse any other status; whether the draft
\* is superseded does not matter to them.
Reviewable == {d \in DraftIds : drafts[d].status = "pending_approval"}

\* ApproveContentDraft and RejectContentDraft read ...
ReviewRead(p, d) ==
    /\ tx[p] = NoTx
    /\ d \in Reviewable
    /\ \E op \in {"approved", "rejected"} :
          tx' = [tx EXCEPT ![p] = [NoTx EXCEPT !.op = op, !.draft = d]]
    /\ UNCHANGED <<drafts, jobs, claims, approval, changes, worker, unlisted, opened>>

\* Mutant: the whole row is written back as it was read.
ReviewCommitWholeRow(p) ==
    LET d == tx[p].draft IN
    /\ tx[p].op \in {"approved", "rejected"}
    /\ drafts' = [drafts EXCEPT ![d].status = tx[p].op, ![d].next = NoDraft,
                                ![d].approved_by = "person"]
    /\ tx' = [tx EXCEPT ![p] = NoTx]
    /\ UNCHANGED <<jobs, claims, approval, changes, worker, unlisted, opened>>

\* ... and write the decision.
ReviewCommit(p) ==
    LET d == tx[p].draft IN
    /\ tx[p].op \in {"approved", "rejected"}
    /\ drafts' = [drafts EXCEPT ![d].status = tx[p].op,
                                ![d].approved_by = IF tx[p].op = "approved" THEN "person" ELSE @]
    /\ tx' = [tx EXCEPT ![p] = NoTx]
    /\ UNCHANGED <<jobs, claims, approval, changes, worker, unlisted, opened>>

\* UpsertSetting, on either key and at whatever scope decides.
ChangeSetting ==
    /\ changes < MaxChanges
    /\ \/ claims' \in ClaimSettings \ {claims} /\ approval' = approval
       \/ approval' \in ApprovalSettings \ {approval} /\ claims' = claims
    /\ changes' = changes + 1
    /\ unlisted' = (unlisted \/ claims' = "unset")
    /\ opened' = (opened \/ approval' = "false")
    /\ UNCHANGED <<drafts, jobs, worker, tx>>

------------------------------------------------------------------------------
(* Crashes, time, the reaper *)

Crash(w) ==
    /\ Crashes
    /\ worker[w].pc # "idle"
    /\ worker' = [worker EXCEPT ![w] = Idle]
    /\ UNCHANGED <<drafts, jobs, claims, approval, changes, tx, unlisted, opened>>

WorksOn(w, r) == worker[w].pc # "idle" /\ worker[w].job = r

\* STUCK_JOB_THRESHOLD passes since the claim.
BecomeStuck(r) ==
    /\ jobs[r].status = "running" /\ ~jobs[r].stuck
    /\ SlowWorkers \/ \A w \in Workers : ~WorksOn(w, r)
    /\ jobs' = [jobs EXCEPT ![r].stuck = TRUE]
    /\ UNCHANGED <<drafts, claims, approval, changes, worker, tx, unlisted, opened>>

Reap ==
    /\ \E r \in Requests : Reapable(jobs[r])
    /\ jobs' = [r \in Requests |-> IF Reapable(jobs[r]) THEN Failed(jobs[r], MaxAttempts)
                                                        ELSE jobs[r]]
    /\ UNCHANGED <<drafts, claims, approval, changes, worker, tx, unlisted, opened>>

WorkerStep(w) ==
    \/ FailContentDraftGeneration(w) \/ CompleteWithViolation(w)
    \/ CompleteRead(w) \/ CompleteCommit(w) \/ CompleteConflict(w)
PersonStep(p) ==
    \/ \E d \in DraftIds : EditRead(p, d) \/ ReviewRead(p, d)
    \/ EditCommit(p) \/ EditConflict(p) \/ ReviewCommit(p)
StartStep(w, r) == StartContentDraftGeneration(w, r) \/ StartWithMalformedClaims(w, r)

Next ==
    \/ \E r \in Requests : GenerateContentDraft(r) \/ BecomeStuck(r)
    \/ \E w \in Workers, r \in Requests : StartStep(w, r)
    \/ \E w \in Workers : WorkerStep(w) \/ Crash(w)
    \/ \E p \in People : PersonStep(p)
    \/ ChangeSetting \/ Reap

Spec == Init /\ [][Next]_vars

\* The worker endpoint and the reaper are called periodically, time passes and
\* a worker that started goes on to the end of its run.  Nobody has to edit,
\* review or change settings, and the provider need not succeed.
Fairness ==
    /\ WF_vars(Reap)
    /\ \A r \in Requests :
          WF_vars(BecomeStuck(r)) /\ WF_vars(\E w \in Workers : StartStep(w, r))
    /\ \A w \in Workers : WF_vars(WorkerStep(w))

FairSpec == Spec /\ Fairness

------------------------------------------------------------------------------
(* Properties *)

\* A draft a publication may point at is never repointed: once superseded, it
\* keeps its successor and never comes back to life, whoever reviews it late.
SupersededForGood ==
    [][\A d \in DraftIds : drafts[d].next # NoDraft => drafts'[d].next = drafts[d].next]_vars

\* D23's brand rule: as long as the tenant's list was never removed, no draft
\* contains a forbidden claim, whoever wrote it and however the list was broken
\* and mended meanwhile.
ForbiddenClaimsKeptOut ==
    ~unlisted => \A d \in DraftIds : Exists(d) => drafts[d].copy # "claim"

\* The approval gate fails closed: as long as approval.required was never
\* False, every approved draft was approved by a person.
GateFailsClosed ==
    ~opened => \A d \in DraftIds : drafts[d].status = "approved" => drafts[d].approved_by = "person"

\* A request yields at most one draft, so the retry of a job does not replace
\* what its first execution wrote (and a person may have approved since).
OneDraftPerRequest ==
    \A d, e \in DraftIds : drafts[d].job # 0 /\ drafts[d].job = drafts[e].job => d = e

\* Every request ends: its job succeeds or dies, also where the tenant's
\* configuration is broken for good.
EveryRequestSettles ==
    \A r \in Requests : (jobs[r].status = "pending") ~> (jobs[r].status \in {"succeeded", "dead"})
=============================================================================
