-------------------------- MODULE TaskQueueProofs --------------------------
(***************************************************************************)
(* Proofs about TaskQueue, for any number of events, relays and workers,   *)
(* any relay limit and any max_attempts.                                   *)
(***************************************************************************)
EXTENDS TaskQueue, SequenceTheorems, TLAPS

\* Removing the only occurrence of an element from an injective sequence.
LEMMA RemoveFirstProperties ==
    ASSUME NEW S, NEW s \in Seq(S), NEW e,
           \A i, k \in DOMAIN s : s[i] = s[k] => i = k
    PROVE  /\ RemoveFirst(s, e) \in Seq(S)
           /\ \A i \in DOMAIN RemoveFirst(s, e) :
                 /\ RemoveFirst(s, e)[i] # e
                 /\ \E k \in DOMAIN s : RemoveFirst(s, e)[i] = s[k]
           /\ \A k \in DOMAIN s : s[k] # e =>
                 \E i \in DOMAIN RemoveFirst(s, e) : RemoveFirst(s, e)[i] = s[k]
           /\ \A i, k \in DOMAIN RemoveFirst(s, e) :
                 RemoveFirst(s, e)[i] = RemoveFirst(s, e)[k] => i = k
<1>1. CASE ~ \E i \in 1..Len(s) : s[i] = e
  BY <1>1 DEF RemoveFirst
<1>2. ASSUME NEW i \in 1..Len(s), s[i] = e
      PROVE  /\ RemoveFirst(s, e) \in Seq(S)
             /\ Len(RemoveFirst(s, e)) = Len(s) - 1
             /\ \A k \in 1..(Len(s) - 1) :
                   RemoveFirst(s, e)[k] = IF k < i THEN s[k] ELSE s[k + 1]
  <2>1. {k \in 1..Len(s) : s[k] = e} = {i}
    BY <1>2
  <2>2. Min({i}) = i
    BY DEF Min
  <2>3. SelectInSeq(s, LAMBDA v : v = e) = i
    BY <2>1, <2>2 DEF SelectInSeq
  <2>4. RemoveFirst(s, e) = SubSeq(s, 1, i - 1) \o SubSeq(s, i + 1, Len(s))
    BY <1>2, <2>3 DEF RemoveFirst, RemoveAt
  <2> DEFINE a == SubSeq(s, 1, i - 1)
             b == SubSeq(s, i + 1, Len(s))
  <2>5. /\ a \in Seq(S)
        /\ Len(a) = i - 1
        /\ \A k \in 1..(i - 1) : a[k] = s[k]
    <3>1. \A k \in 1..(i - 1) : k \in 1..Len(s)
      OBVIOUS
    <3>2. \A k \in 1..(i - 1) : s[k] \in S
      BY <3>1
    <3>3. QED
      BY <3>1, <3>2
  <2>6. /\ b \in Seq(S)
        /\ Len(b) = Len(s) - i
        /\ \A k \in 1..(Len(s) - i) : b[k] = s[k + i]
    <3>1. \A k \in (i + 1)..Len(s) : k \in 1..Len(s) /\ s[k] \in S
      OBVIOUS
    <3>2. b \in Seq(S)
      BY <3>1
    <3>3. QED
      BY <3>2
  <2>7. /\ a \o b \in Seq(S)
        /\ Len(a \o b) = Len(s) - 1
        /\ \A k \in 1..(Len(s) - 1) : (a \o b)[k] = IF k <= Len(a) THEN a[k] ELSE b[k - Len(a)]
    <3> HIDE DEF a, b
    <3>1. Len(a) + Len(b) = Len(s) - 1
      BY <2>5, <2>6
    <3>2. /\ a \o b \in Seq(S)
          /\ Len(a \o b) = Len(a) + Len(b)
          /\ \A k \in 1..(Len(a) + Len(b)) :
                (a \o b)[k] = IF k <= Len(a) THEN a[k] ELSE b[k - Len(a)]
      BY <2>5, <2>6, ConcatProperties, Zenon
    <3>3. QED
      BY <3>1, <3>2
  <2> HIDE DEF a, b
  <2>8. \A k \in 1..(Len(s) - 1) : (a \o b)[k] = IF k < i THEN s[k] ELSE s[k + 1]
    <3> SUFFICES ASSUME NEW k \in 1..(Len(s) - 1)
                 PROVE  (a \o b)[k] = IF k < i THEN s[k] ELSE s[k + 1]
      OBVIOUS
    <3>1. CASE k < i
      BY <3>1, <2>5, <2>7
    <3>2. CASE k >= i
      <4>1. k - (i - 1) \in 1..(Len(s) - i) /\ (k - (i - 1)) + i = k + 1
        BY <3>2
      <4>2. b[k - (i - 1)] = s[k + 1]
        BY <4>1, <2>6
      <4>3. ~(k <= Len(a)) /\ k - Len(a) = k - (i - 1) /\ ~(k < i)
        BY <3>2, <2>5
      <4>4. QED
        BY <4>2, <4>3, <2>7
    <3>3. k < i \/ k >= i
      OBVIOUS
    <3>4. QED
      BY <3>1, <3>2, <3>3
  <2>9. QED
    BY <2>4, <2>7, <2>8 DEF a, b
<1>3. ASSUME NEW i \in 1..Len(s), s[i] = e
      PROVE  /\ \A k \in 1..(Len(s) - 1) : RemoveFirst(s, e)[k] # e
             /\ \A k \in 1..(Len(s) - 1) : \E l \in 1..Len(s) : RemoveFirst(s, e)[k] = s[l]
             /\ \A k \in 1..Len(s) : s[k] # e =>
                   \E l \in 1..(Len(s) - 1) : RemoveFirst(s, e)[l] = s[k]
             /\ \A k, l \in 1..(Len(s) - 1) :
                   RemoveFirst(s, e)[k] = RemoveFirst(s, e)[l] => k = l
  <2> DEFINE t == RemoveFirst(s, e)
  <2>1. \A k \in 1..(Len(s) - 1) : t[k] = IF k < i THEN s[k] ELSE s[k + 1]
    BY <1>2, <1>3
  <2> HIDE DEF t
  <2>2. ASSUME NEW k \in 1..Len(s), s[k] # e
        PROVE  \E l \in 1..(Len(s) - 1) : t[l] = s[k]
    <3>1. CASE k < i
      BY <2>1, <3>1
    <3>2. CASE k > i
      <4>1. k - 1 \in 1..(Len(s) - 1) /\ ~(k - 1 < i) /\ (k - 1) + 1 = k
        BY <3>2
      <4>2. t[k - 1] = s[k]
        BY <2>1, <4>1
      <4>3. QED
        BY <4>1, <4>2
    <3>3. QED
      BY <3>1, <3>2, <2>2, <1>3
  <2>3. ASSUME NEW k \in 1..(Len(s) - 1)
        PROVE  /\ t[k] # e
               /\ \E l \in 1..Len(s) : t[k] = s[l]
    BY <2>1, <1>3
  <2>4. ASSUME NEW k \in 1..(Len(s) - 1), NEW l \in 1..(Len(s) - 1), t[k] = t[l]
        PROVE  k = l
    <3> DEFINE p(n) == IF n < i THEN n ELSE n + 1
    <3>1. p(k) \in DOMAIN s /\ p(l) \in DOMAIN s
      OBVIOUS
    <3>2. s[p(k)] = s[p(l)]
      BY <2>1, <2>4
    <3>3. p(k) = p(l)
      BY <3>1, <3>2
    <3>4. QED
      BY <3>3
  <2>5. QED
    BY <2>2, <2>3, <2>4 DEF t
<1>4. ASSUME NEW i \in 1..Len(s), s[i] = e
      PROVE  /\ RemoveFirst(s, e) \in Seq(S)
             /\ DOMAIN RemoveFirst(s, e) = 1..(Len(s) - 1)
             /\ DOMAIN s = 1..Len(s)
  BY <1>2, <1>4
<1>5. QED
  BY <1>1, <1>3, <1>4

------------------------------------------------------------------------------
(* The inductive invariant *)

\* The due line lists pending jobs, each once.
LineInv ==
    /\ \A i, k \in DOMAIN line : line[i] = line[k] => i = k
    /\ \A i \in DOMAIN line : jobs[line[i]].status = "pending"

\* A worker inside a start transaction holds a job of the line, alone; one
\* past it works on a row that exists.
WorkerInv ==
    /\ \A w \in Workers :
          /\ worker[w].pc # "idle" => worker[w].job \in JobIds
          /\ worker[w].pc = "claiming" => \E i \in DOMAIN line : line[i] = worker[w].job
          /\ worker[w].pc \in {"working", "failing"} => jobs[worker[w].job].status # "absent"
    /\ \A v, w \in Workers :
          worker[v].pc = "claiming" /\ worker[w].pc = "claiming"
            /\ worker[v].job = worker[w].job => v = w

\* Jobs exist for published events only, and what a relay has read has none
\* of that relay's.
RelayInv ==
    /\ \A e \in Events \ published : \A r \in Relays : jobs[<<e, r>>].status = "absent"
    /\ RelayBatchIsNew
    /\ NoEventLost

QueueInv == TypeOK /\ LineInv /\ WorkerInv /\ RelayInv /\ StatusMatchesAttempts

\* What the operations on a row write.
LEMMA RowFacts ==
    ASSUME NEW job \in JobRows, NEW seen \in Nat
    PROVE  /\ NoJob \in JobRows /\ NoJob.status = "absent" /\ NoJob.attempts = 0
           /\ Enqueued \in JobRows /\ Enqueued.status = "pending" /\ Enqueued.attempts = 0
           /\ Claimed(job) \in JobRows
           /\ Claimed(job).status = "running"
           /\ Claimed(job).attempts = job.attempts
           /\ Claimed(job).stuck = FALSE
           /\ Completed(job) \in JobRows
           /\ Completed(job).status = "succeeded"
           /\ Completed(job).attempts = job.attempts
           /\ FailedAs(job, seen, MaxAttempts) \in JobRows
           /\ FailedAs(job, seen, MaxAttempts).attempts = seen + 1
           /\ FailedAs(job, seen, MaxAttempts).status =
                 IF seen + 1 >= MaxAttempts THEN "dead" ELSE "pending"
<1>1. NoJob \in JobRows /\ Enqueued \in JobRows
  BY DEF JobRows, JobStatuses, NoJob, Enqueued
<1>2. Claimed(job) \in JobRows
  BY DEF JobRows, JobStatuses, Claimed
<1>3. Completed(job) \in JobRows
  BY DEF JobRows, JobStatuses, Completed
<1>4. FailedAs(job, seen, MaxAttempts) \in JobRows
  <2>1. (IF seen + 1 >= MaxAttempts THEN "dead" ELSE "pending") \in JobStatuses
    BY DEF JobStatuses
  <2>2. seen + 1 \in Nat
    OBVIOUS
  <2>3. QED
    BY <2>1, <2>2 DEF JobRows, FailedAs
<1>5. /\ NoJob.status = "absent" /\ NoJob.attempts = 0
      /\ Enqueued.status = "pending" /\ Enqueued.attempts = 0
  BY DEF NoJob, Enqueued
<1>6. /\ Claimed(job).status = "running"
      /\ Claimed(job).attempts = job.attempts
      /\ Claimed(job).stuck = FALSE
      /\ Completed(job).status = "succeeded"
      /\ Completed(job).attempts = job.attempts
  BY DEF Claimed, Completed, JobRows
<1>7. /\ FailedAs(job, seen, MaxAttempts).attempts = seen + 1
      /\ FailedAs(job, seen, MaxAttempts).status =
            IF seen + 1 >= MaxAttempts THEN "dead" ELSE "pending"
  BY DEF FailedAs, JobRows
<1>8. QED
  BY <1>1, <1>2, <1>3, <1>4, <1>5, <1>6, <1>7

\* Initially nothing exists.
LEMMA InitInv == Init => QueueInv
<1> SUFFICES ASSUME Init PROVE QueueInv
  OBVIOUS
<1> USE TaskQueueAssumptions DEF Init
<1>1. TypeOK
  BY DEF TypeOK, WorkerStates, Idle, NoJob, JobRows, JobStatuses, NoOne
<1>2. LineInv /\ WorkerInv
  BY DEF LineInv, WorkerInv, Idle
<1>3. RelayInv /\ StatusMatchesAttempts
  BY DEF RelayInv, RelayBatchIsNew, NoEventLost, StatusMatchesAttempts, NoJob, JobIds
<1>4. QED
  BY <1>1, <1>2, <1>3 DEF QueueInv

\* A worker that holds a job, or works on it while nobody holds it, rewrites
\* the row, takes it out of the line and goes idle or on to work: the common
\* shape of ClaimCommit, ClaimFail, Complete and FailCommit.
LEMMA RowUpdate ==
    ASSUME QueueInv,
           NEW w \in Workers, NEW j \in JobIds, NEW row \in JobRows, NEW ws \in WorkerStates,
           worker[w].pc # "idle", worker[w].job = j,
           \A v \in Workers : v # w => ~Holds(v, j),
           row.status # "absent",
           row.status \in {"pending", "running"} => row.attempts < MaxAttempts,
           row.status = "dead" => row.attempts >= MaxAttempts,
           ws.pc = "idle" \/ (ws.pc = "working" /\ ws.job = j),
           jobs' = [jobs EXCEPT ![j] = row],
           line' = RemoveFirst(line, j),
           worker' = [worker EXCEPT ![w] = ws],
           executed' \in [JobIds -> Nat], done' \in [JobIds -> Nat],
           UNCHANGED outbox
    PROVE  QueueInv'
<1> USE DEF QueueInv
<1>1. /\ jobs \in [JobIds -> JobRows] /\ line \in Seq(JobIds)
      /\ worker \in [Workers -> WorkerStates]
  BY DEF TypeOK
<1>2. \A i, k \in DOMAIN line : line[i] = line[k] => i = k
  BY DEF LineInv
<1>3. /\ line' \in Seq(JobIds)
      /\ \A i \in DOMAIN line' : line'[i] # j /\ \E k \in DOMAIN line : line'[i] = line[k]
      /\ \A k \in DOMAIN line : line[k] # j => \E i \in DOMAIN line' : line'[i] = line[k]
      /\ \A i, k \in DOMAIN line' : line'[i] = line'[k] => i = k
  BY <1>1, <1>2, RemoveFirstProperties
<1>4. jobs[j].status # "absent"
  BY DEF WorkerInv, LineInv, TypeOK, WorkerStates
<1>5. TypeOK'
  BY <1>1, <1>3 DEF TypeOK, outbox
<1>6. LineInv'
  <2>1. ASSUME NEW i \in DOMAIN line' PROVE jobs'[line'[i]].status = "pending"
    <3>1. PICK k \in DOMAIN line : line'[i] = line[k]
      BY <1>3
    <3>2. line[k] # j /\ jobs[line[k]].status = "pending" /\ line[k] \in JobIds
      BY <1>1, <1>3, <3>1 DEF LineInv
    <3>3. QED
      BY <1>1, <3>1, <3>2
  <2>2. QED
    BY <1>3, <2>1 DEF LineInv
<1>7. WorkerInv'
  <2>1. ASSUME NEW v \in Workers
        PROVE  /\ worker'[v].pc # "idle" => worker'[v].job \in JobIds
               /\ worker'[v].pc = "claiming" => \E i \in DOMAIN line' : line'[i] = worker'[v].job
               /\ worker'[v].pc \in {"working", "failing"} =>
                     jobs'[worker'[v].job].status # "absent"
    <3>1. CASE v = w
      BY <1>1, <3>1 DEF WorkerStates
    <3>2. CASE v # w
      <4>1. worker'[v] = worker[v]
        BY <1>1, <3>2
      <4>2. CASE worker[v].pc = "claiming"
        <5>1. PICK i \in DOMAIN line : line[i] = worker[v].job
          BY <4>2 DEF WorkerInv
        <5>2. line[i] # j
          BY <3>2, <4>2, <5>1 DEF Holds
        <5>3. QED
          BY <1>3, <4>1, <4>2, <5>1, <5>2 DEF WorkerInv
      <4>3. CASE worker[v].pc \in {"working", "failing"}
        BY <1>1, <4>1, <4>3 DEF WorkerInv
      <4>4. CASE worker[v].pc = "idle"
        BY <4>1, <4>4
      <4>5. QED
        BY <1>1, <4>2, <4>3, <4>4 DEF WorkerStates
    <3>3. QED
      BY <3>1, <3>2
  <2>2. ASSUME NEW u \in Workers, NEW v \in Workers,
               worker'[u].pc = "claiming", worker'[v].pc = "claiming",
               worker'[u].job = worker'[v].job
        PROVE  u = v
    <3>1. u # w /\ v # w
      BY <1>1, <2>2
    <3>2. QED
      BY <1>1, <2>2, <3>1 DEF WorkerInv
  <2>3. QED
    BY <2>1, <2>2 DEF WorkerInv
<1>8. RelayInv'
  <2>1. \A k \in JobIds : jobs'[k].status = "absent" <=> jobs[k].status = "absent"
    BY <1>1, <1>4
  <2>2. \A e \in Events, r \in Relays : <<e, r>> \in JobIds
    BY DEF JobIds
  <2>3. published' = published /\ relay' = relay
    BY DEF outbox
  <2>4. published \subseteq Events /\ \A r \in Relays : relay[r] \subseteq Events
    BY DEF TypeOK
  <2>5. QED
    BY <2>1, <2>2, <2>3, <2>4 DEF RelayInv, RelayBatchIsNew, NoEventLost
<1>9. StatusMatchesAttempts'
  BY <1>1 DEF StatusMatchesAttempts
<1>10. QED
  BY <1>5, <1>6, <1>7, <1>8, <1>9

\* The four actions of that shape.
LEMMA RowSteps ==
    ASSUME QueueInv, NEW w \in Workers,
           ClaimCommit(w) \/ ClaimFail(w) \/ Complete(w) \/ FailCommit(w)
    PROVE  QueueInv'
<1> DEFINE j == worker[w].job
<1> USE TaskQueueAssumptions
<1>1. /\ jobs \in [JobIds -> JobRows] /\ worker \in [Workers -> WorkerStates]
      /\ executed \in [JobIds -> Nat] /\ done \in [JobIds -> Nat]
  BY DEF QueueInv, TypeOK
<1>2. worker[w].pc # "idle" /\ j \in JobIds
  BY DEF QueueInv, WorkerInv, ClaimCommit, ClaimFail, Complete, FailCommit
<1>3. jobs[j] \in JobRows /\ jobs[j].attempts \in Nat
  BY <1>1, <1>2 DEF JobRows
<1>4. Idle \in WorkerStates /\ Idle.pc = "idle"
  BY DEF Idle, WorkerStates
<1>5. worker[w].seen \in Nat
  BY <1>1 DEF WorkerStates
<1>6. worker[w].pc = "claiming" => jobs[j].status = "pending" /\ jobs[j].attempts < MaxAttempts
  BY <1>2 DEF QueueInv, WorkerInv, LineInv, StatusMatchesAttempts
<1>7. worker[w].pc = "claiming" => \A v \in Workers : v # w => ~Holds(v, j)
  BY DEF QueueInv, WorkerInv, Holds
<1>8. CASE ClaimCommit(w)
  <2> DEFINE ws == [worker[w] EXCEPT !.pc = "working"]
  <2>1. ws \in WorkerStates /\ ws.pc = "working" /\ ws.job = j
    BY <1>1 DEF WorkerStates
  <2>2. executed' \in [JobIds -> Nat] /\ done' \in [JobIds -> Nat]
    BY <1>1, <1>2, <1>8 DEF ClaimCommit
  <2>3. worker' = [worker EXCEPT ![w] = ws]
    BY <1>1, <1>8 DEF ClaimCommit
  <2>4. Claimed(jobs[j]) \in JobRows /\ Claimed(jobs[j]).status = "running"
        /\ Claimed(jobs[j]).attempts = jobs[j].attempts
    BY <1>3, <1>5, RowFacts
  <2>5. /\ jobs' = [jobs EXCEPT ![j] = Claimed(jobs[j])]
        /\ line' = RemoveFirst(line, j) /\ UNCHANGED outbox /\ worker[w].pc = "claiming"
    BY <1>8 DEF ClaimCommit
  <2> HIDE DEF ws, j
  <2>6. QED
    BY <2>1, <2>2, <2>3, <2>4, <2>5, <1>2, <1>6, <1>7, RowUpdate DEF j
<1>9. CASE ClaimFail(w)
  <2> DEFINE row == Failed(Claimed(jobs[j]), MaxAttempts)
  <2>1. Claimed(jobs[j]) \in JobRows /\ Claimed(jobs[j]).attempts \in Nat
    BY <1>3, <1>5, RowFacts
  <2>2. /\ row \in JobRows
        /\ row.attempts = Claimed(jobs[j]).attempts + 1
        /\ row.status = IF Claimed(jobs[j]).attempts + 1 >= MaxAttempts THEN "dead" ELSE "pending"
    BY <2>1, RowFacts DEF Failed
  <2>3. /\ row.status # "absent"
        /\ row.status \in {"pending", "running"} => row.attempts < MaxAttempts
        /\ row.status = "dead" => row.attempts >= MaxAttempts
    BY <2>1, <2>2
  <2>4. /\ jobs' = [jobs EXCEPT ![j] = row] /\ worker' = [worker EXCEPT ![w] = Idle]
        /\ line' = RemoveFirst(line, j) /\ UNCHANGED outbox /\ worker[w].pc = "claiming"
        /\ executed' \in [JobIds -> Nat] /\ done' \in [JobIds -> Nat]
    BY <1>1, <1>9 DEF ClaimFail, history
  <2> HIDE DEF row, j
  <2>5. QED
    BY <2>2, <2>3, <2>4, <1>2, <1>4, <1>7, RowUpdate DEF j
<1>10. CASE Complete(w)
  <2>1. Completed(jobs[j]) \in JobRows /\ Completed(jobs[j]).status = "succeeded"
    BY <1>3, <1>5, RowFacts
  <2>2. /\ jobs' = [jobs EXCEPT ![j] = Completed(jobs[j])]
        /\ worker' = [worker EXCEPT ![w] = Idle]
        /\ line' = RemoveFirst(line, j) /\ UNCHANGED outbox
        /\ \A v \in Workers : ~Holds(v, j)
    BY <1>10 DEF Complete, Unlocked
  <2>3. executed' \in [JobIds -> Nat] /\ done' \in [JobIds -> Nat]
    BY <1>1, <1>2, <1>10 DEF Complete
  <2> HIDE DEF j
  <2>4. QED
    BY <2>1, <2>2, <2>3, <1>2, <1>4, RowUpdate DEF j
<1>11. CASE FailCommit(w)
  <2> DEFINE row == FailedAs(jobs[j], worker[w].seen, MaxAttempts)
  <2>1. /\ row \in JobRows
        /\ row.attempts = worker[w].seen + 1
        /\ row.status = IF worker[w].seen + 1 >= MaxAttempts THEN "dead" ELSE "pending"
    BY <1>3, <1>5, RowFacts
  <2>2. /\ row.status # "absent"
        /\ row.status \in {"pending", "running"} => row.attempts < MaxAttempts
        /\ row.status = "dead" => row.attempts >= MaxAttempts
    BY <1>5, <2>1
  <2>3. /\ jobs' = [jobs EXCEPT ![j] = row] /\ worker' = [worker EXCEPT ![w] = Idle]
        /\ line' = RemoveFirst(line, j) /\ UNCHANGED outbox
        /\ \A v \in Workers : ~Holds(v, j)
        /\ executed' \in [JobIds -> Nat] /\ done' \in [JobIds -> Nat]
    BY <1>1, <1>11 DEF FailCommit, Unlocked, history
  <2> HIDE DEF row, j
  <2>4. QED
    BY <2>1, <2>2, <2>3, <1>2, <1>4, RowUpdate DEF j
<1>12. QED
  BY <1>8, <1>9, <1>10, <1>11

\* The steps of the outbox and the relays.
LEMMA RelaySteps ==
    ASSUME QueueInv,
           EmitEvent \/ \E r \in Relays : RelayStep(r)
    PROVE  QueueInv'
<1> USE TaskQueueAssumptions DEF QueueInv
<1>1. /\ jobs \in [JobIds -> JobRows] /\ relay \in [Relays -> SUBSET Events]
      /\ published \in SUBSET Events /\ line \in Seq(JobIds)
  BY DEF TypeOK
<1>2. CASE EmitEvent
  <2>1. UNCHANGED <<published, relay, jobs, line, worker, executed, done>>
    BY <1>2 DEF EmitEvent, history
  <2>2. TypeOK'
    BY <1>2, <2>1 DEF EmitEvent, TypeOK
  <2>3. LineInv' /\ WorkerInv'
    BY <2>1 DEF LineInv, WorkerInv
  <2>4. RelayInv'
    BY <2>1 DEF RelayInv, RelayBatchIsNew, NoEventLost
  <2>5. StatusMatchesAttempts'
    BY <2>1 DEF StatusMatchesAttempts
  <2>6. QED
    BY <2>2, <2>3, <2>4, <2>5
<1>3. ASSUME NEW r \in Relays, RelayRead(r) PROVE QueueInv'
  <2>1. OldestUnpublished \subseteq Events \ published
    <3>1. 1..emitted \subseteq Events
      BY DEF TypeOK, Events
    <3>2. QED
      BY <3>1 DEF OldestUnpublished
  <2>2. relay' = [relay EXCEPT ![r] = OldestUnpublished]
    BY <1>3 DEF RelayRead
  <2> HIDE DEF OldestUnpublished
  <2>3. UNCHANGED <<emitted, published, jobs, line, worker, executed, done>>
    BY <1>3 DEF RelayRead, history
  <2>4. TypeOK'
    BY <2>1, <2>2, <2>3 DEF TypeOK
  <2>5. RelayBatchIsNew'
    BY <1>1, <2>1, <2>2, <2>3 DEF RelayBatchIsNew, RelayInv
  <2>6. QED
    BY <2>3, <2>4, <2>5 DEF LineInv, WorkerInv, RelayInv, NoEventLost, StatusMatchesAttempts
<1>4. ASSUME NEW r \in Relays, RelayCommit(r) PROVE QueueInv'
  <2>1. /\ jobs' = [j \in JobIds |-> IF j[2] = r /\ j[1] \in relay[r] THEN Enqueued ELSE jobs[j]]
        /\ published' = published \cup relay[r]
        /\ relay' = [relay EXCEPT ![r] = {}]
        /\ UNCHANGED <<emitted, line, worker, executed, done>>
    BY <1>4 DEF RelayCommit, history
  <2>2. Enqueued \in JobRows /\ Enqueued.status = "pending" /\ Enqueued.attempts = 0
    BY DEF Enqueued, JobRows, JobStatuses
  <2>3. \A j \in JobIds : /\ j[1] \in Events /\ j[2] \in Relays /\ j = <<j[1], j[2]>>
                          /\ jobs'[j] = jobs[j] \/ (jobs[j].status = "absent" /\ jobs'[j] = Enqueued)
    BY <2>1 DEF JobIds, RelayInv, RelayBatchIsNew
  <2>4. TypeOK'
    BY <1>1, <2>1, <2>2 DEF TypeOK
  <2>5. LineInv'
    BY <1>1, <2>1, <2>2, <2>3 DEF LineInv
  <2>6. WorkerInv'
    BY <1>1, <2>1, <2>2, <2>3 DEF WorkerInv
  <2>7. \A e \in Events, q \in Relays :
           /\ <<e, q>> \in JobIds
           /\ jobs'[<<e, q>>] = IF q = r /\ e \in relay[r] THEN Enqueued ELSE jobs[<<e, q>>]
    BY <2>1 DEF JobIds
  <2>8. RelayInv'
    <3>1. ASSUME NEW e \in Events \ published', NEW q \in Relays
          PROVE  jobs'[<<e, q>>].status = "absent"
      BY <2>1, <2>7 DEF RelayInv
    <3>2. ASSUME NEW q \in Relays, NEW e \in relay'[q]
          PROVE  jobs'[<<e, q>>].status = "absent"
      <4>1. q # r /\ e \in relay[q] /\ e \in Events
        BY <1>1, <2>1
      <4>2. QED
        BY <2>7, <4>1 DEF RelayInv, RelayBatchIsNew
    <3>3. ASSUME NEW e \in published'
          PROVE  \E q \in Relays : jobs'[<<e, q>>].status # "absent"
      <4>1. CASE e \in relay[r]
        BY <1>1, <2>2, <2>7, <4>1
      <4>2. CASE e \in published
        <5>1. PICK q \in Relays : jobs[<<e, q>>].status # "absent"
          BY <4>2 DEF RelayInv, NoEventLost
        <5>2. jobs'[<<e, q>>].status # "absent"
          BY <1>1, <2>2, <2>7, <4>2, <5>1
        <5>3. QED
          BY <5>2
      <4>3. QED
        BY <2>1, <4>1, <4>2
    <3>4. QED
      BY <3>1, <3>2, <3>3 DEF RelayInv, RelayBatchIsNew, NoEventLost
  <2>9. StatusMatchesAttempts'
    BY <1>1, <2>2, <2>3 DEF StatusMatchesAttempts
  <2>10. QED
    BY <2>4, <2>5, <2>6, <2>8, <2>9
<1>5. ASSUME NEW r \in Relays, RelayCrash(r) PROVE QueueInv'
  BY <1>5 DEF RelayCrash, history, TypeOK, LineInv, WorkerInv, RelayInv,
              RelayBatchIsNew, NoEventLost, StatusMatchesAttempts
<1>6. QED
  BY <1>2, <1>3, <1>4, <1>5 DEF RelayStep

\* The steps of a worker that leave the job table alone.
LEMMA WorkerSteps ==
    ASSUME QueueInv, NEW w \in Workers,
           ClaimBegin(w) \/ ClaimRollback(w) \/ FailRead(w) \/ Crash(w)
    PROVE  QueueInv'
<1> USE DEF QueueInv
<1>1. /\ jobs \in [JobIds -> JobRows] /\ worker \in [Workers -> WorkerStates]
      /\ line \in Seq(JobIds)
  BY DEF TypeOK
<1>2. UNCHANGED <<emitted, published, relay, jobs, line, executed, done>>
  BY DEF ClaimBegin, ClaimRollback, FailRead, Crash, outbox, history
<1>3. TypeOK' /\ WorkerInv'
  <2>1. CASE ClaimBegin(w)
    <3>1. PICK i \in DOMAIN line :
              /\ \A v \in Workers : ~Holds(v, line[i])
              /\ worker' = [worker EXCEPT ![w] =
                               [pc |-> "claiming", job |-> line[i], seen |-> 0]]
      BY <2>1 DEF ClaimBegin
    <3>2. line[i] \in JobIds
      BY <1>1
    <3>3. TypeOK'
      BY <1>1, <1>2, <3>1, <3>2 DEF TypeOK, WorkerStates
    <3>4. \A v \in Workers : worker'[v] = IF v = w
              THEN [pc |-> "claiming", job |-> line[i], seen |-> 0] ELSE worker[v]
      BY <1>1, <3>1
    <3>5. WorkerInv'
      BY <1>2, <3>1, <3>2, <3>4 DEF WorkerInv, Holds
    <3>6. QED
      BY <3>3, <3>5
  <2>2. CASE ClaimRollback(w) \/ Crash(w)
    <3>1. worker' = [worker EXCEPT ![w] = Idle]
      BY <2>2 DEF ClaimRollback, Crash
    <3>2. QED
      BY <1>1, <1>2, <3>1 DEF TypeOK, WorkerInv, WorkerStates, Idle
  <2>3. CASE FailRead(w)
    <3>1. worker[w].job \in JobIds /\ jobs[worker[w].job].attempts \in Nat
      BY <1>1, <2>3 DEF FailRead, WorkerInv, JobRows
    <3>2. \A v \in Workers :
             worker'[v] = IF v = w THEN [worker[w] EXCEPT !.pc = "failing",
                                                          !.seen = jobs[worker[w].job].attempts]
                                   ELSE worker[v]
      BY <1>1, <2>3 DEF FailRead
    <3>3. worker' \in [Workers -> WorkerStates]
      BY <1>1, <2>3, <3>1 DEF FailRead, WorkerStates
    <3>4. TypeOK'
      BY <1>2, <3>3 DEF TypeOK
    <3>5. WorkerInv'
      BY <1>1, <1>2, <2>3, <3>1, <3>2 DEF WorkerInv, FailRead, WorkerStates
    <3>6. QED
      BY <3>4, <3>5
  <2>4. QED
    BY <2>1, <2>2, <2>3
<1>4. QED
  BY <1>2, <1>3 DEF LineInv, RelayInv, RelayBatchIsNew, NoEventLost, StatusMatchesAttempts

\* The steps of the clock and the reaper.
LEMMA ClockSteps ==
    ASSUME QueueInv,
           Reap \/ \E j \in JobIds : ClockStep(j)
    PROVE  QueueInv'
<1> USE TaskQueueAssumptions DEF QueueInv
<1>1. /\ jobs \in [JobIds -> JobRows] /\ worker \in [Workers -> WorkerStates]
      /\ line \in Seq(JobIds) /\ published \in SUBSET Events
      /\ relay \in [Relays -> SUBSET Events]
  BY DEF TypeOK
<1>2. \A e \in Events, r \in Relays : <<e, r>> \in JobIds
  BY DEF JobIds
<1>3. ASSUME NEW j \in JobIds, BecomeDue(j) PROVE QueueInv'
  <2>1. /\ line' = Append(line, j) /\ jobs[j].status = "pending"
        /\ \A i \in DOMAIN line : line[i] # j
        /\ UNCHANGED <<emitted, published, relay, jobs, worker, executed, done>>
    BY <1>3 DEF BecomeDue, outbox, history
  <2>2. /\ line' \in Seq(JobIds) /\ Len(line') = Len(line) + 1
        /\ \A i \in 1..Len(line) : line'[i] = line[i]
        /\ line'[Len(line) + 1] = j
    BY <1>1, <2>1, AppendProperties
  <2>3. DOMAIN line = 1..Len(line) /\ DOMAIN line' = 1..(Len(line) + 1) /\ Len(line) \in Nat
    BY <1>1, <2>2
  <2>4. LineInv'
    BY <2>1, <2>2, <2>3 DEF LineInv
  <2>5. WorkerInv'
    BY <2>1, <2>2, <2>3 DEF WorkerInv
  <2>6. TypeOK' /\ RelayInv' /\ StatusMatchesAttempts'
    BY <2>1, <2>2 DEF TypeOK, RelayInv, RelayBatchIsNew, NoEventLost, StatusMatchesAttempts
  <2>7. QED
    BY <2>4, <2>5, <2>6
<1>4. ASSUME NEW j \in JobIds, BecomeStuck(j) PROVE QueueInv'
  <2>1. /\ jobs' = [jobs EXCEPT ![j].stuck = TRUE]
        /\ UNCHANGED <<emitted, published, relay, line, worker, executed, done>>
    BY <1>4 DEF BecomeStuck, outbox, history
  <2>2. \A k \in JobIds : /\ jobs'[k] \in JobRows
                          /\ jobs'[k].status = jobs[k].status
                          /\ jobs'[k].attempts = jobs[k].attempts
    BY <1>1, <2>1 DEF JobRows
  <2>3. TypeOK'
    BY <1>1, <2>1, <2>2 DEF TypeOK
  <2>4. LineInv' /\ WorkerInv'
    BY <1>1, <2>1, <2>2 DEF LineInv, WorkerInv
  <2>5. RelayInv'
    BY <1>1, <1>2, <2>1, <2>2 DEF RelayInv, RelayBatchIsNew, NoEventLost
  <2>6. StatusMatchesAttempts'
    BY <2>2 DEF StatusMatchesAttempts
  <2>7. QED
    BY <2>3, <2>4, <2>5, <2>6
<1>5. CASE Reap
  <2>1. /\ jobs' = [j \in JobIds |-> IF Reapable(jobs[j]) THEN Failed(jobs[j], MaxAttempts)
                                                          ELSE jobs[j]]
        /\ UNCHANGED <<emitted, published, relay, line, worker, executed, done>>
    BY <1>5 DEF Reap, outbox, history
  <2>2. ASSUME NEW j \in JobIds
        PROVE  /\ jobs'[j] \in JobRows
               /\ jobs'[j].status = "absent" <=> jobs[j].status = "absent"
               /\ jobs[j].status = "pending" => jobs'[j] = jobs[j]
               /\ jobs'[j] # jobs[j] =>
                     /\ jobs'[j].status = "dead" => jobs'[j].attempts >= MaxAttempts
                     /\ jobs'[j].status # "dead" => jobs'[j].attempts < MaxAttempts
    <3>1. jobs[j] \in JobRows /\ jobs[j].attempts \in Nat
      BY <1>1 DEF JobRows
    <3>2. CASE Reapable(jobs[j])
      <4>1. jobs'[j] = FailedAs(jobs[j], jobs[j].attempts, MaxAttempts)
        BY <2>1, <3>2 DEF Failed
      <4>2. /\ jobs'[j] \in JobRows
            /\ jobs'[j].attempts = jobs[j].attempts + 1
            /\ jobs'[j].status =
                  IF jobs[j].attempts + 1 >= MaxAttempts THEN "dead" ELSE "pending"
        <5> DEFINE row == FailedAs(jobs[j], jobs[j].attempts, MaxAttempts)
        <5>1. /\ row \in JobRows
              /\ row.attempts = jobs[j].attempts + 1
              /\ row.status = IF jobs[j].attempts + 1 >= MaxAttempts THEN "dead" ELSE "pending"
          BY <3>1, RowFacts
        <5> HIDE DEF row
        <5>2. QED
          BY <4>1, <5>1 DEF row
      <4>3. QED
        BY <3>1, <3>2, <4>2 DEF Reapable
    <3>3. CASE ~Reapable(jobs[j])
      BY <2>1, <3>1, <3>3
    <3>4. QED
      BY <3>2, <3>3
  <2>3. TypeOK'
    <3>1. jobs' \in [JobIds -> JobRows]
      BY <2>1, <2>2
    <3>2. QED
      BY <2>1, <3>1 DEF TypeOK
  <2>4. LineInv' /\ WorkerInv'
    BY <1>1, <2>1, <2>2 DEF LineInv, WorkerInv
  <2>5. RelayInv'
    BY <1>1, <1>2, <2>1, <2>2 DEF RelayInv, RelayBatchIsNew, NoEventLost
  <2>6. StatusMatchesAttempts'
    BY <2>2 DEF StatusMatchesAttempts
  <2>7. QED
    BY <2>3, <2>4, <2>5, <2>6
<1>6. QED
  BY <1>3, <1>4, <1>5 DEF ClockStep

\* Every step preserves the invariant.
LEMMA StepInv == QueueInv /\ [Next]_vars => QueueInv'
<1> SUFFICES ASSUME QueueInv, [Next]_vars PROVE QueueInv'
  OBVIOUS
<1>1. CASE EmitEvent \/ \E r \in Relays : RelayStep(r)
  BY <1>1, RelaySteps
<1>2. ASSUME NEW w \in Workers, WorkerStep(w) PROVE QueueInv'
  BY <1>2, RowSteps, WorkerSteps DEF WorkerStep
<1>3. CASE Reap \/ \E j \in JobIds : ClockStep(j)
  BY <1>3, ClockSteps
<1>4. CASE UNCHANGED vars
  BY <1>4 DEF vars, QueueInv, TypeOK, LineInv, WorkerInv, RelayInv, RelayBatchIsNew,
              NoEventLost, StatusMatchesAttempts
<1>5. QED
  BY <1>1, <1>2, <1>3, <1>4 DEF Next

\* QueueInv holds in every reachable state.
LEMMA QueueInvariance == Spec => []QueueInv
  BY InitInv, StepInv, PTL DEF Spec

\* The rows of the queue, the outbox and the workers stay well-formed.
THEOREM TypeCorrect == Spec => []TypeOK
  BY QueueInvariance, PTL DEF QueueInv

\* fail() keeps the status of a row and its count of attempts in agreement,
\* although it may write a count that is out of date.
THEOREM StatusAgrees == Spec => []StatusMatchesAttempts
  BY QueueInvariance, PTL DEF QueueInv

\* The relay loses no event.
THEOREM RelayLosesNothing == Spec => []NoEventLost
<1>1. QueueInv => NoEventLost
  BY DEF QueueInv, RelayInv
<1>2. QED
  BY <1>1, QueueInvariance, PTL

\* What an open relay transaction has read was not relayed by it before.
THEOREM RelayRepeatsNothing == Spec => []RelayBatchIsNew
<1>1. QueueInv => RelayBatchIsNew
  BY DEF QueueInv, RelayInv
<1>2. QED
  BY <1>1, QueueInvariance, PTL

\* The row a start transaction holds is pending and due until it commits.
THEOREM ClaimIsFresh == Spec => []ClaimedRowIsPending
<1>1. QueueInv => ClaimedRowIsPending
  BY DEF QueueInv, WorkerInv, LineInv, ClaimedRowIsPending, Range
<1>2. QED
  BY <1>1, QueueInvariance, PTL

------------------------------------------------------------------------------
(* The promises that hold while no live worker outlasts the threshold *)

\* A worker past its start transaction is the only one on its job, its claim
\* is current and what fail() read is still so.
SoleWorker ==
    /\ \A w \in Workers : worker[w].pc \in {"working", "failing"} =>
          /\ jobs[worker[w].job].status = "running"
          /\ ~jobs[worker[w].job].stuck
          /\ worker[w].pc = "failing" => worker[w].seen = jobs[worker[w].job].attempts
    /\ \A v, w \in Workers :
          /\ worker[v].pc \in {"working", "failing"}
          /\ worker[w].pc \in {"working", "failing"}
          /\ worker[v].job = worker[w].job
          => v = w

\* Every execution but the one under way, or the one that succeeded, has been
\* paid for with an attempt.
Counted(row, runs, effects) ==
    /\ row.status = "absent" => runs = 0
    /\ runs <= row.attempts + (IF row.status \in {"running", "succeeded"} THEN 1 ELSE 0)
    /\ row.status = "dead" => row.attempts <= MaxAttempts
    /\ row.status = "succeeded" => row.attempts < MaxAttempts
    /\ effects <= (IF row.status = "succeeded" THEN 1 ELSE 0)

PromptInv == SoleWorker /\ \A j \in JobIds : Counted(jobs[j], executed[j], done[j])

\* PromptInv holds initially.
LEMMA PromptInit == Init => PromptInv
  BY DEF Init, PromptInv, SoleWorker, Counted, Idle, NoJob

\* The four actions that rewrite the row of a worker's job.
LEMMA PromptRowSteps ==
    ASSUME QueueInv, PromptInv, NEW w \in Workers,
           ClaimCommit(w) \/ ClaimFail(w) \/ Complete(w) \/ FailCommit(w)
    PROVE  PromptInv'
<1> DEFINE j == worker[w].job
<1> USE TaskQueueAssumptions
<1>1. /\ jobs \in [JobIds -> JobRows] /\ worker \in [Workers -> WorkerStates]
      /\ executed \in [JobIds -> Nat] /\ done \in [JobIds -> Nat]
  BY DEF QueueInv, TypeOK
<1>2. j \in JobIds /\ worker[w].pc # "idle"
  BY DEF QueueInv, WorkerInv, ClaimCommit, ClaimFail, Complete, FailCommit
<1>3. jobs[j] \in JobRows /\ jobs[j].attempts \in Nat
  BY <1>1, <1>2 DEF JobRows
<1>4. worker[w].pc = "claiming" => jobs[j].status = "pending" /\ jobs[j].attempts < MaxAttempts
  BY <1>2 DEF QueueInv, WorkerInv, LineInv, StatusMatchesAttempts
<1>5. worker[w].pc # "claiming" =>
          /\ jobs[j].status = "running" /\ jobs[j].attempts < MaxAttempts
          /\ worker[w].pc = "failing" => worker[w].seen = jobs[j].attempts
  BY <1>1, <1>2 DEF PromptInv, SoleWorker, WorkerStates, QueueInv, StatusMatchesAttempts
<1>6. \A v \in Workers : v # w /\ worker[v].pc \in {"working", "failing"} => worker[v].job # j
  BY <1>1, <1>2, <1>4 DEF PromptInv, SoleWorker, WorkerStates
<1>7. Counted(jobs[j], executed[j], done[j]) /\ executed[j] \in Nat /\ done[j] \in Nat
  BY <1>1, <1>2 DEF PromptInv
<1>8. ASSUME NEW row \in JobRows, jobs' = [jobs EXCEPT ![j] = row],
             NEW ws, worker' = [worker EXCEPT ![w] = ws],
             \/ ws = Idle
             \/ ws = [worker[w] EXCEPT !.pc = "working"] /\ row.status = "running" /\ ~row.stuck,
             \A k \in JobIds : k # j => executed'[k] = executed[k] /\ done'[k] = done[k],
             Counted(row, executed'[j], done'[j])
      PROVE  PromptInv'
  <2>1. \A k \in JobIds : jobs'[k] = IF k = j THEN row ELSE jobs[k]
    BY <1>1, <1>8
  <2>2. \A v \in Workers : worker'[v] = IF v = w THEN ws ELSE worker[v]
    BY <1>1, <1>8
  <2>3. \A v \in Workers : worker[v].pc \in {"working", "failing"} => worker[v].job \in JobIds
    BY DEF QueueInv, WorkerInv
  <2>4. ws.pc = "idle" \/ (ws.pc = "working" /\ ws.job = j /\ row.status = "running" /\ ~row.stuck)
    BY <1>1, <1>8 DEF Idle, WorkerStates
  <2>5. SoleWorker'
    <3> HIDE DEF j
    <3>1. ASSUME NEW v \in Workers, worker'[v].pc \in {"working", "failing"}
          PROVE  /\ jobs'[worker'[v].job].status = "running"
                 /\ ~jobs'[worker'[v].job].stuck
                 /\ worker'[v].pc = "failing" =>
                       worker'[v].seen = jobs'[worker'[v].job].attempts
      <4>1. CASE v = w
        BY <1>2, <2>1, <2>2, <2>4, <3>1, <4>1 DEF j
      <4>2. CASE v # w
        BY <1>6, <2>1, <2>2, <2>3, <3>1, <4>2 DEF PromptInv, SoleWorker
      <4>3. QED
        BY <4>1, <4>2
    <3>2. ASSUME NEW u \in Workers, NEW v \in Workers,
                 worker'[u].pc \in {"working", "failing"},
                 worker'[v].pc \in {"working", "failing"},
                 worker'[u].job = worker'[v].job
          PROVE  u = v
      BY <1>6, <2>2, <2>4, <3>2 DEF PromptInv, SoleWorker
    <3>3. QED
      BY <3>1, <3>2 DEF SoleWorker
  <2>6. ASSUME NEW k \in JobIds PROVE Counted(jobs'[k], executed'[k], done'[k])
    BY <1>8, <2>1 DEF PromptInv
  <2>7. QED
    BY <2>5, <2>6 DEF PromptInv
<1>9. CASE ClaimCommit(w)
  <2>1. /\ Claimed(jobs[j]) \in JobRows /\ Claimed(jobs[j]).status = "running"
        /\ Claimed(jobs[j]).attempts = jobs[j].attempts /\ Claimed(jobs[j]).stuck = FALSE
    BY <1>3, RowFacts
  <2>2. /\ jobs' = [jobs EXCEPT ![j] = Claimed(jobs[j])]
        /\ worker' = [worker EXCEPT ![w] = [worker[w] EXCEPT !.pc = "working"]]
        /\ executed' = [executed EXCEPT ![j] = executed[j] + 1] /\ done' = done
        /\ worker[w].pc = "claiming"
    BY <1>1, <1>9 DEF ClaimCommit
  <2>3. Counted(Claimed(jobs[j]), executed'[j], done'[j])
    <3>1. executed'[j] = executed[j] + 1 /\ done'[j] = done[j]
      BY <1>1, <1>2, <2>2
    <3>2. executed[j] <= jobs[j].attempts /\ done[j] <= 0
      BY <1>3, <1>4, <1>7, <2>2 DEF Counted
    <3>3. QED
      BY <1>3, <1>7, <2>1, <3>1, <3>2 DEF Counted
  <2>4. \A k \in JobIds : k # j => executed'[k] = executed[k] /\ done'[k] = done[k]
    BY <1>1, <2>2
  <2> HIDE DEF j
  <2>5. QED
    BY <1>8, <2>1, <2>2, <2>3, <2>4
<1>10. CASE ClaimFail(w) \/ FailCommit(w)
  <2> DEFINE old == IF ClaimFail(w) THEN Claimed(jobs[j]) ELSE jobs[j]
             row == FailedAs(old, jobs[j].attempts, MaxAttempts)
  <2>1. old \in JobRows /\ old.attempts = jobs[j].attempts
    BY <1>3, RowFacts
  <2>2. /\ row \in JobRows /\ row.attempts = jobs[j].attempts + 1
        /\ row.status = IF jobs[j].attempts + 1 >= MaxAttempts THEN "dead" ELSE "pending"
    BY <1>3, <2>1, RowFacts
  <2>3. /\ worker' = [worker EXCEPT ![w] = Idle] /\ executed' = executed /\ done' = done
        /\ jobs[j].status \in {"pending", "running"} /\ jobs[j].attempts < MaxAttempts
    BY <1>4, <1>5, <1>10 DEF ClaimFail, FailCommit, history
  <2>4. jobs' = [jobs EXCEPT ![j] = row]
    <3>1. CASE ClaimFail(w)
      BY <3>1, <2>1 DEF ClaimFail, Failed
    <3>2. CASE ~ClaimFail(w)
      BY <1>5, <1>10, <3>2 DEF FailCommit
    <3>3. QED
      BY <3>1, <3>2
  <2>5. Counted(row, executed'[j], done'[j])
    <3> HIDE DEF row
    <3>1. executed[j] <= jobs[j].attempts + 1 /\ done[j] <= 0
      BY <1>3, <1>7, <2>3 DEF Counted
    <3>2. QED
      BY <1>3, <1>7, <2>2, <2>3, <3>1 DEF Counted
  <2> HIDE DEF j, row
  <2>6. QED
    BY <1>8, <2>2, <2>3, <2>4, <2>5
<1>11. CASE Complete(w)
  <2>1. /\ Completed(jobs[j]) \in JobRows /\ Completed(jobs[j]).status = "succeeded"
        /\ Completed(jobs[j]).attempts = jobs[j].attempts
    BY <1>3, RowFacts
  <2>2. /\ jobs' = [jobs EXCEPT ![j] = Completed(jobs[j])]
        /\ worker' = [worker EXCEPT ![w] = Idle] /\ executed' = executed
        /\ done' = [done EXCEPT ![j] = done[j] + 1]
        /\ jobs[j].status = "running" /\ jobs[j].attempts < MaxAttempts
    BY <1>1, <1>5, <1>11 DEF Complete
  <2>3. Counted(Completed(jobs[j]), executed'[j], done'[j])
    <3>1. done'[j] = done[j] + 1 /\ executed'[j] = executed[j]
      BY <1>1, <1>2, <2>2
    <3>2. executed[j] <= jobs[j].attempts + 1 /\ done[j] <= 0
      BY <1>3, <1>7, <2>2 DEF Counted
    <3>3. QED
      BY <1>3, <1>7, <2>1, <2>2, <3>1, <3>2 DEF Counted
  <2>4. \A k \in JobIds : k # j => executed'[k] = executed[k] /\ done'[k] = done[k]
    BY <1>1, <2>2
  <2> HIDE DEF j
  <2>5. QED
    BY <1>8, <2>1, <2>2, <2>3, <2>4
<1>12. QED
  BY <1>9, <1>10, <1>11

\* The remaining steps.
LEMMA PromptStep ==
    ASSUME ~SlowWorkers, QueueInv, PromptInv, [Next]_vars
    PROVE  PromptInv'
<1> USE TaskQueueAssumptions
<1>1. /\ jobs \in [JobIds -> JobRows] /\ worker \in [Workers -> WorkerStates]
      /\ executed \in [JobIds -> Nat] /\ done \in [JobIds -> Nat]
  BY DEF QueueInv, TypeOK
<1>2. \A w \in Workers : worker[w].pc # "idle" => worker[w].job \in JobIds
  BY DEF QueueInv, WorkerInv
<1>3. CASE UNCHANGED <<jobs, worker, executed, done>>
  BY <1>3 DEF PromptInv, SoleWorker
<1>4. ASSUME NEW r \in Relays, RelayCommit(r) PROVE PromptInv'
  <2>1. /\ jobs' = [j \in JobIds |-> IF j[2] = r /\ j[1] \in relay[r] THEN Enqueued ELSE jobs[j]]
        /\ UNCHANGED <<worker, executed, done>>
    BY <1>4 DEF RelayCommit, history
  <2>2. \A j \in JobIds : jobs'[j] = jobs[j] \/ (jobs[j].status = "absent" /\ jobs'[j] = Enqueued)
    BY <2>1 DEF JobIds, QueueInv, RelayInv, RelayBatchIsNew
  <2>3. Enqueued.status = "pending" /\ Enqueued.attempts = 0
    BY DEF Enqueued
  <2>4. SoleWorker'
    BY <1>2, <2>1, <2>2 DEF PromptInv, SoleWorker
  <2>5. ASSUME NEW j \in JobIds PROVE Counted(jobs'[j], executed'[j], done'[j])
    BY <1>1, <2>1, <2>2, <2>3 DEF PromptInv, Counted
  <2>6. QED
    BY <2>4, <2>5 DEF PromptInv
<1>5. ASSUME NEW w \in Workers, ClaimBegin(w) PROVE PromptInv'
  <2>1. PICK i \in DOMAIN line :
           worker' = [worker EXCEPT ![w] = [pc |-> "claiming", job |-> line[i], seen |-> 0]]
    BY <1>5 DEF ClaimBegin
  <2>2. UNCHANGED <<jobs, executed, done>>
    BY <1>5 DEF ClaimBegin, history
  <2>3. \A v \in Workers : worker'[v].pc \in {"working", "failing"} => worker'[v] = worker[v]
    BY <1>1, <2>1
  <2>4. QED
    BY <2>2, <2>3 DEF PromptInv, SoleWorker
<1>6. ASSUME NEW w \in Workers, ClaimRollback(w) \/ Crash(w) PROVE PromptInv'
  <2>1. worker' = [worker EXCEPT ![w] = Idle] /\ UNCHANGED <<jobs, executed, done>>
    BY <1>6 DEF ClaimRollback, Crash, history
  <2>2. \A v \in Workers : worker'[v].pc \in {"working", "failing"} => worker'[v] = worker[v]
    BY <1>1, <2>1 DEF Idle
  <2>3. QED
    BY <2>1, <2>2 DEF PromptInv, SoleWorker
<1>7. ASSUME NEW w \in Workers, FailRead(w) PROVE PromptInv'
  <2>1. /\ worker[w].pc = "working" /\ UNCHANGED <<jobs, executed, done>>
        /\ worker' = [worker EXCEPT ![w].pc = "failing",
                                    ![w].seen = jobs[worker[w].job].attempts]
    BY <1>7 DEF FailRead, history
  <2>2. \A v \in Workers :
           /\ v # w => worker'[v] = worker[v]
           /\ v = w => /\ worker'[v].job = worker[v].job /\ worker'[v].pc = "failing"
                       /\ worker'[v].seen = jobs[worker[w].job].attempts
    BY <1>1, <2>1 DEF WorkerStates
  <2>3. \A v \in Workers : /\ worker'[v].pc \in {"working", "failing"} =>
                                worker[v].pc \in {"working", "failing"}
                           /\ worker'[v].job = worker[v].job
    BY <2>1, <2>2
  <2>4. SoleWorker'
    <3>1. ASSUME NEW v \in Workers, worker'[v].pc \in {"working", "failing"}
          PROVE  /\ jobs'[worker'[v].job].status = "running"
                 /\ ~jobs'[worker'[v].job].stuck
                 /\ worker'[v].pc = "failing" =>
                       worker'[v].seen = jobs'[worker'[v].job].attempts
      <4>1. jobs' = jobs /\ worker'[v].job = worker[v].job
        BY <2>1, <2>3
      <4>2. jobs[worker[v].job].status = "running" /\ ~jobs[worker[v].job].stuck
        BY <2>3, <3>1 DEF PromptInv, SoleWorker
      <4>3. worker'[v].pc = "failing" => worker'[v].seen = jobs[worker[v].job].attempts
        <5>1. CASE v = w
          BY <2>2, <5>1
        <5>2. CASE v # w
          BY <2>2, <2>3, <3>1, <5>2 DEF PromptInv, SoleWorker
        <5>3. QED
          BY <5>1, <5>2
      <4>4. QED
        BY <4>1, <4>2, <4>3
    <3>2. QED
      BY <2>3, <3>1 DEF PromptInv, SoleWorker
  <2>5. QED
    BY <2>1, <2>4 DEF PromptInv
<1>8. ASSUME NEW j \in JobIds, BecomeStuck(j) PROVE PromptInv'
  <2>1. /\ jobs' = [jobs EXCEPT ![j].stuck = TRUE] /\ UNCHANGED <<worker, executed, done>>
        /\ \A w \in Workers : ~WorkingOn(w, j)
    BY <1>8 DEF BecomeStuck, history
  <2>2. \A k \in JobIds : /\ k # j => jobs'[k] = jobs[k]
                          /\ jobs'[k].status = jobs[k].status
                          /\ jobs'[k].attempts = jobs[k].attempts
    BY <1>1, <2>1 DEF JobRows
  <2>3. SoleWorker'
    BY <1>2, <2>1, <2>2 DEF PromptInv, SoleWorker, WorkingOn
  <2>4. ASSUME NEW k \in JobIds PROVE Counted(jobs'[k], executed'[k], done'[k])
    BY <2>1, <2>2 DEF PromptInv, Counted
  <2>5. QED
    BY <2>3, <2>4 DEF PromptInv
<1>9. CASE Reap
  <2>1. /\ jobs' = [j \in JobIds |-> IF Reapable(jobs[j]) THEN Failed(jobs[j], MaxAttempts)
                                                          ELSE jobs[j]]
        /\ UNCHANGED <<worker, executed, done>>
    BY <1>9 DEF Reap, history
  <2>2. SoleWorker'
    BY <1>2, <2>1 DEF PromptInv, SoleWorker, Reapable
  <2>3. ASSUME NEW j \in JobIds PROVE Counted(jobs'[j], executed'[j], done'[j])
    <3>1. Counted(jobs[j], executed[j], done[j]) /\ executed[j] \in Nat /\ done[j] \in Nat
      BY <1>1 DEF PromptInv
    <3>2. CASE Reapable(jobs[j])
      <4> DEFINE row == FailedAs(jobs[j], jobs[j].attempts, MaxAttempts)
      <4>1. jobs[j] \in JobRows /\ jobs[j].attempts \in Nat /\ jobs[j].status = "running"
        BY <1>1, <3>2 DEF JobRows, Reapable
      <4>2. /\ row.attempts = jobs[j].attempts + 1
            /\ row.status = IF jobs[j].attempts + 1 >= MaxAttempts THEN "dead" ELSE "pending"
        BY <4>1, RowFacts
      <4>3. jobs[j].attempts < MaxAttempts
        BY <4>1 DEF QueueInv, StatusMatchesAttempts
      <4>4. jobs'[j] = row
        BY <2>1, <3>2 DEF Failed
      <4> HIDE DEF row
      <4>5. executed[j] <= jobs[j].attempts + 1 /\ done[j] <= 0
        BY <3>1, <4>1 DEF Counted
      <4>6. Counted(row, executed[j], done[j])
        BY <3>1, <4>1, <4>2, <4>3, <4>5 DEF Counted
      <4>7. QED
        BY <2>1, <4>4, <4>6
    <3>3. CASE ~Reapable(jobs[j])
      BY <2>1, <3>1, <3>3
    <3>4. QED
      BY <3>2, <3>3
  <2>4. QED
    BY <2>2, <2>3 DEF PromptInv
<1>10. EmitEvent => UNCHANGED <<jobs, worker, executed, done>>
  BY DEF EmitEvent, history
<1>11. \A r \in Relays : RelayRead(r) \/ RelayCrash(r) => UNCHANGED <<jobs, worker, executed, done>>
  BY DEF RelayRead, RelayCrash, history
<1>12. \A j \in JobIds : BecomeDue(j) => UNCHANGED <<jobs, worker, executed, done>>
  BY DEF BecomeDue, history
<1>13. UNCHANGED vars => UNCHANGED <<jobs, worker, executed, done>>
  BY DEF vars
<1>14. QED
  BY <1>3, <1>4, <1>5, <1>6, <1>7, <1>8, <1>9, <1>10, <1>11, <1>12, <1>13, PromptRowSteps
  DEF Next, RelayStep, WorkerStep, ClockStep

\* Without slow workers PromptInv holds in every reachable state.
LEMMA PromptInvariance == ~SlowWorkers /\ Spec => [](QueueInv /\ PromptInv)
<1>1. ~SlowWorkers /\ QueueInv /\ PromptInv /\ [Next]_vars => PromptInv'
  BY PromptStep
<1>2. CASE ~SlowWorkers
  <2>1. QueueInv /\ PromptInv /\ [Next]_vars => PromptInv'
    BY <1>1, <1>2
  <2>2. QED
    BY <2>1, PromptInit, QueueInvariance, PTL DEF Spec
<1>3. QED
  BY <1>2

\* A job whose workers all report within the threshold has one worker at a
\* time, and the reaper never takes it from a live one.
THEOREM OneWorker == ~SlowWorkers /\ Spec => []OneWorkerPerJob
<1>1. QueueInv /\ PromptInv => OneWorkerPerJob
  BY DEF PromptInv, SoleWorker, OneWorkerPerJob, WorkingOn
<1>2. QED
  BY <1>1, PromptInvariance, PTL

\* It is executed at most max_attempts times.
THEOREM RetriesBounded == ~SlowWorkers /\ Spec => []BoundedExecutions
<1>1. QueueInv /\ PromptInv => BoundedExecutions
  <2> SUFFICES ASSUME QueueInv, PromptInv, NEW j \in JobIds
               PROVE  executed[j] <= MaxAttempts
    BY DEF BoundedExecutions
  <2>1. /\ Counted(jobs[j], executed[j], done[j])
        /\ jobs[j] \in JobRows /\ executed[j] \in Nat
    BY DEF QueueInv, TypeOK, PromptInv
  <2>2. jobs[j].attempts \in Nat /\ jobs[j].status \in JobStatuses
    BY <2>1 DEF JobRows
  <2>3. jobs[j].status \in {"absent", "pending", "running"} => jobs[j].attempts < MaxAttempts
    BY DEF QueueInv, StatusMatchesAttempts
  <2>4. QED
    BY <2>1, <2>2, <2>3, TaskQueueAssumptions DEF Counted, JobStatuses
<1>2. QED
  BY <1>1, PromptInvariance, PTL

\* Its effects are committed at most once.
THEOREM EffectsAtMostOnce == ~SlowWorkers /\ Spec => []EffectsOnce
<1>1. QueueInv /\ PromptInv => EffectsOnce
  <2> SUFFICES ASSUME QueueInv, PromptInv, NEW j \in JobIds PROVE done[j] <= 1
    BY DEF EffectsOnce
  <2>1. Counted(jobs[j], executed[j], done[j]) /\ done[j] \in Nat
    BY DEF QueueInv, TypeOK, PromptInv
  <2>2. QED
    BY <2>1 DEF Counted
<1>2. QED
  BY <1>1, PromptInvariance, PTL
\* The row of a settled job survives every step.
LEMMA SettledStep ==
    ASSUME QueueInv, PromptInv, [Next]_vars,
           NEW j \in JobIds, jobs[j].status \in {"succeeded", "dead"}
    PROVE  jobs'[j] = jobs[j]
<1>1. jobs \in [JobIds -> JobRows]
  BY DEF QueueInv, TypeOK
<1>2. \A w \in Workers : worker[w].pc = "claiming" => worker[w].job # j
  BY DEF QueueInv, WorkerInv, LineInv
<1>3. \A w \in Workers : worker[w].pc \in {"working", "failing"} => worker[w].job # j
  BY DEF PromptInv, SoleWorker
<1>4. \A r \in Relays : ~(j[2] = r /\ j[1] \in relay[r])
  <2> SUFFICES ASSUME NEW r \in Relays, j[2] = r, j[1] \in relay[r] PROVE FALSE
    OBVIOUS
  <2>1. j = <<j[1], r>>
    BY DEF JobIds
  <2>2. jobs[<<j[1], r>>].status = "absent"
    BY DEF QueueInv, RelayInv, RelayBatchIsNew
  <2>3. QED
    BY <2>1, <2>2
<1>5. CASE EmitEvent \/ UNCHANGED vars
  BY <1>5 DEF EmitEvent, vars
<1>6. ASSUME NEW r \in Relays, RelayStep(r) PROVE jobs'[j] = jobs[j]
  BY <1>1, <1>4, <1>6 DEF RelayStep, RelayRead, RelayCommit, RelayCrash
<1>7. ASSUME NEW w \in Workers, WorkerStep(w) PROVE jobs'[j] = jobs[j]
  <2>1. CASE ClaimBegin(w) \/ ClaimRollback(w) \/ FailRead(w) \/ Crash(w)
    BY <2>1 DEF ClaimBegin, ClaimRollback, FailRead, Crash
  <2>2. CASE ClaimCommit(w) \/ ClaimFail(w)
    BY <1>1, <1>2, <2>2 DEF ClaimCommit, ClaimFail
  <2>3. CASE Complete(w) \/ FailCommit(w)
    BY <1>1, <1>3, <2>3 DEF Complete, FailCommit
  <2>4. QED
    BY <1>7, <2>1, <2>2, <2>3 DEF WorkerStep
<1>8. ASSUME NEW k \in JobIds, ClockStep(k) PROVE jobs'[j] = jobs[j]
  BY <1>1, <1>8 DEF ClockStep, BecomeDue, BecomeStuck
<1>9. CASE Reap
  BY <1>1, <1>9 DEF Reap, Reapable
<1>10. QED
  BY <1>5, <1>6, <1>7, <1>8, <1>9 DEF Next

\* A job that succeeded or is dead is never written again, although complete()
\* and fail() do not look at the status they overwrite.
THEOREM SettledStays == ~SlowWorkers /\ Spec => SettledForGood
<1>1. QueueInv /\ PromptInv /\ [Next]_vars =>
        [\A j \in JobIds : jobs[j].status \in {"succeeded", "dead"} => jobs'[j] = jobs[j]]_vars
  BY SettledStep
<1>2. QED
  BY <1>1, PromptInvariance, PTL DEF Spec, SettledForGood
=============================================================================
