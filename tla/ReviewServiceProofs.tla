------------------------- MODULE ReviewServiceProofs -------------------------
(***************************************************************************)
(* The invariants of ReviewService, proved for every set of pull requests, *)
(* deliveries and concurrent requests, any number of crashes, with or      *)
(* without storage faults, and with or without recovery at startup.        *)
(***************************************************************************)
EXTENDS ReviewService, SequenceTheorems, TLAPS

-----------------------------------------------------------------------------
(* What the storage operations do to the tables.                           *)

\* A field of a row the store never writes after the insert.
SameOrigin(new, old) ==
  /\ new.pr = old.pr /\ new.origin = old.origin
  /\ new.created_at = old.created_at /\ new.trigger = old.trigger

\* update_job_status changes the status and detail of one row and keeps the
\* table a table.
LEMMA UpdateJobStatusFacts ==
  ASSUME NEW js \in Seq(JobRows), NEW j \in DOMAIN js,
         NEW s \in JobStatuses, NEW det \in StatusDetails,
         NEW new, new = UpdateJobStatus(js, j, s, det)
  PROVE  /\ new \in Seq(JobRows)
         /\ DOMAIN new = DOMAIN js
         /\ \A i \in DOMAIN js : i # j => new[i] = js[i]
         /\ new[j].status = s /\ new[j].detail = det
         /\ SameOrigin(new[j], js[j])
<1> DEFINE row == [js[j] EXCEPT !.status = s, !.detail = det]
<1>1. js[j] \in JobRows /\ j \in 1 .. Len(js)
  BY ElementOfSeq, LenProperties
<1>2. row \in JobRows /\ row.status = s /\ row.detail = det
      /\ SameOrigin(row, js[j])
  BY <1>1 DEF JobRows, SameOrigin
<1>3. new = [js EXCEPT ![j] = row]
  BY DEF UpdateJobStatus
<1> HIDE DEF row
<1>4. QED
  BY <1>1, <1>2, <1>3, ExceptSeq, LenProperties

\* new is old with a pending job n of pull request p and delivery d.
JobInserted(old, new, n, p, d) ==
  /\ new \in Seq(JobRows)
  /\ n \in Nat /\ n # NoJob /\ n = Len(old) + 1
  /\ n \notin DOMAIN old /\ DOMAIN new = DOMAIN old \cup {n}
  /\ \A i \in DOMAIN old : new[i] = old[i]
  /\ new[n].status = "pending" /\ new[n].pr = p /\ new[n].origin = d

\* insert_job adds one pending row, with a new id, at the end.
LEMMA InsertJobFacts ==
  ASSUME NEW js \in Seq(JobRows), NEW p \in PRs, NEW kind \in TriggerKinds,
         NEW now \in Nat, NEW d \in Deliveries
  PROVE  LET new == InsertJob(js, p, kind, now, d)
         IN JobInserted(js, new, Len(new), p, d)
<1> DEFINE row == [pr |-> p, trigger |-> kind, status |-> "pending",
                   detail |-> "none", created_at |-> now, origin |-> d]
           new == InsertJob(js, p, kind, now, d)
<1>1. row \in JobRows
  BY DEF JobRows, JobStatuses, StatusDetails
<1>2. row.status = "pending" /\ row.pr = p /\ row.origin = d
  OBVIOUS
<1>3. new = Append(js, row)
  BY DEF InsertJob
<1> HIDE DEF row, new
<1>4. Len(js) \in Nat /\ DOMAIN js = 1 .. Len(js)
  BY LenProperties
<1>5. /\ new \in Seq(JobRows) /\ Len(new) = Len(js) + 1
      /\ \A i \in 1 .. Len(js) : new[i] = js[i]
      /\ new[Len(js) + 1] = row
  BY <1>1, <1>3, <1>4
<1>6. DOMAIN new = 1 .. Len(js) + 1
  BY <1>5, LenProperties
<1>7. JobInserted(js, new, Len(new), p, d)
  BY <1>2, <1>4, <1>5, <1>6 DEF NoJob, JobInserted
<1>8. QED
  BY <1>7 DEF new

\* The first statement of recover_on_startup turns running rows into failed
\* ones and leaves the others alone.
LEMMA FailRunningFacts ==
  ASSUME NEW js \in Seq(JobRows), NEW new, new = FailRunning(js)
  PROVE  /\ new \in Seq(JobRows)
         /\ DOMAIN new = DOMAIN js
         /\ \A i \in DOMAIN js :
              /\ SameOrigin(new[i], js[i])
              /\ js[i].status # "running" => new[i] = js[i]
              /\ js[i].status = "running" =>
                   /\ new[i].status = "failed"
                   /\ new[i].detail = "interrupted_by_restart"
<1>1. DOMAIN js = 1 .. Len(js) /\ Len(js) \in Nat
  BY LenProperties
<1>2. \A i \in 1 .. Len(js) : js[i] \in JobRows
  BY ElementOfSeq
<1>3. new = [i \in 1 .. Len(js) |->
               IF js[i].status = "running"
                 THEN [js[i] EXCEPT !.status = "failed",
                                    !.detail = "interrupted_by_restart"]
                 ELSE js[i]]
  BY <1>1 DEF FailRunning
<1>4. \A i \in 1 .. Len(js) :
        /\ new[i] \in JobRows
        /\ SameOrigin(new[i], js[i])
        /\ js[i].status # "running" => new[i] = js[i]
        /\ js[i].status = "running" =>
             /\ new[i].status = "failed"
             /\ new[i].detail = "interrupted_by_restart"
  <2> SUFFICES ASSUME NEW i \in 1 .. Len(js)
               PROVE  /\ new[i] \in JobRows
                      /\ SameOrigin(new[i], js[i])
                      /\ js[i].status # "running" => new[i] = js[i]
                      /\ js[i].status = "running" =>
                           /\ new[i].status = "failed"
                           /\ new[i].detail = "interrupted_by_restart"
    OBVIOUS
  <2>1. js[i] \in JobRows
    BY <1>2
  <2>2. CASE js[i].status # "running"
    BY <2>1, <2>2, <1>3 DEF SameOrigin
  <2>3. CASE js[i].status = "running"
    <3>1. new[i] = [js[i] EXCEPT !.status = "failed",
                                 !.detail = "interrupted_by_restart"]
      BY <1>3, <2>3
    <3>2. QED
      BY <2>1, <2>3, <3>1
         DEF JobRows, JobStatuses, StatusDetails, SameOrigin
  <2>4. QED
    BY <2>2, <2>3
<1>5. new \in [1 .. Len(js) -> JobRows]
  BY <1>3, <1>4
<1>6. new \in Seq(JobRows)
  BY <1>1, <1>5, SeqDef
<1>7. QED
  BY <1>1, <1>3, <1>4, <1>6

\* new is old with one more row, for job j of pull request p.
ReviewInserted(old, new, j, p) ==
  /\ new \in Seq(ReviewRows)
  /\ \E n : /\ n \notin DOMAIN old /\ DOMAIN new = DOMAIN old \cup {n}
            /\ \A i \in DOMAIN old : new[i] = old[i]
            /\ new[n].job = j /\ new[n].pr = p

\* record_review_posted adds one row at the end.
LEMMA RecordReviewPostedFacts ==
  ASSUME NEW rs \in Seq(ReviewRows), NEW j \in Nat, NEW p \in PRs
  PROVE  ReviewInserted(rs, RecordReviewPosted(rs, j, p), j, p)
<1> DEFINE row == [job |-> j, pr |-> p]
           new == RecordReviewPosted(rs, j, p)
<1>1. row \in ReviewRows /\ row.job = j /\ row.pr = p
  BY DEF ReviewRows
<1>2. new = Append(rs, row)
  BY DEF RecordReviewPosted
<1> HIDE DEF row, new
<1>3. Len(rs) \in Nat /\ DOMAIN rs = 1 .. Len(rs)
  BY LenProperties
<1>4. /\ new \in Seq(ReviewRows) /\ Len(new) = Len(rs) + 1
      /\ \A i \in 1 .. Len(rs) : new[i] = rs[i]
      /\ new[Len(rs) + 1] = row
  BY <1>1, <1>2, <1>3
<1>5. DOMAIN new = 1 .. Len(rs) + 1
  BY <1>4, LenProperties
<1>6. ReviewInserted(rs, new, j, p)
  BY <1>1, <1>3, <1>4, <1>5 DEF ReviewInserted
<1>7. QED
  BY <1>6 DEF new

\* The results the worker persists: a review id comes with a "done" job and
\* one of the reviewed details, and only with those.
LEMMA WorkerResultFacts ==
  ASSUME NEW r \in WorkerResults
  PROVE  /\ r \in ReviewResults
         /\ r.has_review => r \in ReviewedResults
         /\ r.has_review <=> r.status = "done" /\ r.detail \in ReviewedDetails
         /\ r.notify => r.status = "failed"
<1>1. CASE r \in ReviewedResults
  <2>1. PICK d \in ReviewedDetails : r = Result("done", d, TRUE, FALSE)
    BY <1>1 DEF ReviewedResults
  <2>2. r.has_review = TRUE /\ r.notify = FALSE /\ r.status = "done"
        /\ r.detail = d
    BY <2>1 DEF Result
  <2>3. r \in ReviewResults
    BY <2>1 DEF Result, ReviewResults, ReviewedDetails, TerminalStatuses,
                StatusDetails
  <2>4. QED
    BY <1>1, <2>1, <2>2, <2>3
<1>2. CASE r \in UnpostedResults \cup PostErrorResults
                   \cup {TimeoutResult, RaisedResult}
  <2>1. PICK st \in TerminalStatuses, det \in StatusDetails \ ReviewedDetails,
             n \in BOOLEAN :
          r = Result(st, det, FALSE, n) /\ (n = FALSE \/ st = "failed")
    BY <1>2 DEF UnpostedResults, PostErrorResults, TimeoutResult,
         RaisedResult, TerminalStatuses, StatusDetails, ReviewedDetails
  <2>2. r.has_review = FALSE /\ r.status = st /\ r.detail = det /\ r.notify = n
    BY <2>1 DEF Result
  <2>3. r \in ReviewResults
    BY <2>1 DEF Result, ReviewResults
  <2>4. QED
    BY <2>1, <2>2, <2>3
<1>3. QED
  BY <1>1, <1>2 DEF WorkerResults, RunResults

-----------------------------------------------------------------------------
(* What the four steps that write the jobs table do.                       *)

\* One new pending job, holding the lock of its pull request.
JobAdded(n, p, d) ==
  /\ JobInserted(jobs, jobs', n, p, d)
  /\ p \in PRs /\ locks[p] = NoJob /\ locks' = [locks EXCEPT ![p] = n]

\* try_enqueue_review finds a lock and changes nothing, or adds a job of its
\* delivery.
LEMMA EnqueueEffect ==
  ASSUME IInv, NEW t \in Tasks, Enqueue(t)
  PROVE  \/ /\ UNCHANGED <<jobs, locks>>
            /\ LockHeld(locks, Event[tasks[t].d].pr)
         \/ \E n : JobAdded(n, Event[tasks[t].d].pr, tasks[t].d)
<1> DEFINE d == tasks[t].d
           p == Event[d].pr
           kind == Kind(Event[d])
           new == jobs'
<1>1. /\ d \in Deliveries /\ p \in PRs /\ kind \in TriggerKinds
      /\ jobs \in Seq(JobRows) /\ locks \in [PRs -> Nat]
  <2>1. tasks[t].d \in Deliveries /\ Event[tasks[t].d] \in Events
    BY EventAssumption DEF Enqueue, IInv, RequestsAreFresh, TypeOK
  <2>2. QED
    BY <2>1 DEF Events, Kind, TriggerKinds, IInv, TypeOK
<1>2. CASE UNCHANGED <<jobs, locks>> /\ LockHeld(locks, p)
  BY <1>2
<1>3. ASSUME NEW now \in Times,
             new = InsertJob(jobs, p, kind, now, d),
             ~LockHeld(locks, p), locks' = AcquireLock(locks, p, Len(new))
      PROVE  JobAdded(Len(new), p, d)
  <2>1. now \in Nat
    BY TimesAssumption
  <2> HIDE DEF d, p, kind, new
  <2>2. JobInserted(jobs, new, Len(new), p, d)
    BY <1>1, <1>3, <2>1, InsertJobFacts
  <2>3. locks[p] = NoJob /\ locks' = [locks EXCEPT ![p] = Len(new)]
    BY <1>3 DEF AcquireLock, LockHeld
  <2>4. QED
    BY <1>1, <2>2, <2>3 DEF JobAdded, new
<1>4. QED
  BY <1>2, <1>3 DEF Enqueue, EnqueueConflict

\* The worker's row gets status s and nothing else happens to the table.
JobMoved(j, s, det) ==
  /\ j \in DOMAIN jobs
  /\ jobs' \in Seq(JobRows)
  /\ DOMAIN jobs' = DOMAIN jobs
  /\ \A i \in DOMAIN jobs : i # j => jobs'[i] = jobs[i]
  /\ jobs'[j].status = s /\ jobs'[j].detail = det
  /\ SameOrigin(jobs'[j], jobs[j])

\* update_job_status on a row the worker holds.
LEMMA UpdateEffect ==
  ASSUME TypeOK, NEW j \in DOMAIN jobs,
         NEW s \in JobStatuses, NEW det \in StatusDetails,
         jobs' = UpdateJobStatus(jobs, j, s, det)
  PROVE  JobMoved(j, s, det)
<1> DEFINE new == jobs'
<1>1. jobs \in Seq(JobRows) /\ new = UpdateJobStatus(jobs, j, s, det)
  BY DEF TypeOK
<1> HIDE DEF new
<1>2. /\ new \in Seq(JobRows)
      /\ DOMAIN new = DOMAIN jobs
      /\ \A i \in DOMAIN jobs : i # j => new[i] = jobs[i]
      /\ new[j].status = s /\ new[j].detail = det
      /\ SameOrigin(new[j], jobs[j])
  BY <1>1, UpdateJobStatusFacts
<1>3. QED
  BY <1>2 DEF JobMoved, new

\* _claim_one: a pending row becomes running.
LEMMA MarkRunningEffect ==
  ASSUME IInv, MarkRunning
  PROVE  /\ JobMoved(worker.job, "running", "none")
         /\ jobs[worker.job].status = "pending"
         /\ UNCHANGED <<locks, reviews>>
<1>1. worker.job \in DOMAIN jobs /\ jobs[worker.job].status = "pending"
  BY DEF IInv, WorkerOwnsItsJob, StatusWhile, MarkRunning
<1>2. QED
  BY <1>1, UpdateEffect DEF MarkRunning, IInv, JobStatuses, StatusDetails

\* _persist: a running row ends with the result, its lock is released, and
\* its review is recorded if there is one.
LEMMA PersistEffect ==
  ASSUME IInv, Persist
  PROVE  LET j == worker.job
             r == worker.result
         IN /\ JobMoved(j, r.status, r.detail)
            /\ jobs[j].status = "running"
            /\ jobs[j].pr \in PRs
            /\ r.status \in TerminalStatuses
            /\ locks' = [locks EXCEPT ![jobs[j].pr] = NoJob]
            /\ \/ ~r.has_review /\ reviews' = reviews
               \/ r.has_review /\ ReviewInserted(reviews, reviews', j, jobs[j].pr)
<1> DEFINE j == worker.job
           r == worker.result
           p == jobs[j].pr
           new == reviews'
<1>1. j \in DOMAIN jobs /\ jobs[j].status = "running"
  BY DEF IInv, WorkerOwnsItsJob, StatusWhile, Persist
<1>2. jobs[j] \in JobRows /\ j \in Nat
  BY <1>1, ElementOfSeq, LenProperties DEF IInv, TypeOK
<1>3. p \in PRs
  BY <1>2 DEF JobRows
<1>4. r.status \in TerminalStatuses /\ r.detail \in StatusDetails
  BY DEF IInv, TypeOK, ReviewResults
<1>5. JobMoved(j, r.status, r.detail)
  BY <1>1, <1>4, UpdateEffect
     DEF Persist, IInv, TerminalStatuses, JobStatuses
<1>6. \/ ~r.has_review /\ reviews' = reviews
      \/ r.has_review /\ ReviewInserted(reviews, new, j, p)
  <2>1. CASE ~r.has_review
    BY <2>1 DEF Persist, RecordsReview
  <2>2. CASE r.has_review
    <3>1. new = RecordReviewPosted(reviews, j, p) /\ reviews \in Seq(ReviewRows)
      BY <2>2 DEF Persist, RecordsReview, IInv, TypeOK
    <3> HIDE DEF new, p, j
    <3>2. ReviewInserted(reviews, new, j, p)
      BY <1>2, <1>3, <3>1, RecordReviewPostedFacts
    <3>3. QED
      BY <2>2, <3>2
  <2>3. QED
    BY <2>1, <2>2
<1>7. locks' = [locks EXCEPT ![p] = NoJob]
  BY DEF Persist, ReleaseLock
<1>8. QED
  BY <1>1, <1>3, <1>4, <1>5, <1>6, <1>7

\* recover_on_startup: running rows fail, and the locks of rows that have
\* ended go.
RunningFailed ==
  /\ jobs' \in Seq(JobRows)
  /\ DOMAIN jobs' = DOMAIN jobs
  /\ \A i \in DOMAIN jobs :
       /\ SameOrigin(jobs'[i], jobs[i])
       /\ jobs[i].status # "running" => jobs'[i] = jobs[i]
       /\ jobs[i].status = "running" =>
            /\ jobs'[i].status = "failed"
            /\ jobs'[i].detail = "interrupted_by_restart"
  /\ locks' = ClearStaleLocks(jobs', locks)

LEMMA StartEffect ==
  ASSUME IInv, Start
  PROVE  /\ UNCHANGED <<jobs, locks>> \/ RunningFailed
         /\ UNCHANGED <<reviews, ghReviews, deliveries, tasks>>
         /\ worker' = LoopTop
<1> DEFINE new == jobs'
<1>1. CASE RecoverOnStartup
  <2>1. jobs \in Seq(JobRows) /\ new = FailRunning(jobs)
    BY <1>1 DEF IInv, TypeOK, RecoverOnStartup
  <2> HIDE DEF new
  <2>2. /\ new \in Seq(JobRows)
        /\ DOMAIN new = DOMAIN jobs
        /\ \A i \in DOMAIN jobs :
             /\ SameOrigin(new[i], jobs[i])
             /\ jobs[i].status # "running" => new[i] = jobs[i]
             /\ jobs[i].status = "running" =>
                  /\ new[i].status = "failed"
                  /\ new[i].detail = "interrupted_by_restart"
    BY <2>1, FailRunningFacts
  <2>3. locks' = ClearStaleLocks(new, locks)
    BY <1>1, <2>1 DEF RecoverOnStartup
  <2>4. QED
    BY <2>2, <2>3 DEF RunningFailed, new, Start
<1>2. QED
  BY <1>1 DEF Start

\* Every other step leaves the jobs, the locks and the recorded reviews
\* alone.
LEMMA OtherSteps ==
  ASSUME [Next]_vars, ~MarkRunning, ~Persist, ~Start,
         \A t \in Tasks : ~Enqueue(t)
  PROVE  UNCHANGED <<jobs, locks, reviews>>
  BY DEF Next, RejectWebhook, ProcessWebhook, TaskStep, GetPr, LoadConfig,
         ReactUnauthorized, ReactEyes, FetchLock, HandlerStorageError,
         WorkerStep, Loop, SelectPending, PostReview, ReviewReturns,
         ReviewFails, ClaimFailureSlot, PostFailureComment,
         WorkerStorageError, Bind, BindFails, StopsDead, Crash,
         CooldownExpires, store, vars

-----------------------------------------------------------------------------
(* Type correctness.                                                       *)

TaskRecords == [pc : TaskPCs, d : Deliveries \cup {NoDelivery}]
WorkerRecords == [pc : WorkerPCs, job : Nat, result : ReviewResults]

\* A request that moves on, ends or begins leaves a table of requests.
LEMMA RequestTyped ==
  ASSUME TypeOK, NEW t \in Tasks
  PROVE  /\ \A pc \in TaskPCs : Goto(t, pc) => tasks' \in [Tasks -> TaskRecords]
         /\ \A pc \in TaskPCs, d \in Deliveries :
              tasks' = [tasks EXCEPT ![t] = [pc |-> pc, d |-> d]] =>
                tasks' \in [Tasks -> TaskRecords]
         /\ \A code \in {"ok", "duplicate", "error"} :
              tasks[t].d \in Deliveries /\ Finish(t, code) =>
                /\ tasks' \in [Tasks -> TaskRecords]
                /\ reply' \in [Deliveries -> {"none", "ok", "duplicate", "error"}]
<1>1. tasks \in [Tasks -> TaskRecords] /\ tasks[t] \in TaskRecords
  BY DEF TypeOK, TaskRecords
<1>2. ASSUME NEW pc \in TaskPCs, Goto(t, pc)
      PROVE  tasks' \in [Tasks -> TaskRecords]
  <2>1. [tasks[t] EXCEPT !.pc = pc] \in TaskRecords
    BY <1>1 DEF TaskRecords
  <2>2. tasks' = [tasks EXCEPT ![t] = [tasks[t] EXCEPT !.pc = pc]]
    BY <1>1, <1>2 DEF Goto
  <2>3. QED
    BY <1>1, <2>1, <2>2
<1>3. ASSUME NEW pc \in TaskPCs, NEW d \in Deliveries
      PROVE  [tasks EXCEPT ![t] = [pc |-> pc, d |-> d]]
               \in [Tasks -> TaskRecords]
  BY <1>1 DEF TaskRecords
<1>4. ASSUME NEW code \in {"ok", "duplicate", "error"},
             tasks[t].d \in Deliveries, Finish(t, code)
      PROVE  /\ tasks' \in [Tasks -> TaskRecords]
             /\ reply' \in [Deliveries -> {"none", "ok", "duplicate", "error"}]
  <2>1. IdleTask \in TaskRecords
    BY DEF IdleTask, TaskRecords, TaskPCs
  <2>2. QED
    BY <1>1, <1>4, <2>1 DEF Finish, Answer, TypeOK
<1>5. QED
  BY <1>2, <1>3, <1>4

\* Every step keeps every variable in its type.
LEMMA TypeStep ==
  ASSUME IInv, [Next]_vars
  PROVE  TypeOK'
<1> USE DEF IInv
<1> jobs' \in Seq(JobRows)
  BY EnqueueEffect, MarkRunningEffect, PersistEffect, StartEffect, OtherSteps
     DEF JobAdded, JobInserted, JobMoved, RunningFailed, TypeOK
<1> NoResult \in ReviewResults
  BY DEF NoResult, Result, ReviewResults, TerminalStatuses, StatusDetails
<1> LoopTop \in WorkerRecords /\ NoWorker \in WorkerRecords
  BY DEF LoopTop, NoWorker, WorkerAt, WorkerPCs, NoJob, WorkerRecords
<1>1. ASSUME NEW d \in Deliveries, RejectWebhook(d)
      PROVE  TypeOK'
  BY <1>1 DEF TypeOK, RejectWebhook, Arrives, Answer, store
<1>2. ASSUME NEW t \in Tasks, NEW d \in Deliveries, ProcessWebhook(t, d)
      PROVE  TypeOK'
  <2>1. {"fetch_lock", "get_pr"} \subseteq TaskPCs
    BY DEF TaskPCs
  <2>2. tasks' \in [Tasks -> TaskRecords]
    <3>1. CASE UNCHANGED tasks
      BY <3>1 DEF TypeOK, TaskRecords
    <3>2. ASSUME NEW pc \in {"fetch_lock", "get_pr"},
                 tasks' = [tasks EXCEPT ![t] = [pc |-> pc, d |-> d]]
          PROVE  tasks' \in [Tasks -> TaskRecords]
      BY <2>1, <3>2, RequestTyped
    <3>3. QED
      BY <1>2, <3>1, <3>2 DEF ProcessWebhook
  <2>3. reply' \in [Deliveries -> {"none", "ok", "duplicate", "error"}]
    BY <1>2 DEF TypeOK, ProcessWebhook, Answer
  <2>4. sends' \in [Deliveries -> Nat] /\ deliveries' \in SUBSET Deliveries
    BY <1>2 DEF TypeOK, ProcessWebhook, Arrives
  <2>5. QED
    BY <1>2, <2>2, <2>3, <2>4 DEF TypeOK, ProcessWebhook, TaskRecords
<1>3. ASSUME NEW t \in Tasks, TaskStep(t)
      PROVE  TypeOK'
  <2>1. tasks[t].pc # "idle" => tasks[t].d \in Deliveries
    BY DEF RequestsAreFresh, TypeOK
  <2>2. CASE \/ GetPr(t) \/ LoadConfig(t) \/ ReactUnauthorized(t)
             \/ ReactEyes(t) \/ FetchLock(t) \/ HandlerStorageError(t)
    <3>1. /\ tasks[t].pc # "idle"
          /\ \/ \E pc \in TaskPCs : Goto(t, pc) /\ UNCHANGED reply
             \/ \E code \in {"ok", "error"} : Finish(t, code)
      BY <2>2 DEF GetPr, LoadConfig, ReactUnauthorized, ReactEyes, FetchLock,
                  HandlerStorageError, TaskPCs
    <3>2. UNCHANGED <<store, phase, worker, ghReviews, notified, sends, exits>>
      BY <2>2 DEF GetPr, LoadConfig, ReactUnauthorized, ReactEyes, FetchLock,
                  HandlerStorageError
    <3>3. /\ tasks' \in [Tasks -> TaskRecords]
          /\ reply' \in [Deliveries -> {"none", "ok", "duplicate", "error"}]
      BY <2>1, <3>1, RequestTyped DEF TypeOK
    <3>4. QED
      BY <3>2, <3>3 DEF TypeOK, store, TaskRecords
  <2>3. CASE Enqueue(t)
    <3>1. Len(jobs') \in Nat
      BY LenProperties
    <3>2. locks' \in [PRs -> Nat]
      BY <2>3, <3>1 DEF TypeOK, Enqueue, AcquireLock
    <3>3. QED
      BY <2>1, <2>3, <3>2, RequestTyped DEF TypeOK, Enqueue, TaskRecords
  <2>4. QED
    BY <1>3, <2>2, <2>3 DEF TaskStep
<1>4. CASE Loop
  BY <1>4 DEF TypeOK, Loop, WorkerPCs, WorkerRecords, store, github
<1>5. CASE SelectPending
  <2>1. Pending(jobs) \subseteq Nat
    BY LenProperties DEF Pending, TypeOK
  <2>2. \A j \in Nat : WorkerAt("mark", j, NoResult) \in WorkerRecords
    BY DEF WorkerAt, WorkerPCs, WorkerRecords
  <2>3. worker' \in WorkerRecords
    BY <1>5, <2>1, <2>2 DEF SelectPending
  <2>4. QED
    BY <1>5, <2>3 DEF TypeOK, SelectPending, WorkerRecords, store, github
<1>6. CASE MarkRunning
  BY <1>6 DEF TypeOK, MarkRunning, WorkerPCs, github
<1>7. CASE PostReview
  BY <1>7 DEF TypeOK, PostReview, store, github
<1>8. ASSUME NEW r \in RunResults \cup {TimeoutResult, RaisedResult},
             ReviewReturns(r) \/ ReviewFails(r)
      PROVE  TypeOK'
  <2>1. r \in ReviewResults
    BY WorkerResultFacts DEF WorkerResults
  <2>2. QED
    BY <1>8, <2>1
       DEF TypeOK, ReviewReturns, ReviewFails, WorkerPCs, store, github
<1>9. CASE Persist
  <2>2. reviews' \in Seq(ReviewRows)
    BY <1>9, PersistEffect DEF ReviewInserted, TypeOK
  <2>3. locks' \in [PRs -> Nat]
    BY <1>9 DEF Persist, TypeOK, ReleaseLock, NoJob
  <2>4. QED
    BY <1>9, <2>2, <2>3 DEF TypeOK, Persist, WorkerPCs, WorkerRecords, github
<1>10. CASE ClaimFailureSlot
  <2>1. jobs[worker.job] \in JobRows
    BY <1>10, ElementOfSeq, LenProperties
       DEF ClaimFailureSlot, WorkerOwnsItsJob, TypeOK
  <2>2. QED
    BY <1>10, <2>1
       DEF TypeOK, ClaimFailureSlot, WorkerPCs, WorkerRecords, JobRows, github
<1>11. CASE PostFailureComment
  BY <1>11 DEF TypeOK, PostFailureComment, WorkerRecords, store, github
<1>12. CASE WorkerStorageError
  BY <1>12 DEF TypeOK, WorkerStorageError, WorkerPCs, store, github
<1>13. CASE Start
  <2>1. locks' \in [PRs -> Nat]
    <3>1. CASE locks' = ClearStaleLocks(FailRunning(jobs), locks)
      BY <3>1 DEF TypeOK, ClearStaleLocks, NoJob
    <3>2. QED
      BY <1>13, <3>1 DEF TypeOK, Start, RecoverOnStartup
  <2>2. QED
    BY <1>13, <2>1 DEF TypeOK, Start, WorkerRecords, github
<1>14. CASE Bind \/ BindFails \/ StopsDead
  <2>1. /\ exits' \in Nat /\ phase' \in {"down", "up", "stopping"}
        /\ worker' \in WorkerRecords
    BY <1>14 DEF TypeOK, Bind, BindFails, StopsDead, WorkerRecords
  <2>2. UNCHANGED <<store, tasks, ghReviews, notified, github>>
    BY <1>14 DEF Bind, BindFails, StopsDead
  <2>3. QED
    BY <2>1, <2>2 DEF TypeOK, store, github, WorkerRecords
<1>15. CASE Crash
  <2>1. IdleTask \in TaskRecords
    BY DEF IdleTask, TaskRecords, TaskPCs
  <2>2. tasks' \in [Tasks -> TaskRecords] /\ worker' \in WorkerRecords
    BY <1>15, <2>1 DEF Crash
  <2>3. reply' \in [Deliveries -> {"none", "ok", "duplicate", "error"}]
    BY <1>15 DEF Crash, TypeOK
  <2>4. QED
    BY <1>15, <2>2, <2>3 DEF TypeOK, Crash, TaskRecords, WorkerRecords, store
<1>16. ASSUME NEW p \in PRs, CooldownExpires(p)
       PROVE  TypeOK'
  BY <1>16 DEF TypeOK, CooldownExpires, github
<1>17. CASE UNCHANGED vars
  BY <1>17 DEF TypeOK, vars, store, github
<1>18. QED
  BY <1>1, <1>2, <1>3, <1>4, <1>5, <1>6, <1>7, <1>8, <1>9, <1>10, <1>11,
     <1>12, <1>13, <1>14, <1>15, <1>16, <1>17 DEF Next, WorkerStep

-----------------------------------------------------------------------------
(* The lock table and the jobs table.                                      *)

\* A row of the table is a row.
LEMMA JobRow ==
  ASSUME TypeOK, NEW j \in DOMAIN jobs
  PROVE  jobs[j] \in JobRows /\ jobs[j].pr \in PRs /\ j \in Nat /\ j # NoJob
<1>1. jobs[j] \in JobRows /\ j \in Nat /\ j # 0
  BY ElementOfSeq, LenProperties DEF TypeOK
<1>2. QED
  BY <1>1 DEF JobRows, NoJob

\* Every step keeps the lock rows and the unfinished jobs in one-to-one
\* correspondence.
LEMMA LockStep ==
  ASSUME IInv, [Next]_vars
  PROVE  LockIffActive'
<1>1. TypeOK /\ LockIffActive
  BY DEF IInv
<1>2. /\ \A p \in PRs : locks[p] # NoJob =>
           locks[p] \in DOMAIN jobs /\ jobs[locks[p]].pr = p
           /\ jobs[locks[p]].status \in ActiveStatuses
      /\ \A j \in DOMAIN jobs :
           jobs[j].status \in ActiveStatuses => locks[jobs[j].pr] = j
  BY <1>1 DEF LockIffActive, LockRowsNameActiveJobs, ActiveJobsAreLocked,
              LockHeld
<1>3. locks \in [PRs -> Nat] /\ \A j \in DOMAIN jobs : jobs[j].pr \in PRs
  BY <1>1, JobRow DEF TypeOK
<1>4. ASSUME NEW t \in Tasks, Enqueue(t)
      PROVE  LockIffActive'
  <2>1. CASE UNCHANGED <<jobs, locks>>
    BY <1>2, <2>1
       DEF LockIffActive, LockRowsNameActiveJobs, ActiveJobsAreLocked, LockHeld
  <2>2. ASSUME NEW n, NEW p, NEW d, JobAdded(n, p, d)
        PROVE  LockIffActive'
    <3>1. /\ n \notin DOMAIN jobs /\ DOMAIN jobs' = DOMAIN jobs \cup {n}
          /\ \A i \in DOMAIN jobs : jobs'[i] = jobs[i]
          /\ jobs'[n].status = "pending" /\ jobs'[n].pr = p
          /\ p \in PRs /\ locks[p] = NoJob /\ locks' = [locks EXCEPT ![p] = n]
      BY <2>2 DEF JobAdded, JobInserted
    <3>2. "pending" \in ActiveStatuses
      BY DEF ActiveStatuses, JobStatuses, TerminalStatuses
    <3>3. \A j \in DOMAIN jobs :
            jobs[j].status \in ActiveStatuses => jobs[j].pr # p
      BY <1>1, <1>2, <3>1, JobRow
    <3>4. LockRowsNameActiveJobs'
      BY <1>2, <1>3, <3>1, <3>2 DEF LockRowsNameActiveJobs, LockHeld
    <3>5. ActiveJobsAreLocked'
      BY <1>2, <1>3, <3>1, <3>3 DEF ActiveJobsAreLocked
    <3>6. QED
      BY <3>4, <3>5 DEF LockIffActive
  <2>3. QED
    BY <1>4, <2>1, <2>2, EnqueueEffect
<1>5. CASE MarkRunning
  <2>1. /\ JobMoved(worker.job, "running", "none")
        /\ jobs[worker.job].status = "pending" /\ locks' = locks
    BY <1>5, MarkRunningEffect
  <2>2. {"pending", "running"} \subseteq ActiveStatuses
    BY DEF ActiveStatuses, JobStatuses, TerminalStatuses
  <2>3. DOMAIN jobs' = DOMAIN jobs
        /\ \A j \in DOMAIN jobs :
             /\ jobs'[j].pr = jobs[j].pr
             /\ jobs'[j].status \in ActiveStatuses
                  <=> jobs[j].status \in ActiveStatuses
    BY <2>1, <2>2 DEF JobMoved, SameOrigin
  <2>4. QED
    BY <1>2, <2>1, <2>3
       DEF LockIffActive, LockRowsNameActiveJobs, ActiveJobsAreLocked, LockHeld
<1>6. CASE Persist
  <2> DEFINE j == worker.job
             p == jobs[j].pr
             st == worker.result.status
             det == worker.result.detail
  <2>1. /\ JobMoved(j, st, det) /\ jobs[j].status = "running" /\ p \in PRs
        /\ st \in TerminalStatuses /\ locks' = [locks EXCEPT ![p] = NoJob]
    BY <1>6, PersistEffect
  <2> HIDE DEF st, det
  <2>2. st \notin ActiveStatuses /\ "running" \in ActiveStatuses
    BY <2>1 DEF ActiveStatuses, JobStatuses, TerminalStatuses
  <2>3. /\ DOMAIN jobs' = DOMAIN jobs /\ j \in DOMAIN jobs
        /\ \A i \in DOMAIN jobs : i # j => jobs'[i] = jobs[i]
        /\ jobs'[j].status = st
    BY <2>1 DEF JobMoved
  <2>4. locks[p] = j
    BY <1>2, <2>1, <2>2, <2>3
  <2>5. LockRowsNameActiveJobs'
    <3> SUFFICES ASSUME NEW q \in PRs, locks'[q] # NoJob
                 PROVE  locks'[q] \in DOMAIN jobs' /\ jobs'[locks'[q]].pr = q
                        /\ jobs'[locks'[q]].status \in ActiveStatuses
      BY DEF LockRowsNameActiveJobs, LockHeld
    <3>1. q # p /\ locks'[q] = locks[q]
      BY <1>3, <2>1
    <3>2. locks[q] \in DOMAIN jobs /\ jobs[locks[q]].pr = q
          /\ jobs[locks[q]].status \in ActiveStatuses
      BY <1>2, <3>1
    <3>3. locks[q] # j
      BY <3>1, <3>2
    <3>4. QED
      BY <2>3, <3>1, <3>2, <3>3
  <2>6. ActiveJobsAreLocked'
    <3> SUFFICES ASSUME NEW i \in DOMAIN jobs', jobs'[i].status \in ActiveStatuses
                 PROVE  locks'[jobs'[i].pr] = i
      BY DEF ActiveJobsAreLocked
    <3>1. i # j /\ jobs'[i] = jobs[i] /\ i \in DOMAIN jobs
      BY <2>2, <2>3
    <3>2. locks[jobs[i].pr] = i
      BY <1>2, <3>1
    <3>3. jobs[i].pr # p
      BY <2>4, <3>1, <3>2
    <3>4. QED
      BY <1>3, <2>1, <3>1, <3>2, <3>3
  <2>7. QED
    BY <2>5, <2>6 DEF LockIffActive
<1>7. CASE Start
  <2>1. CASE UNCHANGED <<jobs, locks>>
    BY <1>2, <2>1
       DEF LockIffActive, LockRowsNameActiveJobs, ActiveJobsAreLocked, LockHeld
  <2>2. CASE RunningFailed
    <3>1. /\ DOMAIN jobs' = DOMAIN jobs
          /\ \A i \in DOMAIN jobs :
               /\ jobs'[i].pr = jobs[i].pr
               /\ jobs[i].status # "running" => jobs'[i] = jobs[i]
               /\ jobs[i].status = "running" => jobs'[i].status = "failed"
          /\ \A q \in PRs :
               locks'[q] = IF locks[q] # NoJob
                                /\ jobs'[locks[q]].status \in TerminalStatuses
                             THEN NoJob ELSE locks[q]
      BY <2>2 DEF RunningFailed, SameOrigin, ClearStaleLocks, LockHeld
    <3>2. "failed" \in TerminalStatuses
          /\ \A x \in ActiveStatuses : x \notin TerminalStatuses
      BY DEF ActiveStatuses, TerminalStatuses
    <3>3. LockRowsNameActiveJobs'
      <4> SUFFICES ASSUME NEW q \in PRs, locks'[q] # NoJob
                   PROVE  locks'[q] \in DOMAIN jobs' /\ jobs'[locks'[q]].pr = q
                          /\ jobs'[locks'[q]].status \in ActiveStatuses
        BY DEF LockRowsNameActiveJobs, LockHeld
      <4>1. locks'[q] = locks[q] /\ locks[q] # NoJob
            /\ jobs'[locks[q]].status \notin TerminalStatuses
        BY <3>1
      <4>2. locks[q] \in DOMAIN jobs /\ jobs[locks[q]].pr = q
            /\ jobs[locks[q]].status \in ActiveStatuses
        BY <1>2, <4>1
      <4>3. jobs'[locks[q]] = jobs[locks[q]]
        BY <3>1, <3>2, <4>1, <4>2
      <4>4. QED
        BY <3>1, <4>1, <4>2, <4>3
    <3>4. ActiveJobsAreLocked'
      <4> SUFFICES ASSUME NEW i \in DOMAIN jobs',
                          jobs'[i].status \in ActiveStatuses
                   PROVE  locks'[jobs'[i].pr] = i
        BY DEF ActiveJobsAreLocked
      <4>1. i \in DOMAIN jobs /\ jobs'[i] = jobs[i]
        BY <3>1, <3>2
      <4>2. locks[jobs[i].pr] = i /\ jobs[i].pr \in PRs
        BY <1>2, <1>3, <4>1
      <4>3. QED
        BY <3>1, <3>2, <4>1, <4>2
    <3>5. QED
      BY <3>3, <3>4 DEF LockIffActive
  <2>3. QED
    BY <1>7, <2>1, <2>2, StartEffect
<1>8. CASE UNCHANGED <<jobs, locks, reviews>>
  BY <1>2, <1>8
     DEF LockIffActive, LockRowsNameActiveJobs, ActiveJobsAreLocked, LockHeld
<1>9. QED
  BY <1>4, <1>5, <1>6, <1>7, <1>8, OtherSteps

-----------------------------------------------------------------------------
(* The worker and the job it holds.                                        *)

\* Every step leaves the row of the worker's job in the status the worker
\* counts on: the steps of others that write the jobs table do not touch it,
\* and recovery runs while there is no worker.
LEMMA WorkerStepOwns ==
  ASSUME IInv, [Next]_vars
  PROVE  WorkerOwnsItsJob'
<1> DEFINE Holding(pc) == pc \in {"mark", "review", "persist", "slot", "comment"}
<1>1. TypeOK /\ (Holding(worker.pc) =>
                   /\ worker.job \in DOMAIN jobs
                   /\ jobs[worker.job].status = StatusWhile(worker.pc))
  BY DEF IInv, WorkerOwnsItsJob
<1> SUFFICES ASSUME Holding(worker'.pc)
             PROVE  /\ worker'.job \in DOMAIN jobs'
                    /\ jobs'[worker'.job].status = StatusWhile(worker'.pc)
  BY DEF WorkerOwnsItsJob
<1> DEFINE Goal == /\ worker'.job \in DOMAIN jobs'
                   /\ jobs'[worker'.job].status = StatusWhile(worker'.pc)
<1>2. ~Holding(LoopTop.pc) /\ ~Holding(NoWorker.pc)
  BY DEF LoopTop, NoWorker, WorkerAt
<1>3. ASSUME NEW t \in Tasks, Enqueue(t)
      PROVE  Goal
  <2>1. worker' = worker
    BY <1>3 DEF Enqueue
  <2>2. worker.job \in DOMAIN jobs => jobs'[worker.job] = jobs[worker.job]
                                      /\ worker.job \in DOMAIN jobs'
    BY <1>3, EnqueueEffect DEF JobAdded, JobInserted
  <2>3. QED
    BY <1>1, <2>1, <2>2
<1>4. CASE MarkRunning
  <2>1. worker'.pc = "review" /\ worker'.job = worker.job
    BY <1>1, <1>4 DEF MarkRunning, TypeOK
  <2>2. QED
    BY <1>4, <2>1, MarkRunningEffect DEF JobMoved, StatusWhile
<1>5. CASE Persist
  <2>1. /\ worker'.pc = "slot" /\ worker'.job = worker.job
        /\ worker.result.status = "failed"
    BY <1>1, <1>2, <1>5 DEF Persist, AsksForComment, TypeOK
  <2>2. JobMoved(worker.job, "failed", worker.result.detail)
    BY <1>5, <2>1, PersistEffect
  <2>3. QED
    BY <2>1, <2>2 DEF JobMoved, StatusWhile
<1>6. CASE Start
  BY <1>2, <1>6, StartEffect
<1>7. CASE SelectPending
  <2>1. PICK j \in Pending(jobs) : worker' = WorkerAt("mark", j, NoResult)
    BY <1>2, <1>7 DEF SelectPending
  <2>2. worker'.pc = "mark" /\ worker'.job = j /\ jobs' = jobs
    BY <1>7, <2>1 DEF WorkerAt, SelectPending, store
  <2>3. QED
    BY <2>1, <2>2 DEF Pending, StatusWhile
<1>8. ASSUME NEW r, ReviewReturns(r) \/ ReviewFails(r)
      PROVE  Goal
  <2>1. worker.pc = "review" /\ worker'.pc = "persist"
        /\ worker'.job = worker.job /\ jobs' = jobs
    BY <1>1, <1>8 DEF ReviewReturns, ReviewFails, TypeOK, store
  <2>2. QED
    BY <1>1, <2>1 DEF StatusWhile
<1>9. CASE ClaimFailureSlot
  <2>1. worker.pc = "slot" /\ worker'.pc = "comment"
        /\ worker'.job = worker.job /\ jobs' = jobs
    BY <1>1, <1>2, <1>9 DEF ClaimFailureSlot, TypeOK
  <2>2. QED
    BY <1>1, <2>1 DEF StatusWhile
<1>10. CASE Loop \/ PostFailureComment \/ WorkerStorageError \/ StopsDead
            \/ Crash
  <2>1. ~Holding(worker'.pc)
    BY <1>1, <1>2, <1>10 DEF Loop, PostFailureComment, WorkerStorageError,
                             StopsDead, Crash, TypeOK
  <2>2. QED
    BY <2>1
<1>11. CASE UNCHANGED <<worker, jobs>>
  BY <1>1, <1>11
<1>12. QED
  BY <1>3, <1>4, <1>5, <1>6, <1>7, <1>8, <1>9, <1>10, <1>11
     DEF Next, RejectWebhook, ProcessWebhook, TaskStep, GetPr, LoadConfig,
         ReactUnauthorized, ReactEyes, FetchLock, HandlerStorageError,
         WorkerStep, PostReview, Bind, BindFails, CooldownExpires, store, vars

\* A result is only handed to _persist if the review may end with it.
LEMMA ResultStep ==
  ASSUME IInv, [Next]_vars
  PROVE  ResultIsPossible'
<1>1. worker \in [pc : WorkerPCs, job : Nat, result : ReviewResults]
      /\ ResultIsPossible
  BY DEF IInv, TypeOK
<1>2. LoopTop.pc # "persist" /\ NoWorker.pc # "persist"
      /\ \A j : WorkerAt("mark", j, NoResult).pc # "persist"
  BY DEF LoopTop, NoWorker, WorkerAt
<1>3. ASSUME NEW r \in RunResults, ReviewReturns(r)
      PROVE  ResultIsPossible'
  BY <1>1, <1>3 DEF ReviewReturns, Permitted, ResultIsPossible, WorkerResults
<1>4. ASSUME NEW r \in {TimeoutResult, RaisedResult}, ReviewFails(r)
      PROVE  ResultIsPossible'
  <2>1. r \notin ReviewedResults
    BY DEF TimeoutResult, RaisedResult, ReviewedResults, Result
  <2>2. QED
    BY <1>1, <1>4, <2>1 DEF ReviewFails, ResultIsPossible, WorkerResults
<1>5. CASE worker' = worker /\ ghReviews \subseteq ghReviews'
  BY <1>1, <1>5 DEF ResultIsPossible
<1>6. CASE worker'.pc # "persist"
  BY <1>6 DEF ResultIsPossible
<1>7. (\A r \in RunResults : ~ReviewReturns(r))
      /\ (\A r \in {TimeoutResult, RaisedResult} : ~ReviewFails(r))
      => \/ worker' = worker /\ ghReviews \subseteq ghReviews'
         \/ worker'.pc # "persist"
  <2> SUFFICES ASSUME \A r \in RunResults : ~ReviewReturns(r),
                      \A r \in {TimeoutResult, RaisedResult} : ~ReviewFails(r)
               PROVE  \/ worker' = worker /\ ghReviews \subseteq ghReviews'
                      \/ worker'.pc # "persist"
    OBVIOUS
  <2>1. CASE WorkerStep
    BY <1>1, <1>2, <2>1
       DEF WorkerStep, Loop, SelectPending, MarkRunning, PostReview, Persist,
           ClaimFailureSlot, PostFailureComment, WorkerStorageError
  <2>2. CASE Start \/ Bind \/ BindFails \/ StopsDead \/ Crash
    BY <1>2, <2>2 DEF Start, Bind, BindFails, StopsDead, Crash
  <2>3. CASE ~WorkerStep /\ ~(Start \/ Bind \/ BindFails \/ StopsDead \/ Crash)
    BY <2>3
       DEF Next, RejectWebhook, ProcessWebhook, TaskStep, GetPr, LoadConfig,
           ReactUnauthorized, ReactEyes, FetchLock, Enqueue,
           HandlerStorageError, CooldownExpires, store, vars
  <2>4. QED
    BY <2>1, <2>2, <2>3
<1>8. QED
  BY <1>3, <1>4, <1>5, <1>6, <1>7

-----------------------------------------------------------------------------
(* Deliveries and the jobs that come from them.                            *)

\* Where the origins of the jobs come from: a step keeps every origin, and a
\* new job is of the delivery its request handles.
LEMMA Origins ==
  ASSUME IInv, [Next]_vars
  PROVE  /\ \A j \in DOMAIN jobs :
              j \in DOMAIN jobs' /\ jobs'[j].origin = jobs[j].origin
         /\ \/ DOMAIN jobs' = DOMAIN jobs
            \/ \E t \in Tasks : \E n :
                 /\ Enqueue(t)
                 /\ DOMAIN jobs' = DOMAIN jobs \cup {n}
                 /\ jobs'[n].origin = tasks[t].d
<1>1. ASSUME NEW t \in Tasks, Enqueue(t)
      PROVE  /\ \A j \in DOMAIN jobs : j \in DOMAIN jobs' /\ jobs'[j] = jobs[j]
             /\ \/ DOMAIN jobs' = DOMAIN jobs
                \/ \E n : /\ DOMAIN jobs' = DOMAIN jobs \cup {n}
                          /\ jobs'[n].origin = tasks[t].d
  BY <1>1, EnqueueEffect DEF JobAdded, JobInserted
<1>2. CASE MarkRunning
  BY <1>2, MarkRunningEffect DEF JobMoved, SameOrigin
<1>3. CASE Persist
  <2>1. JobMoved(worker.job, worker.result.status, worker.result.detail)
    BY <1>3, PersistEffect
  <2>2. QED
    BY <2>1 DEF JobMoved, SameOrigin
<1>4. CASE Start
  BY <1>4, StartEffect DEF RunningFailed, SameOrigin
<1>5. QED
  BY <1>1, <1>2, <1>3, <1>4, OtherSteps

\* The requests after a step: a task is as before, ended, moved on with the
\* same delivery, or took a delivery that was not recorded before.
LEMMA RequestMoves ==
  ASSUME IInv, [Next]_vars
  PROVE  /\ deliveries \subseteq deliveries'
         /\ \A t \in Tasks :
              \/ tasks'[t].pc = "idle" /\ tasks'[t].d = NoDelivery
              \/ /\ tasks[t].pc # "idle" /\ tasks'[t].pc # "idle"
                 /\ tasks'[t].d = tasks[t].d /\ ~Enqueue(t)
              \/ /\ tasks'[t].d \in Deliveries /\ tasks'[t].d \notin deliveries
                 /\ tasks'[t].pc # "idle"
                 /\ tasks'[t].d \in deliveries'
                 /\ \A u \in Tasks \ {t} : tasks'[u] = tasks[u]
                 /\ \A u \in Tasks : ~Enqueue(u)
<1>1. tasks \in [Tasks -> [pc : TaskPCs, d : Deliveries \cup {NoDelivery}]]
  BY DEF IInv, TypeOK
<1> DEFINE Ended(t) == tasks'[t].pc = "idle" /\ tasks'[t].d = NoDelivery
           Same(t) == /\ tasks[t].pc # "idle" /\ tasks'[t].pc # "idle"
                      /\ tasks'[t].d = tasks[t].d /\ ~Enqueue(t)
           Took(t) == /\ tasks'[t].d \in Deliveries
                      /\ tasks'[t].d \notin deliveries /\ tasks'[t].pc # "idle"
                      /\ tasks'[t].d \in deliveries'
                      /\ \A u \in Tasks \ {t} : tasks'[u] = tasks[u]
                      /\ \A u \in Tasks : ~Enqueue(u)
           Goal == /\ deliveries \subseteq deliveries'
                   /\ \A t \in Tasks : Ended(t) \/ Same(t) \/ Took(t)
<1>2. IdleTask.pc = "idle" /\ IdleTask.d = NoDelivery
  BY DEF IdleTask
<1>3. \A t \in Tasks : tasks[t].pc = "idle" => tasks[t].d = NoDelivery
  BY DEF IInv, RequestsAreFresh
<1>4. ASSUME NEW t \in Tasks, NEW d \in Deliveries, ProcessWebhook(t, d)
      PROVE  Goal
  <2>1. /\ tasks[t].pc = "idle" /\ deliveries' = deliveries \cup {d}
        /\ jobs' = jobs /\ worker' = worker
    BY <1>4 DEF ProcessWebhook
  <2>2. CASE tasks' = tasks
    <3>1. \A u \in Tasks : ~Enqueue(u)
      <4> SUFFICES ASSUME NEW u \in Tasks, Enqueue(u) PROVE FALSE
        OBVIOUS
      <4>1. tasks'[u].pc = "idle" /\ tasks[u].pc = "enqueue"
        BY <1>1, <1>2 DEF Enqueue, Finish
      <4>2. QED
        BY <2>2, <4>1
    <3>2. QED
      BY <1>3, <2>1, <2>2, <3>1
  <2>3. CASE tasks' # tasks
    <3>1. PICK pc \in {"fetch_lock", "get_pr"} :
            d \notin deliveries
            /\ tasks' = [tasks EXCEPT ![t] = [pc |-> pc, d |-> d]]
      BY <1>4, <2>3 DEF ProcessWebhook, RecordDeliveryIsNew, Answer
    <3>2. tasks'[t].pc = pc /\ tasks'[t].d = d
          /\ \A u \in Tasks \ {t} : tasks'[u] = tasks[u]
      BY <1>1, <3>1
    <3>3. \A u \in Tasks : ~Enqueue(u)
      <4> SUFFICES ASSUME NEW u \in Tasks, Enqueue(u) PROVE FALSE
        OBVIOUS
      <4>1. tasks'[u].pc = "idle" /\ tasks[u].pc = "enqueue"
        BY <1>1, <1>2 DEF Enqueue, Finish
      <4>2. QED
        BY <2>1, <3>2, <4>1
    <3>4. QED
      BY <1>3, <2>1, <3>1, <3>2, <3>3
  <2>4. QED
    BY <2>2, <2>3
<1>5. ASSUME NEW t \in Tasks, TaskStep(t)
      PROVE  Goal
  <2>1. /\ deliveries' = deliveries /\ tasks[t].pc # "idle"
        /\ \/ \E pc \in TaskPCs \ {"idle"} : Goto(t, pc) /\ tasks[t].pc # "enqueue"
           \/ \E code \in {"ok", "error"} : Finish(t, code)
    BY <1>5 DEF TaskStep, GetPr, LoadConfig, ReactUnauthorized, ReactEyes,
                FetchLock, Enqueue, HandlerStorageError, TaskPCs, store
  <2>2. \A u \in Tasks \ {t} : tasks'[u] = tasks[u]
    BY <1>1, <2>1 DEF Goto, Finish
  <2>3. \A u \in Tasks \ {t} : tasks[u].pc # "idle" => ~Enqueue(u)
    BY <1>1, <1>2, <2>2 DEF Enqueue, Finish
  <2>4. Ended(t) \/ Same(t)
    <3>1. CASE \E code \in {"ok", "error"} : Finish(t, code)
      BY <1>1, <1>2, <3>1 DEF Finish
    <3>2. CASE \E pc \in TaskPCs \ {"idle"} :
                 Goto(t, pc) /\ tasks[t].pc # "enqueue"
      BY <1>1, <2>1, <3>2 DEF Goto, Enqueue
    <3>3. QED
      BY <2>1, <3>1, <3>2
  <2>5. QED
    BY <1>3, <2>1, <2>2, <2>3, <2>4
<1>6. CASE Crash
  BY <1>2, <1>6 DEF Crash, store
<1>7. CASE UNCHANGED <<tasks, deliveries>>
  <2>1. \A u \in Tasks : ~Enqueue(u)
    <3> SUFFICES ASSUME NEW u \in Tasks, Enqueue(u) PROVE FALSE
      OBVIOUS
    <3>1. tasks'[u].pc = "idle" /\ tasks[u].pc = "enqueue"
      BY <1>1, <1>2 DEF Enqueue, Finish
    <3>2. QED
      BY <1>7, <3>1
  <2>2. QED
    BY <1>3, <1>7, <2>1
<1>8. Goal
  BY <1>4, <1>5, <1>6, <1>7
     DEF Next, RejectWebhook, WorkerStep, Loop, SelectPending, MarkRunning,
         PostReview, ReviewReturns, ReviewFails, Persist, ClaimFailureSlot,
         PostFailureComment, WorkerStorageError, Start, Bind, BindFails,
         StopsDead, CooldownExpires, store, vars
<1>9. QED
  BY <1>8

\* Every step keeps the requests fresh: dedup turns away a delivery that was
\* recorded, and the one request that makes a job of its delivery ends.
LEMMA FreshStep ==
  ASSUME IInv, [Next]_vars
  PROVE  RequestsAreFresh'
<1>1. /\ \A t \in Tasks : tasks[t].pc # "idle" =>
           /\ tasks[t].d \in deliveries
           /\ \A j \in DOMAIN jobs : jobs[j].origin # tasks[t].d
           /\ \A u \in Tasks \ {t} : tasks[u].d # tasks[t].d
      /\ \A t \in Tasks : tasks[t].pc = "idle" => tasks[t].d = NoDelivery
      /\ \A j \in DOMAIN jobs : jobs[j].origin \in deliveries
      /\ NoDelivery \notin deliveries
  BY DeliveryAssumption DEF IInv, RequestsAreFresh, TypeOK
<1>2. \A j \in DOMAIN jobs' : jobs'[j].origin \in deliveries
  <2>1. ASSUME NEW t \in Tasks, Enqueue(t)
        PROVE  tasks[t].d \in deliveries
    BY <1>1, <2>1 DEF Enqueue
  <2>2. QED
    BY <1>1, <2>1, Origins
<1>3. ASSUME NEW t \in Tasks, tasks'[t].pc # "idle"
      PROVE  /\ tasks'[t].d \in deliveries'
             /\ \A j \in DOMAIN jobs' : jobs'[j].origin # tasks'[t].d
             /\ \A u \in Tasks \ {t} : tasks'[u].d # tasks'[t].d
  <2>1. CASE tasks[t].pc # "idle" /\ tasks'[t].d = tasks[t].d /\ ~Enqueue(t)
    <3>1. tasks'[t].d \in deliveries'
      BY <1>1, <2>1, RequestMoves
    <3>2. \A j \in DOMAIN jobs' : jobs'[j].origin # tasks[t].d
      <4>1. ASSUME NEW u \in Tasks, Enqueue(u)
            PROVE  tasks[u].d # tasks[t].d
        BY <1>1, <2>1, <4>1 DEF Enqueue
      <4>2. QED
        BY <1>1, <2>1, <4>1, Origins
    <3>3. ASSUME NEW u \in Tasks \ {t}
          PROVE  tasks'[u].d # tasks'[t].d
      BY <1>1, <2>1, RequestMoves
    <3>4. QED
      BY <2>1, <3>1, <3>2, <3>3
  <2>2. CASE /\ tasks'[t].d \in Deliveries /\ tasks'[t].d \notin deliveries
             /\ tasks'[t].d \in deliveries'
             /\ \A u \in Tasks \ {t} : tasks'[u] = tasks[u]
    <3>1. \A u \in Tasks : tasks[u].d \in deliveries \cup {NoDelivery}
      BY <1>1
    <3>2. QED
      BY <1>2, <2>2, <3>1, DeliveryAssumption
  <2>3. QED
    BY <1>3, <2>1, <2>2, RequestMoves
<1>4. \A t \in Tasks : tasks'[t].pc = "idle" => tasks'[t].d = NoDelivery
  BY RequestMoves
<1>5. QED
  BY <1>2, <1>3, <1>4, RequestMoves DEF RequestsAreFresh

\* A job inserted by a request is the first of its delivery.
LEMMA OneJobStep ==
  ASSUME IInv, [Next]_vars
  PROVE  OneJobPerDelivery'
<1>1. \A i, j \in DOMAIN jobs : jobs[i].origin = jobs[j].origin => i = j
  BY DEF IInv, OneJobPerDelivery
<1>2. ASSUME NEW t \in Tasks, Enqueue(t)
      PROVE  \A j \in DOMAIN jobs : jobs[j].origin # tasks[t].d
  BY <1>2 DEF Enqueue, IInv, RequestsAreFresh
<1>3. CASE DOMAIN jobs' = DOMAIN jobs
  BY <1>1, <1>3, Origins DEF OneJobPerDelivery
<1>4. ASSUME NEW t \in Tasks, NEW n, Enqueue(t),
             DOMAIN jobs' = DOMAIN jobs \cup {n},
             jobs'[n].origin = tasks[t].d
      PROVE  OneJobPerDelivery'
  <2>1. \A j \in DOMAIN jobs :
          jobs'[j].origin = jobs[j].origin /\ jobs'[j].origin # jobs'[n].origin
    BY <1>2, <1>4, Origins
  <2>2. QED
    BY <1>1, <1>4, <2>1 DEF OneJobPerDelivery
<1>5. QED
  BY <1>3, <1>4, Origins

-----------------------------------------------------------------------------
(* The recorded reviews.                                                   *)

\* The rows of a job that has ended stay as they are.
LEMMA EndedRowsStay ==
  ASSUME IInv, [Next]_vars, NEW j \in DOMAIN jobs,
         jobs[j].status \in TerminalStatuses
  PROVE  j \in DOMAIN jobs' /\ jobs'[j] = jobs[j]
<1>1. "pending" \notin TerminalStatuses /\ "running" \notin TerminalStatuses
  BY DEF TerminalStatuses
<1>2. ASSUME NEW t \in Tasks, Enqueue(t)
      PROVE  j \in DOMAIN jobs' /\ jobs'[j] = jobs[j]
  BY <1>2, EnqueueEffect DEF JobAdded, JobInserted
<1>3. CASE MarkRunning
  BY <1>1, <1>3, MarkRunningEffect DEF JobMoved
<1>4. CASE Persist
  <2>1. JobMoved(worker.job, worker.result.status, worker.result.detail)
        /\ jobs[worker.job].status = "running"
    BY <1>4, PersistEffect
  <2>2. QED
    BY <1>1, <2>1 DEF JobMoved
<1>5. CASE Start
  BY <1>1, <1>5, StartEffect DEF RunningFailed
<1>6. QED
  BY <1>2, <1>3, <1>4, <1>5, OtherSteps

\* A job that is not done after a step was not done before it, and a job that
\* becomes done does so in _persist.
LEMMA DoneByPersist ==
  ASSUME IInv, [Next]_vars, NEW j \in DOMAIN jobs', jobs'[j].status = "done",
         ~Persist
  PROVE  j \in DOMAIN jobs /\ jobs'[j] = jobs[j]
<1>1. ASSUME NEW t \in Tasks, Enqueue(t)
      PROVE  j \in DOMAIN jobs /\ jobs'[j] = jobs[j]
  BY <1>1, EnqueueEffect DEF JobAdded, JobInserted
<1>2. CASE MarkRunning
  BY <1>2, MarkRunningEffect DEF JobMoved
<1>3. CASE Start
  BY <1>3, StartEffect DEF RunningFailed
<1>4. QED
  BY <1>1, <1>2, <1>3, OtherSteps

\* Every step keeps the recorded reviews truthful.
LEMMA ReviewRowsStep ==
  ASSUME IInv, [Next]_vars
  PROVE  ReviewRowsTruthful'
<1>1. /\ \A i \in DOMAIN reviews :
           /\ reviews[i].job \in DOMAIN jobs
           /\ jobs[reviews[i].job].status = "done"
           /\ jobs[reviews[i].job].detail \in ReviewedDetails
           /\ jobs[reviews[i].job].pr = reviews[i].pr
           /\ reviews[i].job \in ghReviews
      /\ \A i, k \in DOMAIN reviews : reviews[i].job = reviews[k].job => i = k
      /\ \A j \in DOMAIN jobs :
           jobs[j].status = "done" /\ jobs[j].detail \in ReviewedDetails =>
             \E i \in DOMAIN reviews : reviews[i].job = j
  BY DEF IInv, ReviewRowsTruthful, RowsAreOfReviewedJobs, RowsAreUnique,
         ReviewedJobsHaveRows
<1>2. "done" \in TerminalStatuses
  BY DEF TerminalStatuses
<1>3. ghReviews \subseteq ghReviews'
  BY DEF Next, RejectWebhook, ProcessWebhook, TaskStep, GetPr, LoadConfig,
         ReactUnauthorized, ReactEyes, FetchLock, Enqueue,
         HandlerStorageError, WorkerStep, Loop, SelectPending, MarkRunning,
         PostReview, ReviewReturns, ReviewFails, Persist, ClaimFailureSlot,
         PostFailureComment, WorkerStorageError, Start, Bind, BindFails,
         StopsDead, Crash, CooldownExpires, vars
\* The rows that were there stay truthful.
<1>4. \A i \in DOMAIN reviews :
        LET j == reviews[i].job
        IN j \in DOMAIN jobs' /\ jobs'[j] = jobs[j] /\ j \in ghReviews'
  BY <1>1, <1>2, <1>3, EndedRowsStay
<1>5. CASE Persist /\ worker.result.has_review
  <2> DEFINE j == worker.job
             p == jobs[j].pr
             st == worker.result.status
             det == worker.result.detail
  <2>1. /\ JobMoved(j, st, det) /\ jobs[j].status = "running"
        /\ ReviewInserted(reviews, reviews', j, p)
    BY <1>5, PersistEffect
  <2>2. worker.result \in WorkerResults
        /\ (worker.result \in ReviewedResults => j \in ghReviews)
    BY <1>5 DEF IInv, ResultIsPossible, Persist
  <2>3. st = "done" /\ det \in ReviewedDetails /\ j \in ghReviews'
    BY <1>3, <1>5, <2>2, WorkerResultFacts
  <2> HIDE DEF st, det, j, p
  <2>4. PICK n : /\ n \notin DOMAIN reviews
                 /\ DOMAIN reviews' = DOMAIN reviews \cup {n}
                 /\ \A i \in DOMAIN reviews : reviews'[i] = reviews[i]
                 /\ reviews'[n].job = j /\ reviews'[n].pr = p
    BY <2>1 DEF ReviewInserted
  <2>5. /\ j \in DOMAIN jobs /\ DOMAIN jobs' = DOMAIN jobs
        /\ \A i \in DOMAIN jobs : i # j => jobs'[i] = jobs[i]
        /\ jobs'[j].status = st /\ jobs'[j].detail = det
        /\ jobs'[j].pr = p
    BY <2>1 DEF JobMoved, SameOrigin, p
  <2>6. \A i \in DOMAIN reviews : reviews[i].job # j
    BY <1>1, <2>1
  <2>7. RowsAreOfReviewedJobs'
    <3> SUFFICES ASSUME NEW i \in DOMAIN reviews'
                 PROVE  LET k == reviews'[i].job
                        IN /\ k \in DOMAIN jobs'
                           /\ jobs'[k].status = "done"
                           /\ jobs'[k].detail \in ReviewedDetails
                           /\ jobs'[k].pr = reviews'[i].pr
                           /\ k \in ghReviews'
      BY DEF RowsAreOfReviewedJobs
    <3>1. CASE i = n
      BY <2>3, <2>4, <2>5, <3>1
    <3>2. CASE i \in DOMAIN reviews
      BY <1>1, <1>4, <2>4, <3>2
    <3>3. QED
      BY <2>4, <3>1, <3>2
  <2>8. RowsAreUnique'
    BY <1>1, <2>4, <2>6 DEF RowsAreUnique
  <2>9. ReviewedJobsHaveRows'
    BY <1>1, <2>4, <2>5 DEF ReviewedJobsHaveRows
  <2>10. QED
    BY <2>7, <2>8, <2>9 DEF ReviewRowsTruthful
<1>6. CASE Persist /\ ~worker.result.has_review
  <2> DEFINE j == worker.job
             st == worker.result.status
             det == worker.result.detail
  <2>1. JobMoved(j, st, det) /\ reviews' = reviews
    BY <1>6, PersistEffect
  <2>2. worker.result \in WorkerResults
    BY <1>6 DEF IInv, ResultIsPossible, Persist
  <2>3. ~(st = "done" /\ det \in ReviewedDetails)
    BY <1>6, <2>2, WorkerResultFacts
  <2> HIDE DEF st, det, j
  <2>4. RowsAreOfReviewedJobs' /\ RowsAreUnique'
    BY <1>1, <1>4, <2>1 DEF RowsAreOfReviewedJobs, RowsAreUnique
  <2>5. ReviewedJobsHaveRows'
    BY <1>1, <2>1, <2>3 DEF ReviewedJobsHaveRows, JobMoved
  <2>6. QED
    BY <2>4, <2>5 DEF ReviewRowsTruthful
<1>7. CASE ~Persist
  <2>1. reviews' = reviews
    BY <1>7, MarkRunningEffect, StartEffect, OtherSteps DEF Enqueue
  <2>2. RowsAreOfReviewedJobs' /\ RowsAreUnique'
    BY <1>1, <1>4, <2>1 DEF RowsAreOfReviewedJobs, RowsAreUnique
  <2>3. ReviewedJobsHaveRows'
    BY <1>1, <1>7, <2>1, DoneByPersist DEF ReviewedJobsHaveRows
  <2>4. QED
    BY <2>2, <2>3 DEF ReviewRowsTruthful
<1>8. QED
  BY <1>5, <1>6, <1>7

-----------------------------------------------------------------------------
(* The process.                                                            *)

\* A step of the worker: it stays the worker of a process that is there, and
\* only a failed query kills it.
LEMMA WorkerStepAgrees ==
  ASSUME TypeOK, ProcessAgrees, WorkerStep
  PROVE  ProcessAgrees'
<1>1. worker \in [pc : WorkerPCs, job : Nat, result : ReviewResults]
  BY DEF TypeOK
<1>2. CASE Loop
  <2>1. CASE phase \in {"starting", "up"} /\ UNCHANGED phase
             /\ worker' = [worker EXCEPT !.pc = "select"]
    <3>1. worker'.pc = "select" /\ tasks' = tasks
      BY <1>1, <1>2, <2>1 DEF Loop
    <3> QED
      BY <2>1, <3>1 DEF ProcessAgrees
  <2>2. CASE phase = "stopping" /\ worker' = NoWorker /\ phase' = "down"
    BY <1>2, <2>2 DEF Loop, NoWorker, WorkerAt, ProcessAgrees
  <2> QED
    BY <1>2, <2>1, <2>2 DEF Loop
<1>3. ASSUME UNCHANGED <<phase, tasks>>, worker.pc # "off",
             worker'.pc \notin {"off", "dead"}
      PROVE  ProcessAgrees'
  BY <1>3 DEF ProcessAgrees
<1>4. CASE SelectPending
  BY <1>1, <1>3, <1>4 DEF SelectPending, LoopTop, WorkerAt
<1>5. CASE MarkRunning
  BY <1>1, <1>3, <1>5 DEF MarkRunning
<1>6. CASE PostReview
  BY <1>1, <1>3, <1>6 DEF PostReview
<1>7. ASSUME NEW r, ReviewReturns(r) \/ ReviewFails(r)
      PROVE  ProcessAgrees'
  BY <1>1, <1>3, <1>7 DEF ReviewReturns, ReviewFails
<1>8. CASE Persist
  BY <1>1, <1>3, <1>8 DEF Persist, LoopTop, WorkerAt
<1>9. CASE ClaimFailureSlot
  BY <1>1, <1>3, <1>9 DEF ClaimFailureSlot, LoopTop, WorkerAt
<1>10. CASE PostFailureComment
  BY <1>1, <1>3, <1>10 DEF PostFailureComment, LoopTop, WorkerAt
<1>11. CASE WorkerStorageError
  <2>1. worker'.pc = "dead" /\ worker.pc # "off" /\ UNCHANGED <<phase, tasks>>
    BY <1>1, <1>11 DEF WorkerStorageError
  <2> QED
    BY <1>11, <2>1 DEF ProcessAgrees, WorkerStorageError
<1> QED
  BY <1>2, <1>4, <1>5, <1>6, <1>7, <1>8, <1>9, <1>10, <1>11 DEF WorkerStep

\* Any step.
LEMMA ProcessStep ==
  ASSUME TypeOK, ProcessAgrees, [Next]_vars
  PROVE  ProcessAgrees'
<1>1. ASSUME NEW t \in Tasks, TaskStep(t)
      PROVE  ProcessAgrees'
  <2>1. tasks[t].pc # "idle" /\ UNCHANGED <<phase, worker>>
    BY <1>1 DEF TaskStep, GetPr, LoadConfig, ReactUnauthorized, ReactEyes,
                FetchLock, Enqueue, HandlerStorageError
  <2> QED
    BY <2>1 DEF ProcessAgrees
<1>2. ASSUME NEW t \in Tasks, NEW d \in Deliveries, ProcessWebhook(t, d)
      PROVE  ProcessAgrees'
  BY <1>2 DEF ProcessWebhook, Arrives, ProcessAgrees
<1>3. CASE \/ \E d \in Deliveries : RejectWebhook(d)
           \/ \E p \in PRs : CooldownExpires(p)
           \/ UNCHANGED vars
  BY <1>3 DEF RejectWebhook, CooldownExpires, vars, ProcessAgrees
<1>4. CASE Start
  BY <1>4 DEF Start, LoopTop, WorkerAt, ProcessAgrees
<1>5. CASE Bind \/ BindFails
  BY <1>5 DEF Bind, BindFails, ProcessAgrees
<1>6. CASE StopsDead
  BY <1>6 DEF StopsDead, NoWorker, WorkerAt, ProcessAgrees
<1>7. CASE Crash
  BY <1>7 DEF Crash, NoWorker, WorkerAt, IdleTask, ProcessAgrees
<1> QED
  BY <1>1, <1>2, <1>3, <1>4, <1>5, <1>6, <1>7, WorkerStepAgrees DEF Next

-----------------------------------------------------------------------------
(* The theorems.                                                           *)

\* Initially the tables are empty and nothing runs.
LEMMA InitIInv == Init => IInv
<1> SUFFICES ASSUME Init PROVE IInv
  OBVIOUS
<1>1. jobs = <<>> /\ DOMAIN jobs = {} /\ reviews = <<>> /\ DOMAIN reviews = {}
  BY DEF Init
<1>2. NoWorker \in WorkerRecords /\ NoWorker.pc = "off"
  <2>1. NoResult \in ReviewResults
    BY DEF NoResult, Result, ReviewResults, TerminalStatuses, StatusDetails
  <2>2. QED
    BY <2>1 DEF NoWorker, WorkerAt, WorkerPCs, NoJob, WorkerRecords
<1>3. IdleTask \in TaskRecords /\ IdleTask.pc = "idle"
      /\ IdleTask.d = NoDelivery
  BY DEF IdleTask, TaskRecords, TaskPCs
<1>4. TypeOK
  <2>1. jobs \in Seq(JobRows) /\ reviews \in Seq(ReviewRows)
    BY <1>1, EmptySeq
  <2>2. worker \in WorkerRecords /\ tasks \in [Tasks -> TaskRecords]
    BY <1>2, <1>3 DEF Init
  <2>3. QED
    BY <2>1, <2>2 DEF Init, TypeOK, NoJob, WorkerRecords, TaskRecords
<1>5. LockIffActive
  BY <1>1 DEF Init, LockIffActive, LockRowsNameActiveJobs,
              ActiveJobsAreLocked, LockHeld, NoJob
<1>6. WorkerOwnsItsJob /\ ResultIsPossible
  BY <1>2 DEF Init, WorkerOwnsItsJob, ResultIsPossible
<1>7. RequestsAreFresh
  BY <1>1, <1>3 DEF Init, RequestsAreFresh
<1>8. OneJobPerDelivery /\ ReviewRowsTruthful
  BY <1>1 DEF OneJobPerDelivery, ReviewRowsTruthful, RowsAreOfReviewedJobs,
              RowsAreUnique, ReviewedJobsHaveRows
<1>9. ProcessAgrees
  BY <1>2, <1>3 DEF Init, ProcessAgrees
<1>10. QED
  BY <1>4, <1>5, <1>6, <1>7, <1>8, <1>9 DEF IInv

\* Every step keeps the invariant.
LEMMA InvariantStep ==
  ASSUME IInv, [Next]_vars
  PROVE  IInv'
BY TypeStep, LockStep, WorkerStepOwns, FreshStep, OneJobStep, ResultStep,
   ReviewRowsStep, ProcessStep DEF IInv

\* The inductive invariant holds in every reachable state.
THEOREM InductiveInvariant == Spec => []IInv
<1>1. IInv /\ [Next]_vars => IInv'
  BY InvariantStep
<1>2. QED
  BY InitIInv, <1>1, PTL DEF Spec

\* Every variable stays in its type.
THEOREM TypeCorrectness == Spec => []TypeOK
<1>1. IInv => TypeOK
  BY DEF IInv
<1>2. QED
  BY InductiveInvariant, <1>1, PTL

\* try_enqueue_review, _persist and recover_on_startup keep pr_locks and jobs
\* in step: a row of pr_locks names the one unfinished job of its pull
\* request, and a pull request without a row has none.
THEOREM LocksMatchJobs == Spec => []LockIffActive
<1>1. IInv => LockIffActive
  BY DEF IInv
<1>2. QED
  BY InductiveInvariant, <1>1, PTL

\* The job the worker holds between _claim_one and the failure comment is in
\* the status the worker left it in, although no UPDATE checks it.
THEOREM WorkerOwnership == Spec => []WorkerOwnsItsJob
<1>1. IInv => WorkerOwnsItsJob
  BY DEF IInv
<1>2. QED
  BY InductiveInvariant, <1>1, PTL

\* However often a delivery is sent, at most one job comes from it.
THEOREM AtMostOneJobPerDelivery == Spec => []OneJobPerDelivery
<1>1. IInv => OneJobPerDelivery
  BY DEF IInv
<1>2. QED
  BY InductiveInvariant, <1>1, PTL

\* reviews_posted has one row for each job that ended with a review, and no
\* other, and the review is on GitHub.
THEOREM RecordedReviewsAreReal == Spec => []ReviewRowsTruthful
<1>1. IInv => ReviewRowsTruthful
  BY DEF IInv
<1>2. QED
  BY InductiveInvariant, <1>1, PTL

\* A job row stays where it is, of the same pull request and delivery, and its
\* status only moves forward.
LEMMA RowsAdvance ==
  ASSUME IInv, [Next]_vars, NEW j \in DOMAIN jobs
  PROVE  /\ j \in DOMAIN jobs'
         /\ jobs'[j] = jobs[j] \/ RowAdvances(jobs[j], jobs'[j])
<1>1. ASSUME NEW t \in Tasks, Enqueue(t)
      PROVE  j \in DOMAIN jobs' /\ jobs'[j] = jobs[j]
  BY <1>1, EnqueueEffect DEF JobAdded, JobInserted
<1>2. CASE MarkRunning
  BY <1>2, MarkRunningEffect
     DEF JobMoved, SameOrigin, RowAdvances, Advances
<1>3. CASE Persist
  <2> DEFINE st == worker.result.status
             det == worker.result.detail
  <2>1. /\ JobMoved(worker.job, st, det) /\ st \in TerminalStatuses
        /\ jobs[worker.job].status = "running"
    BY <1>3, PersistEffect
  <2> HIDE DEF st, det
  <2>2. QED
    BY <2>1 DEF JobMoved, SameOrigin, RowAdvances, Advances
<1>4. CASE Start
  BY <1>4, StartEffect
     DEF RunningFailed, SameOrigin, RowAdvances, Advances, TerminalStatuses
<1>5. QED
  BY <1>1, <1>2, <1>3, <1>4, OtherSteps

\* A job row never disappears, never changes hands, and its status only moves
\* forward.
THEOREM StatusesAdvance == Spec => StatusOnlyAdvances
<1>1. IInv /\ [Next]_vars =>
        [\A j \in DOMAIN jobs :
           /\ j \in DOMAIN jobs'
           /\ jobs'[j] = jobs[j] \/ RowAdvances(jobs[j], jobs'[j])]_vars
  BY RowsAdvance
<1>2. QED
  BY InductiveInvariant, <1>1, PTL DEF Spec, StatusOnlyAdvances

-----------------------------------------------------------------------------
(* Recovery at startup.                                                    *)

\* A step that leaves the jobs alone leaves the worker with its job or
\* without a life.
LEMMA WorkerKeepsItsJob ==
  ASSUME TypeOK, [Next]_vars, ~MarkRunning, ~Persist, ~Start
  PROVE  \/ worker'.pc \in {"off", "dead"}
         \/ /\ worker.pc \notin {"off", "dead"}
            /\ worker.pc \in {"review", "persist"} =>
                 /\ worker'.pc \in {"review", "persist"}
                 /\ worker'.job = worker.job
<1>1. worker \in [pc : WorkerPCs, job : Nat, result : ReviewResults]
  BY DEF TypeOK
<1>2. CASE UNCHANGED worker
  BY <1>2
<1>3. CASE Loop \/ SelectPending \/ PostReview \/ PostFailureComment
  BY <1>1, <1>3 DEF Loop, SelectPending, PostReview, PostFailureComment,
                    NoWorker, WorkerAt
<1>4. ASSUME NEW r, ReviewReturns(r) \/ ReviewFails(r)
      PROVE  /\ worker'.pc = "persist" /\ worker'.job = worker.job
             /\ worker.pc = "review"
  BY <1>1, <1>4 DEF ReviewReturns, ReviewFails
<1>5. CASE ClaimFailureSlot
  BY <1>5 DEF ClaimFailureSlot
<1>6. CASE WorkerStorageError
  BY <1>1, <1>6 DEF WorkerStorageError
<1>7. CASE StopsDead \/ Crash
  BY <1>7 DEF StopsDead, Crash, NoWorker, WorkerAt
<1> QED
  BY <1>2, <1>3, <1>4, <1>5, <1>6, <1>7
  DEF Next, RejectWebhook, ProcessWebhook, TaskStep, GetPr, LoadConfig,
      ReactUnauthorized, ReactEyes, FetchLock, Enqueue, HandlerStorageError,
      WorkerStep, Bind, BindFails, CooldownExpires, vars

\* A worker that is alive has at most the one running job it works on, and
\* keeps to it.
LEMMA RecoveryStep ==
  ASSUME RecoverAtStartup, IInv, NoOrphanedRunning, [Next]_vars
  PROVE  NoOrphanedRunning'
<1> SUFFICES ASSUME NEW j \in DOMAIN jobs', jobs'[j].status = "running"
             PROVE  \/ worker'.pc \in {"off", "dead"}
                    \/ /\ worker'.pc \in {"review", "persist"}
                       /\ worker'.job = j
  BY DEF NoOrphanedRunning, Held
<1>1. /\ TypeOK
      /\ worker \in [pc : WorkerPCs, job : Nat, result : ReviewResults]
  BY DEF IInv, TypeOK
<1>2. CASE MarkRunning
  <2>1. JobMoved(worker.job, "running", "none") /\ worker.pc = "mark"
    BY <1>2, MarkRunningEffect DEF MarkRunning
  <2>2. worker'.pc = "review" /\ worker'.job = worker.job
    BY <1>1, <1>2 DEF MarkRunning
  <2>3. j = worker.job
    BY <2>1 DEF JobMoved, NoOrphanedRunning, Held
  <2> QED
    BY <2>2, <2>3
<1>3. CASE Persist
  <2>1. /\ JobMoved(worker.job, worker.result.status, worker.result.detail)
        /\ worker.result.status \in TerminalStatuses /\ worker.pc = "persist"
    BY <1>3, PersistEffect DEF Persist
  <2>2. j # worker.job
    BY <2>1 DEF JobMoved, TerminalStatuses
  <2> QED
    BY <2>1, <2>2 DEF JobMoved, NoOrphanedRunning, Held
<1>4. CASE Start
  <2>1. jobs \in Seq(JobRows) /\ jobs' = FailRunning(jobs)
    BY <1>1, <1>4 DEF Start, RecoverOnStartup, TypeOK
  <2>2. FALSE
    <3> DEFINE new == jobs'
    <3>1. new = FailRunning(jobs) /\ j \in DOMAIN new
          /\ new[j].status = "running"
      BY <2>1
    <3> HIDE DEF new
    <3> QED
      BY <2>1, <3>1, FailRunningFacts
  <2> QED
    BY <2>2
<1>5. ASSUME ~MarkRunning, ~Persist, ~Start
      PROVE  \/ worker'.pc \in {"off", "dead"}
             \/ /\ worker'.pc \in {"review", "persist"}
                /\ worker'.job = j
  <2>1. j \in DOMAIN jobs /\ jobs[j].status = "running"
    <3>1. ASSUME NEW t \in Tasks, Enqueue(t)
          PROVE  j \in DOMAIN jobs /\ jobs'[j] = jobs[j]
      BY <3>1, EnqueueEffect DEF JobAdded, JobInserted
    <3> QED
      BY <1>5, <3>1, OtherSteps
  <2> QED
    BY <1>1, <1>5, <2>1, WorkerKeepsItsJob DEF NoOrphanedRunning, Held
<1> QED
  BY <1>2, <1>3, <1>4, <1>5

\* recover_on_startup, were it called at startup, would leave no running job
\* without a worker, whatever crashed before.
THEOREM RecoveryLeavesNoOrphan ==
  ASSUME RecoverAtStartup
  PROVE  Spec => []NoOrphanedRunning
<1>1. Init => NoOrphanedRunning
  BY DEF Init, NoOrphanedRunning, NoWorker, WorkerAt
<1>2. IInv /\ NoOrphanedRunning /\ [Next]_vars => NoOrphanedRunning'
  BY RecoveryStep
<1> QED
  BY <1>1, <1>2, InductiveInvariant, PTL DEF Spec

\* try_enqueue_review turns a trigger away only in favour of another: an
\* accepted trigger finds its pull request locked, a lock names an unfinished
\* job, and, with recovery at startup and no failing query, such a job is
\* pending or the worker holds it, for requests are answered only by a process
\* whose worker is alive.
THEOREM AcceptedTriggersAreServed ==
  ASSUME RecoverAtStartup, ~StorageFaults
  PROVE  Spec => AcceptedMeansUnderWay
<1> DEFINE Served(p) == \E j \in DOMAIN jobs' : jobs'[j].pr = p /\ WorkedOn(j)'
           Accepted(t) == /\ tasks[t].pc \in {"fetch_lock", "enqueue"}
                          /\ tasks'[t].pc = "idle"
                          /\ reply'[tasks[t].d] = "ok"
<1>1. ASSUME IInv, [Next]_vars, IInv', NoOrphanedRunning', NEW t \in Tasks,
             Accepted(t)
      PROVE  Served(Event[tasks[t].d].pr)
  <2> DEFINE d == tasks[t].d
             p == Event[d].pr
  <2>1. /\ tasks \in [Tasks -> [pc : TaskPCs, d : Deliveries \cup {NoDelivery}]]
        /\ reply \in [Deliveries -> {"none", "ok", "duplicate", "error"}]
        /\ locks \in [PRs -> Nat]
    BY <1>1 DEF IInv, TypeOK
  <2>2. d \in Deliveries /\ p \in PRs
    <3>1. d \in Deliveries
      BY <1>1 DEF IInv, RequestsAreFresh, TypeOK
    <3> QED
      BY <3>1, EventAssumption DEF Events
  <2>3. tasks' # tasks
    BY <1>1
  <2>4. LockHeld(locks', p)
    <3>1. ASSUME NEW u \in Tasks, TaskStep(u)
          PROVE  LockHeld(locks', p)
      <4>1. /\ \/ \E pc \in TaskPCs : Goto(u, pc)
               \/ \E code \in {"ok", "error"} : Finish(u, code)
        BY <3>1 DEF TaskStep, GetPr, LoadConfig, ReactUnauthorized, ReactEyes,
                    FetchLock, Enqueue, HandlerStorageError, TaskPCs
      <4>2. u = t
        BY <1>1, <2>1, <4>1 DEF Goto, Finish
      <4>3. ~HandlerStorageError(t)
        BY <1>1, <2>1, <2>2 DEF HandlerStorageError, Finish, Answer
      <4>4. CASE FetchLock(t)
        <5>1. CASE LockHeld(locks, p)
          BY <4>4, <5>1 DEF FetchLock, store
        <5>2. CASE ~LockHeld(locks, p)
          BY <1>1, <2>1, <4>4, <5>2 DEF FetchLock, Goto
        <5> QED
          BY <5>1, <5>2
      <4>5. CASE Enqueue(t)
        <5>1. CASE UNCHANGED <<jobs, locks>> /\ LockHeld(locks, p)
          BY <5>1
        <5>2. CASE \E n : JobAdded(n, p, d)
          BY <2>1, <2>2, <5>2 DEF JobAdded, JobInserted, LockHeld
        <5> QED
          BY <1>1, <4>5, <5>1, <5>2, EnqueueEffect
      <4> QED
        BY <1>1, <3>1, <4>2, <4>3, <4>4, <4>5
        DEF TaskStep, GetPr, LoadConfig, ReactUnauthorized, ReactEyes
    <3>2. ~Crash
      BY <1>1, <2>2 DEF Crash
    <3>3. \A u \in Tasks, e \in Deliveries : ~ProcessWebhook(u, e)
      <4> SUFFICES ASSUME NEW u \in Tasks, NEW e \in Deliveries,
                          ProcessWebhook(u, e)
                   PROVE  FALSE
        OBVIOUS
      <4>1. tasks[u].pc = "idle" /\ u # t
        BY <1>1 DEF ProcessWebhook
      <4>2. tasks'[t] = tasks[t]
        BY <2>1, <4>1 DEF ProcessWebhook
      <4> QED
        BY <1>1, <4>2
    <3> QED
      BY <1>1, <2>3, <3>1, <3>2, <3>3
      DEF Next, RejectWebhook, WorkerStep, Loop, SelectPending, MarkRunning,
          PostReview, ReviewReturns, ReviewFails, Persist, ClaimFailureSlot,
          PostFailureComment, WorkerStorageError, Start, Bind, BindFails,
          StopsDead, CooldownExpires, store, vars
  <2>5. LockIffActive' /\ ProcessAgrees' /\ ProcessAgrees
    BY <1>1 DEF IInv
  <2>6. PICK j \in DOMAIN jobs' : /\ jobs'[j].pr = p
                                 /\ jobs'[j].status \in ActiveStatuses
    BY <2>2, <2>4, <2>5 DEF LockIffActive, LockRowsNameActiveJobs
  <2>7. phase' = "up"
    <3>1. phase = "up"
      BY <1>1, <2>5 DEF ProcessAgrees
    <3>2. ~Crash
      BY <1>1, <2>2 DEF Crash
    <3> QED
      BY <1>1, <2>3, <3>1, <3>2 DEF Next, RejectWebhook, ProcessWebhook, TaskStep,
          GetPr, LoadConfig, ReactUnauthorized, ReactEyes, FetchLock, Enqueue,
          HandlerStorageError, WorkerStep, Loop, SelectPending, MarkRunning,
          PostReview, ReviewReturns, ReviewFails, Persist, ClaimFailureSlot,
          PostFailureComment, WorkerStorageError, Start, Bind, BindFails,
          StopsDead, CooldownExpires, vars
  <2>8. worker'.pc \notin {"off", "dead"}
    BY <2>5, <2>7 DEF ProcessAgrees
  <2>9. WorkedOn(j)'
    <3>1. jobs'[j].status = "running" =>
            worker'.pc \in {"review", "persist"} /\ worker'.job = j
      BY <1>1, <2>6, <2>8 DEF NoOrphanedRunning, Held
    <3>2. jobs'[j].status = "pending" \/ jobs'[j].status = "running"
      BY <2>6 DEF ActiveStatuses, JobStatuses, TerminalStatuses
    <3> QED
      BY <3>1, <3>2 DEF WorkedOn, Held
  <2> QED
    BY <2>6, <2>9
<1>2. IInv /\ [Next]_vars /\ IInv' /\ NoOrphanedRunning' =>
        [\A t \in Tasks :
           /\ tasks[t].pc \in {"fetch_lock", "enqueue"}
           /\ tasks'[t].pc = "idle"
           /\ reply'[tasks[t].d] = "ok"
           => \E j \in DOMAIN jobs' :
                jobs'[j].pr = Event[tasks[t].d].pr /\ WorkedOn(j)']_vars
  BY <1>1
<1> QED
  BY InductiveInvariant, RecoveryLeavesNoOrphan, <1>2, PTL
  DEF Spec, AcceptedMeansUnderWay

=============================================================================
