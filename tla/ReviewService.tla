---------------------------- MODULE ReviewService ----------------------------
(***************************************************************************)
(* The running service: webhook requests and the review worker, sharing    *)
(* one SQLite file, in one process that may die at any point.              *)
(*                                                                         *)
(* A webhook request (transport/server.py, transport/webhook.py,           *)
(* orchestration/handlers.py, orchestration/locks.py) is a task; tasks     *)
(* interleave at every await.  The worker (pipeline/worker.py) is one      *)
(* more task, and calls pipeline/failure.py.  What Reviewer.run does is    *)
(* taken from its contract in ReviewModel.                                 *)
(*                                                                         *)
(* Every GitHub call may fail.  Where the code awaits, another task may    *)
(* run; where it commits, the store changes; a crash keeps the store and   *)
(* loses everything else.                                                  *)
(***************************************************************************)
EXTENDS Storage, FiniteSets

CONSTANTS
  Tasks,             \* webhook requests the server handles at a time
  NoDelivery,        \* what an idle task is handling
  Event,             \* what each delivery carries
  Times,             \* readings of the wall clock (utcnow)
  MaxSends,          \* bound: how often GitHub sends one delivery
  MaxExits,          \* bound: how often the process dies
  RecoverAtStartup,  \* is recover_on_startup called?  FALSE in __main__.py
  StorageFaults      \* may a write fail with "database is locked"?

Events == [type : {"pull_request", "issue_comment", "other"},
           action : {"opened", "ready_for_review", "created", "other"},
           draft : BOOLEAN, on_pr : BOOLEAN, from_bot : BOOLEAN,
           mentions : BOOLEAN, parses : BOOLEAN, pr : PRs]

ASSUME DeliveryAssumption == NoDelivery \notin Deliveries
ASSUME EventAssumption == Event \in [Deliveries -> Events]
ASSUME TimesAssumption == Times \subseteq Nat
ASSUME BoundsAssumption == MaxSends \in Nat /\ MaxExits \in Nat
ASSUME SwitchAssumption ==
  RecoverAtStartup \in BOOLEAN /\ StorageFaults \in BOOLEAN

VARIABLES
  jobs, locks, deliveries, reviews,  \* the tables, see Storage
  cooling,    \* PRs whose failure_cooldowns row is younger than the cooldown
  phase,      \* the process: "down", "starting", "up" or "stopping"
  tasks,      \* per request: where it awaits and which delivery it handles
  worker,     \* where the worker awaits, its job and the result it holds
  ghReviews,  \* jobs whose create_review reached GitHub
  notified,   \* jobs that went through maybe_post_failure_comment
  reply,      \* the last answer to each delivery
  sends,      \* how often each delivery was sent
  exits       \* how often the process ended

store == <<jobs, locks, deliveries, reviews, cooling>>
github == <<reply, sends>>
vars == <<store, phase, tasks, worker, ghReviews, notified, github, exits>>

TaskPCs == {"idle", "get_pr", "load_config", "react_no", "react_eyes",
            "fetch_lock", "enqueue"}
WorkerPCs == {"off", "loop", "select", "mark", "review", "persist", "slot",
              "comment", "dead"}

IdleTask == [pc |-> "idle", d |-> NoDelivery]
WorkerAt(pc, j, r) == [pc |-> pc, job |-> j, result |-> r]
NoWorker == WorkerAt("off", NoJob, NoResult)
LoopTop == WorkerAt("loop", NoJob, NoResult)

TypeOK ==
  /\ jobs \in Seq(JobRows)
  /\ locks \in [PRs -> Nat]
  /\ deliveries \in SUBSET Deliveries
  /\ reviews \in Seq(ReviewRows)
  /\ cooling \in SUBSET PRs
  /\ phase \in {"down", "starting", "up", "stopping"}
  /\ tasks \in [Tasks -> [pc : TaskPCs, d : Deliveries \cup {NoDelivery}]]
  /\ worker \in [pc : WorkerPCs, job : Nat, result : ReviewResults]
  /\ ghReviews \in SUBSET Nat
  /\ notified \in SUBSET Nat
  /\ reply \in [Deliveries -> {"none", "ok", "duplicate", "error"}]
  /\ sends \in [Deliveries -> Nat]
  /\ exits \in Nat

Init ==
  /\ jobs = <<>>
  /\ locks = [p \in PRs |-> NoJob]
  /\ deliveries = {}
  /\ reviews = <<>>
  /\ cooling = {}
  /\ phase = "down"
  /\ tasks = [t \in Tasks |-> IdleTask]
  /\ worker = NoWorker
  /\ ghReviews = {}
  /\ notified = {}
  /\ reply = [d \in Deliveries |-> "none"]
  /\ sends = [d \in Deliveries |-> 0]
  /\ exits = 0

-----------------------------------------------------------------------------
(* Webhook requests.                                                       *)

Answer(d, code) == reply' = [reply EXCEPT ![d] = code]
Goto(t, pc) == tasks' = [tasks EXCEPT ![t].pc = pc]

\* The request ends; the server turns its outcome into a status code.
Finish(t, code) ==
  /\ tasks' = [tasks EXCEPT ![t] = IdleTask]
  /\ Answer(tasks[t].d, code)

\* GitHub (or an operator pressing Redeliver) sends d.
Arrives(d) ==
  /\ phase = "up"
  /\ sends[d] < MaxSends
  /\ sends' = [sends EXCEPT ![d] = @ + 1]

\* on_pull_request's early returns.
AutoTrigger(e) ==
  /\ e.type = "pull_request"
  /\ e.action \in {"opened", "ready_for_review"}
  /\ ~e.draft

\* on_issue_comment's early returns, before its first await.
CommentTrigger(e) ==
  /\ e.type = "issue_comment"
  /\ e.action = "created"
  /\ e.on_pr
  /\ ~e.from_bot
  /\ e.mentions

Kind(e) == IF e.type = "pull_request" THEN "auto" ELSE "comment"

\* Mutant of RecordDeliveryIsNew: every delivery passes for new.
Mutant_NoDedup(d) == TRUE

\* dedup.record_delivery's answer: the INSERT found no such row.
RecordDeliveryIsNew(d) == d \notin deliveries

\* 413, 400 or 401: too large, a header missing, a bad signature; and, with
\* storage faults, a 500 because the delivery could not be recorded.
RejectWebhook(d) ==
  /\ Arrives(d)
  /\ Answer(d, "error")
  /\ UNCHANGED <<store, phase, tasks, worker, ghReviews, notified, exits>>

\* process_webhook up to the handler's first await: record and commit the
\* delivery, drop it if it was seen before, parse it, dispatch it.
ProcessWebhook(t, d) ==
  LET e == Event[d]
      Begin(pc) == /\ tasks' = [tasks EXCEPT ![t] = [pc |-> pc, d |-> d]]
                   /\ UNCHANGED reply
      Reply(code) == Answer(d, code) /\ UNCHANGED tasks
  IN /\ Arrives(d)
     /\ tasks[t].pc = "idle"
     /\ deliveries' = deliveries \cup {d}
     /\ \/ ~RecordDeliveryIsNew(d) /\ Reply("duplicate")
        \/ /\ RecordDeliveryIsNew(d)
           /\ \/ ~e.parses /\ Reply("error")
              \/ e.parses /\ AutoTrigger(e) /\ Begin("fetch_lock")
              \/ e.parses /\ CommentTrigger(e) /\ Begin("get_pr")
              \/ /\ e.parses /\ ~AutoTrigger(e) /\ ~CommentTrigger(e)
                 /\ Reply("ok")
     /\ UNCHANGED <<jobs, locks, reviews, cooling, phase, worker, ghReviews,
                    notified, exits>>

\* on_issue_comment: client.get_pr.
GetPr(t) ==
  /\ tasks[t].pc = "get_pr"
  /\ \/ Goto(t, "load_config") /\ UNCHANGED reply
     \/ Finish(t, "error")
  /\ UNCHANGED <<store, phase, worker, ghReviews, notified, sends, exits>>

\* on_issue_comment: loader.load, the `enabled` test and is_authorized.
LoadConfig(t) ==
  /\ tasks[t].pc = "load_config"
  /\ \/ Finish(t, "error")
     \/ Finish(t, "ok")
     \/ \E pc \in {"react_no", "react_eyes"} : Goto(t, pc) /\ UNCHANGED reply
  /\ UNCHANGED <<store, phase, worker, ghReviews, notified, sends, exits>>

\* on_issue_comment: react_to_comment "-1", then return.
ReactUnauthorized(t) ==
  /\ tasks[t].pc = "react_no"
  /\ \E code \in {"ok", "error"} : Finish(t, code)
  /\ UNCHANGED <<store, phase, worker, ghReviews, notified, sends, exits>>

\* on_issue_comment: react_to_comment "eyes", then enqueue.
ReactEyes(t) ==
  /\ tasks[t].pc = "react_eyes"
  /\ \/ Goto(t, "fetch_lock") /\ UNCHANGED reply
     \/ Finish(t, "error")
  /\ UNCHANGED <<store, phase, worker, ghReviews, notified, sends, exits>>

\* try_enqueue_review: the first read.  It ends its own read transaction, so
\* what it saw may be stale by the time the insert takes the write lock.
FetchLock(t) ==
  /\ tasks[t].pc = "fetch_lock"
  /\ IF LockHeld(locks, Event[tasks[t].d].pr)
       THEN Finish(t, "ok")
       ELSE Goto(t, "enqueue") /\ UNCHANGED reply
  /\ UNCHANGED <<store, phase, worker, ghReviews, notified, sends, exits>>

\* Mutant of EnqueueConflict: acquire_lock's answer is not looked at.
Mutant_NoConflict(p) == FALSE

\* acquire_lock's answer: the INSERT ran into a row for the pull request.
EnqueueConflict(p) == LockHeld(locks, p)

\* try_enqueue_review: the write transaction.  A conflict rolls the inserted
\* job back.
Enqueue(t) ==
  LET d == tasks[t].d
      p == Event[d].pr
  IN /\ tasks[t].pc = "enqueue"
     /\ \/ EnqueueConflict(p) /\ UNCHANGED <<jobs, locks>>
        \/ /\ ~EnqueueConflict(p)
           /\ \E now \in Times :
                jobs' = InsertJob(jobs, p, Kind(Event[d]), now, d)
           /\ locks' = AcquireLock(locks, p, Len(jobs'))
     /\ Finish(t, "ok")
     /\ UNCHANGED <<deliveries, reviews, cooling, phase, worker, ghReviews,
                    notified, sends, exits>>

\* A query of the handler raises; the server answers 500.
HandlerStorageError(t) ==
  /\ StorageFaults
  /\ tasks[t].pc \in {"fetch_lock", "enqueue"}
  /\ Finish(t, "error")
  /\ UNCHANGED <<store, phase, worker, ghReviews, notified, sends, exits>>

TaskStep(t) ==
  \/ GetPr(t) \/ LoadConfig(t) \/ ReactUnauthorized(t) \/ ReactEyes(t)
  \/ FetchLock(t) \/ Enqueue(t) \/ HandlerStorageError(t)

-----------------------------------------------------------------------------
(* The worker.                                                             *)

\* The loop condition of run_forever: stop() is only looked at here.
Loop ==
  /\ worker.pc = "loop"
  /\ \/ /\ phase \in {"starting", "up"}
        /\ worker' = [worker EXCEPT !.pc = "select"]
        /\ UNCHANGED phase
     \/ /\ phase = "stopping"
        /\ worker' = NoWorker
        /\ phase' = "down"
  /\ UNCHANGED <<store, tasks, ghReviews, notified, github, exits>>

\* _claim_one: SELECT the oldest pending job; sleep if there is none.
SelectPending ==
  /\ worker.pc = "select"
  /\ \/ /\ Pending(jobs) = {}
        /\ worker' = LoopTop
     \/ \E j \in Pending(jobs) :
          /\ \A i \in Pending(jobs) \ {j} : Before(jobs, j, i)
          /\ worker' = WorkerAt("mark", j, NoResult)
  /\ UNCHANGED <<store, phase, tasks, ghReviews, notified, github, exits>>

\* _claim_one: UPDATE the selected row, by id, and commit.
MarkRunning ==
  /\ worker.pc = "mark"
  /\ jobs' = UpdateJobStatus(jobs, worker.job, "running", "none")
  /\ worker' = [worker EXCEPT !.pc = "review"]
  /\ UNCHANGED <<locks, deliveries, reviews, cooling, phase, tasks, ghReviews,
                 notified, github, exits>>

\* Reviewer.run: create_review takes effect on GitHub, whatever the client
\* gets to hear of it.
PostReview ==
  /\ worker.pc = "review"
  /\ worker.job \notin ghReviews
  /\ ghReviews' = ghReviews \cup {worker.job}
  /\ UNCHANGED <<store, phase, tasks, worker, notified, github, exits>>

\* _process: run() returned a result, within its contract; go to _persist.
ReviewReturns(r) ==
  /\ worker.pc = "review"
  /\ Permitted(r, worker.job \in ghReviews)
  /\ worker' = [worker EXCEPT !.pc = "persist", !.result = r]
  /\ UNCHANGED <<store, phase, tasks, ghReviews, notified, github, exits>>

\* _process: wait_for timed out, or run() raised; go to _finalize_failure.
\* A review already posted stays posted.
ReviewFails(r) ==
  /\ worker.pc = "review"
  /\ worker' = [worker EXCEPT !.pc = "persist", !.result = r]
  /\ UNCHANGED <<store, phase, tasks, ghReviews, notified, github, exits>>

\* Mutant of AsksForComment: only what run() returned is followed up.
Mutant_NoTimeoutComment(r) ==
  r \in RunResults /\ r.status = "failed" /\ r.notify

\* Does the failure comment follow?  _persist asks for a FAILED status and a
\* message; _finalize_failure always has both.
AsksForComment(r) == r.status = "failed" /\ r.notify

\* Mutant of RecordsReview: every job that is done gets a row.
Mutant_RecordsEveryDone(r) == r.status = "done"

\* _persist: `if result.review_id is not None`.
RecordsReview(r) == r.has_review

\* _persist and _finalize_failure: one transaction sets the status, records
\* the review and releases the lock.
Persist ==
  LET j == worker.job
      p == jobs[j].pr
      r == worker.result
  IN /\ worker.pc = "persist"
     /\ jobs' = UpdateJobStatus(jobs, j, r.status, r.detail)
     /\ reviews' = IF RecordsReview(r) THEN RecordReviewPosted(reviews, j, p)
                                       ELSE reviews
     /\ locks' = ReleaseLock(locks, p)
     /\ worker' = IF AsksForComment(r) THEN [worker EXCEPT !.pc = "slot"]
                                       ELSE LoopTop
     /\ UNCHANGED <<deliveries, cooling, phase, tasks, ghReviews, notified,
                    github, exits>>

\* maybe_post_failure_comment: claim_failure_slot.
ClaimFailureSlot ==
  LET p == jobs[worker.job].pr
  IN /\ worker.pc = "slot"
     /\ notified' = notified \cup {worker.job}
     /\ \/ /\ p \in cooling
           /\ worker' = LoopTop
           /\ UNCHANGED cooling
        \/ /\ p \notin cooling
           /\ worker' = [worker EXCEPT !.pc = "comment"]
           /\ cooling' = cooling \cup {p}
     /\ UNCHANGED <<jobs, locks, deliveries, reviews, phase, tasks, ghReviews,
                    github, exits>>

\* maybe_post_failure_comment: create_comment, any exception swallowed.
PostFailureComment ==
  /\ worker.pc = "comment"
  /\ worker' = LoopTop
  /\ UNCHANGED <<store, phase, tasks, ghReviews, notified, github, exits>>

\* A query of the worker raises.  Nothing catches it: the worker task ends,
\* the server goes on.
WorkerStorageError ==
  /\ StorageFaults
  /\ worker.pc \in {"select", "mark", "persist", "slot"}
  /\ worker' = [worker EXCEPT !.pc = "dead"]
  /\ UNCHANGED <<store, phase, tasks, ghReviews, notified, github, exits>>

WorkerStep ==
  \/ Loop \/ SelectPending \/ MarkRunning \/ PostReview
  \/ \E r \in RunResults : ReviewReturns(r)
  \/ \E r \in {TimeoutResult, RaisedResult} : ReviewFails(r)
  \/ Persist \/ ClaimFailureSlot \/ PostFailureComment
  \/ WorkerStorageError

-----------------------------------------------------------------------------
(* The process.                                                            *)

\* recovery.recover_on_startup followed by its caller's commit.
RecoverOnStartup ==
  /\ jobs' = FailRunning(jobs)
  /\ locks' = ClearStaleLocks(FailRunning(jobs), locks)

\* _serve up to server.serve(): the worker starts before the port is bound.
Start ==
  /\ phase = "down"
  /\ phase' = "starting"
  /\ worker' = LoopTop
  /\ IF RecoverAtStartup THEN RecoverOnStartup ELSE UNCHANGED <<jobs, locks>>
  /\ UNCHANGED <<deliveries, reviews, cooling, tasks, ghReviews, notified,
                 github, exits>>

Bind ==
  /\ phase = "starting"
  /\ phase' = "up"
  /\ UNCHANGED <<store, tasks, worker, ghReviews, notified, github, exits>>

\* serve() ends on its own (the port is taken): stop the worker, await it.
BindFails ==
  /\ phase = "starting"
  /\ exits < MaxExits
  /\ exits' = exits + 1
  /\ phase' = "stopping"
  /\ UNCHANGED <<store, tasks, worker, ghReviews, notified, github>>

\* _serve awaits a worker task that has died: its exception ends the process.
StopsDead ==
  /\ phase = "stopping"
  /\ worker.pc = "dead"
  /\ phase' = "down"
  /\ worker' = NoWorker
  /\ UNCHANGED <<store, tasks, ghReviews, notified, github, exits>>

\* A signal, a kill or a power loss: uvicorn re-raises SIGTERM and SIGINT
\* once serve() returns, which ends the process or cancels the worker in the
\* middle of its job.  Requests in flight are not answered.
Crash ==
  /\ phase # "down"
  /\ exits < MaxExits
  /\ exits' = exits + 1
  /\ phase' = "down"
  /\ worker' = NoWorker
  /\ tasks' = [t \in Tasks |-> IdleTask]
  /\ reply' = [d \in Deliveries |->
                 IF \E t \in Tasks : tasks[t].d = d THEN "error" ELSE reply[d]]
  /\ UNCHANGED <<store, ghReviews, notified, sends>>

\* An hour passes: the row no longer stands in the way.
CooldownExpires(p) ==
  /\ p \in cooling
  /\ cooling' = cooling \ {p}
  /\ UNCHANGED <<jobs, locks, deliveries, reviews, phase, tasks, worker,
                 ghReviews, notified, github, exits>>

Next ==
  \/ \E d \in Deliveries : RejectWebhook(d)
  \/ \E t \in Tasks, d \in Deliveries : ProcessWebhook(t, d)
  \/ \E t \in Tasks : TaskStep(t)
  \/ WorkerStep
  \/ Start \/ Bind \/ BindFails \/ StopsDead \/ Crash
  \/ \E p \in PRs : CooldownExpires(p)

Spec == Init /\ [][Next]_vars

\* Every await in a handler and in the worker ends: the GitHub client has a
\* 30 s timeout, the review runs under wait_for, SQLite under its busy
\* timeout.  GitHub need not send anything and the process need not crash.
Fairness ==
  /\ \A t \in Tasks : WF_vars(TaskStep(t))
  /\ WF_vars(WorkerStep)
  /\ WF_vars(Start) /\ WF_vars(Bind) /\ WF_vars(StopsDead)

FairSpec == Spec /\ Fairness

-----------------------------------------------------------------------------
(* Correctness.                                                            *)

\* The pr_locks row of a pull request names its one unfinished job, and a
\* pull request without a row has none: try_enqueue_review and _persist keep
\* the two tables in step whatever interleaves or crashes, so that two
\* reviews of one pull request never run and none is refused for nothing.
LockRowsNameActiveJobs ==
  \A p \in PRs : LockHeld(locks, p) =>
    /\ locks[p] \in DOMAIN jobs
    /\ jobs[locks[p]].pr = p
    /\ jobs[locks[p]].status \in ActiveStatuses
ActiveJobsAreLocked ==
  \A j \in DOMAIN jobs :
    jobs[j].status \in ActiveStatuses => locks[jobs[j].pr] = j
LockIffActive == LockRowsNameActiveJobs /\ ActiveJobsAreLocked

\* Between the SELECT and the UPDATE of _claim_one the job stays pending,
\* from there to _persist it stays running, and the failure comment is about
\* a job that failed: nobody else touches the row the worker holds, which is
\* what lets update_job_status and release_lock go without a guard.
StatusWhile(pc) ==
  CASE pc = "mark" -> "pending"
    [] pc \in {"review", "persist"} -> "running"
    [] OTHER -> "failed"
WorkerOwnsItsJob ==
  worker.pc \in {"mark", "review", "persist", "slot", "comment"} =>
    /\ worker.job \in DOMAIN jobs
    /\ jobs[worker.job].status = StatusWhile(worker.pc)

\* A delivery leads to at most one job, however often GitHub sends it and
\* whatever crashes in between: record_delivery commits before the dispatch.
OneJobPerDelivery ==
  \A i, j \in DOMAIN jobs : jobs[i].origin = jobs[j].origin => i = j

\* A reviews_posted row exists for exactly the jobs that ended with a review,
\* once, and the review is on GitHub.
RowsAreOfReviewedJobs ==
  \A i \in DOMAIN reviews :
    LET j == reviews[i].job
    IN /\ j \in DOMAIN jobs
       /\ jobs[j].status = "done"
       /\ jobs[j].detail \in ReviewedDetails
       /\ jobs[j].pr = reviews[i].pr
       /\ j \in ghReviews
RowsAreUnique ==
  \A i, k \in DOMAIN reviews : reviews[i].job = reviews[k].job => i = k
ReviewedJobsHaveRows ==
  \A j \in DOMAIN jobs :
    jobs[j].status = "done" /\ jobs[j].detail \in ReviewedDetails =>
      \E i \in DOMAIN reviews : reviews[i].job = j
ReviewRowsTruthful ==
  RowsAreOfReviewedJobs /\ RowsAreUnique /\ ReviewedJobsHaveRows

\* A job row never disappears or changes owner, and its status only moves
\* pending -> running -> done or failed, although update_job_status is
\* unconditional.
Advances(s, n) ==
  \/ s = "pending" /\ n = "running"
  \/ s = "running" /\ n \in TerminalStatuses
RowAdvances(old, new) ==
  /\ Advances(old.status, new.status)
  /\ old.pr = new.pr /\ old.origin = new.origin
  /\ old.created_at = new.created_at /\ old.trigger = new.trigger
StatusOnlyAdvances ==
  [][\A j \in DOMAIN jobs :
       /\ j \in DOMAIN jobs'
       /\ jobs'[j] = jobs[j] \/ RowAdvances(jobs[j], jobs'[j])]_vars

\* The worker is reviewing job j, or about to persist what came of it.
Held(j) == worker.pc \in {"review", "persist"} /\ worker.job = j

\* A trigger that got through (a comment has its eyes by then) and was
\* answered "ok" is not lost at that moment: its pull request has a job, its
\* own or that of the trigger that was faster, whichever of the two tests of
\* the lock turned it away, and that job is pending or in the worker's hands.
\* This needs recovery at startup and a worker no query has killed: without
\* them the job that holds the lock may be one that a restart left running,
\* of which nothing comes.
WorkedOn(j) ==
  \/ jobs[j].status = "pending"
  \/ jobs[j].status = "running" /\ Held(j)
AcceptedMeansUnderWay ==
  [][\A t \in Tasks :
       /\ tasks[t].pc \in {"fetch_lock", "enqueue"}
       /\ tasks'[t].pc = "idle"
       /\ reply'[tasks[t].d] = "ok"
       => \E j \in DOMAIN jobs' :
            jobs'[j].pr = Event[tasks[t].d].pr /\ WorkedOn(j)']_vars

\* What makes the invariants above inductive.  A request that is under way
\* handles a recorded delivery of its own, from which no job has come yet,
\* and a result waiting to be persisted is one the review could end with.
RequestsAreFresh ==
  /\ \A t \in Tasks : tasks[t].pc # "idle" =>
       /\ tasks[t].d \in deliveries
       /\ \A j \in DOMAIN jobs : jobs[j].origin # tasks[t].d
       /\ \A u \in Tasks \ {t} : tasks[u].d # tasks[t].d
  /\ \A t \in Tasks : tasks[t].pc = "idle" => tasks[t].d = NoDelivery
  /\ \A j \in DOMAIN jobs : jobs[j].origin \in deliveries
ResultIsPossible ==
  worker.pc = "persist" =>
    /\ worker.result \in WorkerResults
    /\ worker.result \in ReviewedResults => worker.job \in ghReviews
\* There is a worker just while there is a process, a dead one only after a
\* failed query, and requests are under way only while the server serves.
ProcessAgrees ==
  /\ phase = "down" <=> worker.pc = "off"
  /\ worker.pc = "dead" => StorageFaults
  /\ \A t \in Tasks : tasks[t].pc # "idle" => phase = "up"
IInv ==
  /\ TypeOK
  /\ LockIffActive
  /\ WorkerOwnsItsJob
  /\ RequestsAreFresh
  /\ OneJobPerDelivery
  /\ ResultIsPossible
  /\ ReviewRowsTruthful
  /\ ProcessAgrees

\* The service as a ReviewQueue: a job row is a ticket, under review while the
\* worker holds it and orphaned if it is running without, and a reviews_posted
\* row puts its job on record.  The lock table, the deliveries, the requests
\* and the rest of the worker are hidden; that they enforce one open ticket
\* per pull request, one ticket under review and the order of a ticket's
\* states is what the refinement shows.
TicketState(j) ==
  CASE jobs[j].status = "pending" -> "queued"
    [] jobs[j].status = "running" -> IF Held(j) THEN "reviewing" ELSE "orphaned"
    [] OTHER -> "closed"
Tickets == [j \in DOMAIN jobs |-> [pr |-> jobs[j].pr, state |-> TicketState(j)]]
Recorded == {reviews[i].job : i \in DOMAIN reviews}
Queue == INSTANCE ReviewQueue WITH tickets <- Tickets, recorded <- Recorded
ImplementsReviewQueue == Queue!QueueSpec

\* recover_on_startup: "Fail orphaned `running` jobs".  While a worker is
\* alive, a running job is the one it is working on.
NoOrphanedRunning ==
  \A j \in DOMAIN jobs :
    jobs[j].status = "running" => worker.pc \in {"off", "dead"} \/ Held(j)

\* A pending job is eventually taken by the worker, crashes or not: its row
\* survives the restart and the oldest one is always next.
PendingEventuallyTaken ==
  \A j \in 1 .. Cardinality(Deliveries) :
    (j \in Pending(jobs)) ~> (j \notin Pending(jobs))

\* A lock on a pull request is eventually released.
LockEventuallyFree ==
  \A p \in PRs : LockHeld(locks, p) ~> ~LockHeld(locks, p)

\* The job the worker is about to record as failed, for one of the reasons
\* that come with a message.
AboutToFail(j) ==
  /\ worker.pc = "persist" /\ worker.job = j
  /\ worker.result.status = "failed"
  /\ worker.result.detail \in {"timeout", "llm_failure"}

\* A review that timed out, or that could not be produced, leads to a
\* failure comment or to its suppression by the cooldown, unless the process
\* dies on the way: the notification follows the commit of _persist and
\* nothing remembers it.
FailedReviewIsNotified ==
  \A j \in 1 .. Cardinality(Deliveries) :
    AboutToFail(j) ~> (j \in notified \/ phase = "down")

\* README.md: "a *Redeliver* button you can use to replay any event".  A
\* delivery whose handling failed is not dropped when it is sent again.
RedeliveryReplays ==
  [][\A d \in Deliveries : reply[d] = "error" => reply'[d] # "duplicate"]_vars

=============================================================================
