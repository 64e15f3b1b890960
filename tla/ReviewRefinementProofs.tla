------------------------ MODULE ReviewRefinementProofs ------------------------
(***************************************************************************)
(* ReviewService implements ReviewQueue: whatever the requests, the worker *)
(* and the crashes do, the users of the service see a queue of tickets     *)
(* with at most one open ticket for a pull request and at most one under   *)
(* review.  ReviewingService, with the pipeline in it, implements          *)
(* ReviewService, and so the queue.                                        *)
(***************************************************************************)
EXTENDS ReviewServiceProofs, ReviewerProofs, ReviewingService

TicketRecords ==
  [pr : PRs, state : {"queued", "reviewing", "orphaned", "closed"}]

\* The tickets are a sequence, one for each row of the jobs table.
TicketSequence ==
  /\ Tickets \in Seq(TicketRecords)
  /\ Len(Tickets) = Len(jobs)
  /\ DOMAIN Tickets = DOMAIN jobs
  /\ DOMAIN jobs = 1 .. Len(jobs) /\ Len(jobs) \in Nat
LEMMA TicketsAreASequence == TypeOK => TicketSequence
<1> SUFFICES ASSUME TypeOK PROVE TicketSequence
  OBVIOUS
<1>1. DOMAIN jobs = 1 .. Len(jobs) /\ Len(jobs) \in Nat
  BY LenProperties DEF TypeOK
<1>2. \A j \in DOMAIN jobs :
        [pr |-> jobs[j].pr, state |-> TicketState(j)] \in TicketRecords
  BY JobRow DEF TicketRecords, TicketState
<1>3. Tickets \in [1 .. Len(jobs) -> TicketRecords]
  BY <1>1, <1>2 DEF Tickets
<1>4. Tickets \in Seq(TicketRecords)
  BY <1>1, <1>3, SeqDef
<1>5. DOMAIN Tickets = 1 .. Len(jobs) /\ DOMAIN Tickets = 1 .. Len(Tickets)
      /\ Len(Tickets) \in Nat
  BY <1>3, <1>4, LenProperties
<1>6. QED
  BY <1>1, <1>4, <1>5 DEF TicketSequence

\* A job changing status is its ticket changing state, if the worker holds
\* no other before or after.
LEMMA TicketMoved ==
  ASSUME NEW j, NEW s, NEW det, JobMoved(j, s, det),
         NEW st, st = TicketState(j)',
         \A i \in DOMAIN jobs : i # j => ~Held(i) /\ ~Held(i)'
  PROVE  /\ j \in DOMAIN Tickets
         /\ Tickets' = [Tickets EXCEPT ![j].state = st]
<1>1. /\ j \in DOMAIN jobs /\ DOMAIN jobs' = DOMAIN jobs
      /\ \A i \in DOMAIN jobs : i # j => jobs'[i] = jobs[i]
      /\ jobs'[j].pr = jobs[j].pr
  BY DEF JobMoved, SameOrigin
<1> DEFINE Old(i) == [pr |-> jobs[i].pr, state |-> TicketState(i)]
           New(i) == [pr |-> jobs'[i].pr, state |-> TicketState(i)']
           moved == [pr |-> jobs[j].pr, state |-> st]
<1>2. Tickets = [i \in DOMAIN jobs |-> Old(i)]
      /\ Tickets' = [i \in DOMAIN jobs |-> New(i)]
  BY <1>1 DEF Tickets
<1>3. [Tickets[j] EXCEPT !.state = st] = moved
  BY <1>1, <1>2
<1>4. New(j) = moved /\ \A i \in DOMAIN jobs : i # j => New(i) = Old(i)
  <2>1. \A i \in DOMAIN jobs : i # j => TicketState(i)' = TicketState(i)
    BY <1>1 DEF TicketState
  <2> QED
    BY <1>1, <2>1
<1> HIDE DEF Old, New, moved
<1>5. [Tickets EXCEPT ![j].state = st] = [Tickets EXCEPT ![j] = moved]
  BY <1>3
<1>6. Tickets' = [Tickets EXCEPT ![j] = moved]
  BY <1>1, <1>2, <1>4
<1>7. QED
  BY <1>1, <1>2, <1>5, <1>6

\* A step that neither claims nor persists a job leaves the worker with the
\* job it held, or takes it away.
LEMMA HoldsOrDrops ==
  ASSUME TypeOK, [Next]_vars, ~MarkRunning, ~Persist
  PROVE  \/ \A j : Held(j)' <=> Held(j)
         \/ \A j : ~Held(j)'
<1>1. worker \in [pc : WorkerPCs, job : Nat, result : ReviewResults]
  BY DEF TypeOK
<1>2. CASE UNCHANGED worker
  BY <1>2 DEF Held
<1>3. CASE Loop \/ SelectPending \/ PostReview \/ PostFailureComment
  BY <1>1, <1>3 DEF Loop, SelectPending, PostReview, PostFailureComment,
                    NoWorker, LoopTop, WorkerAt, Held
<1>4. ASSUME NEW r, ReviewReturns(r) \/ ReviewFails(r)
      PROVE  /\ worker'.pc = "persist" /\ worker'.job = worker.job
             /\ worker.pc = "review"
  BY <1>1, <1>4 DEF ReviewReturns, ReviewFails
<1>5. CASE ClaimFailureSlot
  BY <1>1, <1>5 DEF ClaimFailureSlot, LoopTop, WorkerAt, Held
<1>6. CASE WorkerStorageError
  BY <1>1, <1>6 DEF WorkerStorageError, Held
<1>7. CASE StopsDead \/ Crash \/ Start
  BY <1>7 DEF StopsDead, Crash, Start, NoWorker, LoopTop, WorkerAt, Held
<1>8. CASE /\ worker'.pc = "persist" /\ worker'.job = worker.job
           /\ worker.pc = "review"
  BY <1>8 DEF Held
<1> QED
  BY <1>2, <1>3, <1>4, <1>5, <1>6, <1>7, <1>8
  DEF Next, RejectWebhook, ProcessWebhook, TaskStep, GetPr, LoadConfig,
      ReactUnauthorized, ReactEyes, FetchLock, Enqueue, HandlerStorageError,
      WorkerStep, Bind, BindFails, CooldownExpires, vars

\* A step of which the jobs know nothing is none to the queue, or the one in
\* which the ticket under review is orphaned.
LEMMA UntouchedTickets ==
  ASSUME TypeOK, [Next]_vars, ~MarkRunning, ~Persist, UNCHANGED jobs
  PROVE  Tickets' = Tickets \/ Queue!MoveAll("reviewing", "orphaned")
<1> DEFINE Old(i) == [pr |-> jobs[i].pr, state |-> TicketState(i)]
           New(i) == [pr |-> jobs[i].pr, state |-> TicketState(i)']
           Given(i) == IF Old(i).state = "reviewing"
                         THEN [Old(i) EXCEPT !.state = "orphaned"]
                         ELSE Old(i)
<1>1. /\ Tickets = [i \in DOMAIN jobs |-> Old(i)]
      /\ Tickets' = [i \in DOMAIN jobs |-> New(i)]
  BY DEF Tickets
<1>2. CASE \A j : Held(j)' <=> Held(j)
  <2>1. \A i \in DOMAIN jobs : TicketState(i)' = TicketState(i)
    BY <1>2 DEF TicketState
  <2> QED
    BY <1>1, <2>1
<1>3. CASE \A j : ~Held(j)'
  <2>1. ASSUME NEW i \in DOMAIN jobs
        PROVE  New(i) = Given(i)
    <3>1. TicketState(i)' = IF TicketState(i) = "reviewing" THEN "orphaned"
                                                            ELSE TicketState(i)
      BY <1>3 DEF TicketState
    <3> QED
      BY <3>1
  <2>2. [k \in DOMAIN Tickets |->
           IF Tickets[k].state = "reviewing"
             THEN [Tickets[k] EXCEPT !.state = "orphaned"]
             ELSE Tickets[k]]
        = [i \in DOMAIN jobs |-> Given(i)]
    BY <1>1
  <2> HIDE DEF Old, New, Given
  <2>3. Tickets' = [i \in DOMAIN jobs |-> Given(i)]
    BY <1>1, <2>1
  <2> QED
    BY <2>2, <2>3 DEF Queue!MoveAll
<1> QED
  BY <1>2, <1>3, HoldsOrDrops

\* Each step is a step of the queue or none.
LEMMA RefinementStep ==
  ASSUME IInv, [Next]_vars
  PROVE  [Queue!QueueNext]_(Queue!queueVars)
<1>1. TypeOK /\ LockIffActive /\ ProcessAgrees
  BY DEF IInv
<1>2. ASSUME NEW t \in Tasks, Enqueue(t)
      PROVE  Queue!QueueNext \/ UNCHANGED <<Tickets, Recorded>>
  <2>1. reviews' = reviews
    BY <1>2 DEF Enqueue
  <2>0. worker' = worker
    BY <1>2 DEF Enqueue
  <2>2. CASE UNCHANGED <<jobs, locks>>
    BY <2>0, <2>1, <2>2 DEF Tickets, TicketState, Held, Recorded
  <2>3. ASSUME NEW n, NEW p, NEW d, JobAdded(n, p, d)
        PROVE  Queue!Accept(p) /\ p \in PRs
    <3> DEFINE row == [pr |-> p, state |-> "queued"]
               Old(i) == [pr |-> jobs[i].pr, state |-> TicketState(i)]
               New(i) == [pr |-> jobs'[i].pr, state |-> TicketState(i)']
    <3>1. /\ n = Len(jobs) + 1 /\ DOMAIN jobs' = DOMAIN jobs \cup {n}
          /\ \A i \in DOMAIN jobs : jobs'[i] = jobs[i]
          /\ jobs'[n].status = "pending" /\ jobs'[n].pr = p
          /\ p \in PRs /\ locks[p] = NoJob
      BY <2>3 DEF JobAdded, JobInserted
    <3>2. ~Queue!Open(p)
      <4> SUFFICES ASSUME NEW k \in DOMAIN Tickets, Tickets[k].pr = p,
                          Tickets[k].state # "closed"
                   PROVE  FALSE
        BY DEF Queue!Open
      <4>1. k \in DOMAIN jobs /\ jobs[k].pr = p
            /\ TicketState(k) # "closed"
        BY DEF Tickets
      <4>2. jobs[k].status \in ActiveStatuses
        BY <4>1, <1>1, JobRow
           DEF TicketState, JobRows, ActiveStatuses, JobStatuses,
               TerminalStatuses
      <4>3. locks[p] = k /\ k # NoJob
        BY <1>1, <4>1, <4>2, JobRow DEF LockIffActive, ActiveJobsAreLocked
      <4>4. QED
        BY <3>1, <4>3
    <3>3. Tickets' = Append(Tickets, row)
      <4>1. TicketSequence'
        BY TypeStep, TicketsAreASequence, PTL
      <4>2. row \in TicketRecords
        BY <3>1 DEF TicketRecords
      <4>3. /\ Tickets \in Seq(TicketRecords) /\ Len(Tickets) = Len(jobs)
            /\ DOMAIN jobs = 1 .. Len(jobs) /\ Len(jobs) \in Nat
        BY <1>1, TicketsAreASequence DEF TicketSequence
      <4>4. /\ Tickets' \in Seq(TicketRecords) /\ Len(Tickets') = Len(jobs')
            /\ DOMAIN jobs' = 1 .. Len(jobs') /\ Len(jobs') \in Nat
        BY <4>1 DEF TicketSequence
      <4>5. Len(jobs') = Len(jobs) + 1
        BY <3>1, <4>3, <4>4
      <4>6. Tickets = [i \in DOMAIN jobs |-> Old(i)]
            /\ Tickets' = [i \in DOMAIN jobs' |-> New(i)]
        BY DEF Tickets
      <4>7. New(n) = row /\ \A i \in DOMAIN jobs : New(i) = Old(i)
        <5>1. \A i \in DOMAIN jobs : TicketState(i)' = TicketState(i)
          BY <2>0, <3>1 DEF TicketState, Held
        <5>2. TicketState(n)' = "queued"
          BY <3>1 DEF TicketState
        <5> QED
          BY <3>1, <5>1, <5>2
      <4> DEFINE old == Tickets
                 new == Tickets'
      <4> HIDE DEF Old, New, row, old, new
      <4>8. new[n] = row /\ \A i \in DOMAIN jobs : new[i] = old[i]
        BY <3>1, <4>6, <4>7 DEF old, new
      <4>9. /\ old \in Seq(TicketRecords) /\ new \in Seq(TicketRecords)
            /\ Len(new) = Len(old) + 1 /\ Len(old) \in Nat
            /\ n = Len(old) + 1 /\ DOMAIN jobs = 1 .. Len(old)
        BY <3>1, <4>3, <4>4, <4>5 DEF old, new
      <4>10. /\ Append(old, row) \in Seq(TicketRecords)
             /\ Len(Append(old, row)) = Len(old) + 1
             /\ \A i \in 1 .. Len(old) + 1 :
                  Append(old, row)[i] = IF i = Len(old) + 1 THEN row ELSE old[i]
        BY <4>2, <4>9
      <4>11. \A i \in 1 .. Len(new) : new[i] = Append(old, row)[i]
        BY <4>8, <4>9, <4>10
      <4>12. new = Append(old, row)
        BY <4>9, <4>10, <4>11, SeqEqual
      <4>13. QED
        BY <4>12 DEF old, new
    <3>4. Recorded' = Recorded
      BY <2>1 DEF Recorded
    <3>5. QED
      BY <3>1, <3>2, <3>3, <3>4 DEF Queue!Accept
  <2>4. QED
    BY <1>2, <2>2, <2>3, EnqueueEffect DEF Queue!QueueNext
<1>3. CASE MarkRunning
  <2>0. PICK j : j = worker.job
    OBVIOUS
  <2>1. /\ JobMoved(j, "running", "none") /\ reviews' = reviews
        /\ jobs[j].status = "pending"
    BY <1>3, <2>0, MarkRunningEffect
  <2>2. /\ \A i : ~Held(i)
        /\ \A i : Held(i)' <=> i = j
    BY <1>1, <1>3, <2>0 DEF MarkRunning, TypeOK, Held
  <2>3. TicketState(j)' = "reviewing"
    BY <2>1, <2>2 DEF TicketState, JobMoved
  <2>4. j \in DOMAIN Tickets
        /\ Tickets' = [Tickets EXCEPT ![j].state = "reviewing"]
    BY <2>1, <2>2, <2>3, TicketMoved
  <2>5. /\ Tickets[j].state = "queued" /\ Recorded' = Recorded
        /\ \A i \in DOMAIN Tickets : Tickets[i].state # "reviewing"
    BY <2>1, <2>2, <2>4 DEF Tickets, TicketState, Recorded
  <2>6. QED
    BY <2>4, <2>5 DEF Queue!QueueNext, Queue!Begin
<1>4. CASE Persist
  <2>0. PICK j : j = worker.job
    OBVIOUS
  <2> DEFINE st == worker.result.status
             det == worker.result.detail
  <2>1. /\ JobMoved(j, st, det) /\ jobs[j].status = "running"
        /\ st \in TerminalStatuses
        /\ \/ reviews' = reviews
           \/ ReviewInserted(reviews, reviews', j, jobs[j].pr)
    BY <1>4, <2>0, PersistEffect
  <2>2. /\ \A i : Held(i) <=> i = j
        /\ \A i : ~Held(i)'
    BY <1>1, <1>4, <2>0 DEF Persist, TypeOK, LoopTop, WorkerAt, Held
  <2> HIDE DEF st, det
  <2>3. TicketState(j)' = "closed"
    BY <2>1 DEF TicketState, JobMoved, TerminalStatuses
  <2>4. j \in DOMAIN Tickets
        /\ Tickets' = [Tickets EXCEPT ![j].state = "closed"]
    BY <2>1, <2>2, <2>3, TicketMoved
  <2>5. Tickets[j].state = "reviewing"
    BY <2>1, <2>2, <2>4 DEF Tickets, TicketState
  <2>6. Recorded' \in {Recorded, Recorded \cup {j}}
    <3>1. CASE reviews' = reviews
      BY <3>1 DEF Recorded
    <3>2. CASE ReviewInserted(reviews, reviews', j, jobs[j].pr)
      <4>1. PICK n : /\ DOMAIN reviews' = DOMAIN reviews \cup {n}
                     /\ n \notin DOMAIN reviews
                     /\ \A i \in DOMAIN reviews : reviews'[i] = reviews[i]
                     /\ reviews'[n].job = j
        BY <3>2 DEF ReviewInserted
      <4>2. Recorded' = Recorded \cup {j}
        BY <4>1 DEF Recorded
      <4>3. QED
        BY <4>2
    <3>3. QED
      BY <2>1, <3>1, <3>2
  <2>7. QED
    BY <2>4, <2>5, <2>6 DEF Queue!QueueNext, Queue!Close
<1>5. CASE Start
  <2>1. reviews' = reviews
    BY <1>5, StartEffect
  <2>2. CASE UNCHANGED <<jobs, locks>>
    <3>1. ~MarkRunning /\ ~Persist
      BY <1>1, <1>5 DEF Start, ProcessAgrees, MarkRunning, Persist
    <3> QED
      BY <1>1, <2>1, <2>2, <3>1, UntouchedTickets
      DEF Recorded, Queue!queueVars, Queue!QueueNext, Queue!Orphan
  <2>3. CASE RunningFailed
    <3>1. /\ DOMAIN jobs' = DOMAIN jobs
          /\ \A i \in DOMAIN jobs :
               /\ jobs'[i].pr = jobs[i].pr
               /\ jobs[i].status # "running" => jobs'[i] = jobs[i]
               /\ jobs[i].status = "running" => jobs'[i].status = "failed"
      BY <2>3 DEF RunningFailed, SameOrigin
    <3>0. \A i : ~Held(i)
      BY <1>1, <1>5 DEF Start, ProcessAgrees, Held
    <3> DEFINE Old(i) == [pr |-> jobs[i].pr, state |-> TicketState(i)]
               New(i) == [pr |-> jobs'[i].pr, state |-> TicketState(i)']
               Given(i) == IF Old(i).state = "orphaned"
                             THEN [Old(i) EXCEPT !.state = "closed"]
                             ELSE Old(i)
    <3>2. ASSUME NEW i \in DOMAIN jobs
          PROVE  New(i) = Given(i)
      <4>1. CASE jobs[i].status = "running"
        <5>1. TicketState(i) = "orphaned" /\ TicketState(i)' = "closed"
          BY <3>0, <3>1, <4>1 DEF TicketState
        <5> QED
          BY <3>1, <5>1
      <4>2. CASE jobs[i].status # "running"
        <5>1. /\ TicketState(i) # "orphaned"
              /\ TicketState(i)' = TicketState(i)
          BY <3>1, <4>2 DEF TicketState
        <5>2. QED
          BY <3>1, <4>2, <5>1
      <4>3. QED
        BY <4>1, <4>2
    <3>3. Tickets = [i \in DOMAIN jobs |-> Old(i)]
          /\ Tickets' = [i \in DOMAIN jobs |-> New(i)]
      BY <3>1 DEF Tickets
    <3>4. [k \in DOMAIN Tickets |->
             IF Tickets[k].state = "orphaned"
               THEN [Tickets[k] EXCEPT !.state = "closed"]
               ELSE Tickets[k]]
          = [i \in DOMAIN jobs |-> Given(i)]
      BY <3>3
    <3> HIDE DEF Old, New, Given
    <3>5. Tickets' = [i \in DOMAIN jobs |-> Given(i)]
      BY <3>2, <3>3
    <3>6. Queue!Abandon
      BY <2>1, <3>4, <3>5 DEF Queue!Abandon, Queue!MoveAll, Recorded
    <3>7. QED
      BY <3>6 DEF Queue!QueueNext
  <2>4. QED
    BY <1>5, <2>2, <2>3, StartEffect
<1>6. CASE UNCHANGED <<jobs, locks, reviews>> /\ ~MarkRunning /\ ~Persist
  BY <1>1, <1>6, UntouchedTickets
  DEF Recorded, Queue!queueVars, Queue!QueueNext, Queue!Orphan
<1>7. QED
  BY <1>2, <1>3, <1>4, <1>5, <1>6, OtherSteps DEF Queue!queueVars

\* The service implements the queue its users see.
THEOREM Refinement == Spec => ImplementsReviewQueue
<1>1. Init => Queue!QueueInit
  <2> SUFFICES ASSUME Init PROVE Queue!QueueInit
    OBVIOUS
  <2>1. jobs = <<>> /\ reviews = <<>> /\ DOMAIN jobs = {} /\ DOMAIN reviews = {}
    BY DEF Init
  <2>2. Recorded = {}
    BY <2>1 DEF Recorded
  <2>3. Tickets = <<>>
    BY <2>1 DEF Tickets
  <2>4. QED
    BY <2>2, <2>3 DEF Queue!QueueInit
<1>2. IInv /\ [Next]_vars => [Queue!QueueNext]_(Queue!queueVars)
  BY RefinementStep
<1>3. QED
  BY <1>1, <1>2, InductiveInvariant, PTL
     DEF Spec, ImplementsReviewQueue, Queue!QueueSpec

-----------------------------------------------------------------------------
(* The pipeline in its place.                                              *)

\* A run of the pipeline starts within its invariant, and so does the rest
\* between two runs.
LEMMA RunAfresh ==
  ASSUME NEW isDraft \in BOOLEAN, Afresh(isDraft)
  PROVE  ReviewerInv'
<1>1. ReviewerInit'
  BY DEF Afresh, ReviewerInit
<1>2. ReviewerInit' => ReviewerInv'
  BY ReviewerInitInv, PTL
<1> QED
  BY <1>1, <1>2

\* Each step of the service with the pipeline in it is one of ReviewService,
\* or none: awaits before the post are nothing to the service, the first
\* review that reaches GitHub is PostReview, a later one is nothing again,
\* and a run ends within its contract.
LEMMA PipelineStepRefines ==
  ASSUME ReviewingInv, [ReviewingNext]_reviewingVars
  PROVE  [Next]_vars
<1>1. RunIsTold /\ ReturnsWithinContract
  BY DEF ReviewingInv, ReviewerInv
<1>2. CASE RunStep
  <2>1. CASE worker.job \in ghReviews \/ posted' = posted
    <3>1. ghReviews' = ghReviews
      BY <1>2, <2>1 DEF RunStep
    <3> QED
      BY <1>2, <3>1 DEF RunStep, vars
  <2>2. CASE worker.job \notin ghReviews /\ posted' # posted
    BY <1>2, <2>2 DEF RunStep, PostReview, WorkerStep, Next
  <2> QED
    BY <2>1, <2>2
<1>3. CASE RunEnds
  <2>1. CASE pc = "returned"
    <3>1. Permitted(result, worker.job \in ghReviews)
      BY <1>1, <1>3, <2>1 DEF RunEnds, RunIsTold, ReturnsWithinContract
    <3>2. result \in RunResults
      BY <3>1 DEF Permitted
    <3>3. ReviewReturns(result)
      BY <1>3, <3>1 DEF RunEnds, ReviewReturns
    <3> QED
      BY <3>2, <3>3 DEF WorkerStep, Next
  <2>2. CASE pc \in {"raised", "timed_out"}
    <3>1. result \in {TimeoutResult, RaisedResult}
      BY <1>1, <2>2 DEF RunIsTold
    <3>2. ReviewFails(result)
      BY <1>3 DEF RunEnds, ReviewFails
    <3> QED
      BY <3>1, <3>2 DEF WorkerStep, Next
  <2> QED
    BY <1>3, <2>1, <2>2 DEF RunEnds, Ended
<1>4. CASE AuthorStep \/ UNCHANGED reviewingVars
  BY <1>4 DEF AuthorStep, reviewingVars
<1>5. CASE RunBegins \/ RunDies
  BY <1>5 DEF RunBegins, RunDies, WorkerStep, Next
<1>6. CASE ReviewingWorkerStep /\ ~RunBegins /\ ~RunStep /\ ~RunEnds
  BY <1>6 DEF ReviewingWorkerStep, WorkerStep, Next
<1>7. CASE Elsewhere
  BY <1>7 DEF Elsewhere, Next
<1> QED
  BY <1>2, <1>3, <1>4, <1>5, <1>6, <1>7 DEF ReviewingNext, ReviewingWorkerStep

\* What a run leaves alone: the worker goes on with its job, and only the
\* post makes a difference on GitHub.
LEMMA ElsewhereNothingHappens ==
  ASSUME TypeOK, ReviewingNext, ~RunBegins, ~RunStep, ~RunEnds, ~RunDies
  PROVE  /\ ghReviews' = ghReviews
         /\ worker' = worker \/ worker'.pc # "review"
         /\ UNCHANGED reviewVars \/ ToggleDraft
<1>1. CASE AuthorStep
  BY <1>1 DEF AuthorStep, vars
<1>2. CASE Elsewhere
  <2>1. /\ ghReviews' = ghReviews
        /\ worker' = worker \/ worker' \in {LoopTop, NoWorker}
    BY <1>2 DEF Elsewhere, RejectWebhook, ProcessWebhook, TaskStep, GetPr,
                LoadConfig, ReactUnauthorized, ReactEyes, FetchLock, Enqueue,
                HandlerStorageError, Start, Bind, BindFails, StopsDead,
                CooldownExpires
  <2> QED
    BY <1>2, <2>1 DEF Elsewhere, LoopTop, NoWorker, WorkerAt
<1>3. CASE ReviewingWorkerStep
  <2>1. \/ Loop \/ SelectPending \/ Persist \/ ClaimFailureSlot
        \/ PostFailureComment \/ WorkerStorageError
    BY <1>3 DEF ReviewingWorkerStep
  <2>2. ghReviews' = ghReviews
    BY <2>1 DEF Loop, SelectPending, Persist, ClaimFailureSlot,
                PostFailureComment, WorkerStorageError
  <2>3. worker'.pc # "review"
    BY <2>1 DEF TypeOK, Loop, SelectPending, Persist, ClaimFailureSlot,
                PostFailureComment, WorkerStorageError, LoopTop, NoWorker,
                WorkerAt
  <2> QED
    BY <1>3, <2>2, <2>3 DEF ReviewingWorkerStep
<1> QED
  BY <1>1, <1>2, <1>3 DEF ReviewingNext

\* Every step keeps the invariant of the two together.
LEMMA ReviewingInvStep ==
  ASSUME ReviewingInv, [ReviewingNext]_reviewingVars
  PROVE  ReviewingInv'
<1>1. /\ IInv /\ ReviewerInv /\ RunIsTold /\ OnlyClaimedJobsPosted
      /\ TypeOK
  BY DEF ReviewingInv, IInv
<1>2. [Next]_vars
  BY PipelineStepRefines
<1>3. IInv'
  BY <1>1, <1>2, InvariantStep
<1>4. ReviewerInv'
  <2>1. CASE RunBegins \/ RunEnds \/ RunDies
    BY <2>1, RunAfresh DEF RunBegins, RunEnds, RunDies
  <2>2. CASE RunStep
    BY <1>1, <2>2, PrepareInv, ChatInv, PostInv, TimeoutInv
    DEF RunStep, PipelineStep
  <2>3. CASE UNCHANGED reviewVars \/ ToggleDraft
    BY <1>1, <2>3, IdleInv
  <2> QED
    BY <1>1, <2>1, <2>2, <2>3, ElsewhereNothingHappens DEF reviewingVars
<1>5. \/ ghReviews' = ghReviews
      \/ worker.pc = "review" /\ ghReviews' = ghReviews \cup {worker.job}
  <2>1. CASE RunStep
    BY <2>1 DEF RunStep
  <2>2. CASE RunBegins \/ RunEnds \/ RunDies
    BY <2>2 DEF RunBegins, MarkRunning, RunEnds, RunDies, Crash
  <2>3. CASE UNCHANGED reviewingVars
    BY <2>3 DEF reviewingVars, vars
  <2> QED
    BY <1>1, <2>1, <2>2, <2>3, ElsewhereNothingHappens
<1>6. OnlyClaimedJobsPosted'
  <2> SUFFICES ASSUME NEW j \in ghReviews'
               PROVE  j \in DOMAIN jobs' /\ jobs'[j].status # "pending"
    BY DEF OnlyClaimedJobsPosted
  <2>1. j \in DOMAIN jobs /\ jobs[j].status # "pending"
    <3>1. CASE j \in ghReviews
      BY <1>1, <3>1 DEF OnlyClaimedJobsPosted
    <3>2. CASE worker.pc = "review" /\ j = worker.job
      BY <1>1, <3>2 DEF IInv, WorkerOwnsItsJob, StatusWhile
    <3> QED
      BY <1>5, <3>1, <3>2
  <2> QED
    BY <1>1, <1>2, <2>1, RowsAdvance DEF RowAdvances, Advances, TerminalStatuses
<1>7. RunIsTold'
  <2>1. CASE RunBegins
    <3>1. worker'.job = worker.job /\ ghReviews' = ghReviews
      BY <1>1, <2>1 DEF RunBegins, MarkRunning, IInv, TypeOK
    <3>2. worker.job \notin ghReviews
      BY <1>1, <2>1
      DEF RunBegins, MarkRunning, IInv, WorkerOwnsItsJob, StatusWhile,
          OnlyClaimedJobsPosted
    <3> QED
      BY <2>1, <3>1, <3>2 DEF RunBegins, Afresh, RunIsTold
  <2>2. CASE RunStep
    <3>1. worker' = worker /\ worker.pc = "review"
      BY <2>2 DEF RunStep
    <3>2. posted \in Nat /\ posted' \in Nat /\ posted <= posted'
      <4>1. posted \in Nat
        BY <1>1 DEF ReviewerInv, ReviewerTypeOK
      <4>2. posted' = posted \/ Created \/ CreatedOrNot \/ CreatedBefore
        BY <2>2
        DEF RunStep, PipelineStep, ReadPr, LoadRepoConfig, FetchPr, FetchFiles,
            FetchComments, ChatAttempt, Post, PostAccepted, PostTransient,
            PostRejected, PostBreaks, TimesOut
      <4> QED
        BY <4>1, <4>2, AttemptMakesFew
    <3>3. worker.job \in ghReviews' <=> posted' > 0
      <4>1. CASE posted' = posted
        BY <1>1, <2>2, <3>1, <4>1 DEF RunStep, RunIsTold
      <4>2. CASE posted' # posted
        BY <2>2, <3>2, <4>2 DEF RunStep
      <4> QED
        BY <4>1, <4>2
    <3>4. /\ pc' = "raised" => result' = RaisedResult
          /\ pc' = "timed_out" => result' = TimeoutResult
      <4>1. pc' \notin {"raised", "timed_out"} \/ Raise \/ TimesOut
        BY <2>2
        DEF RunStep, PipelineStep, ReadPr, LoadRepoConfig, FetchPr, FetchFiles,
            FetchComments, ChatAttempt, Post, PostAccepted, PostTransient,
            PostRejected, PostBreaks, Return, AfterChunks
      <4> QED
        BY <4>1 DEF Raise, TimesOut
    <3> QED
      BY <3>1, <3>3, <3>4 DEF RunIsTold
  <2>3. CASE RunEnds
    <3>1. worker'.pc = "persist"
      BY <1>1, <2>3 DEF RunEnds, IInv, TypeOK
    <3> QED
      BY <2>3, <3>1 DEF RunEnds, Afresh, RunIsTold
  <2>4. CASE RunDies
    BY <2>4 DEF RunDies, Crash, NoWorker, WorkerAt, Afresh, RunIsTold
  <2>5. CASE UNCHANGED reviewingVars
    BY <1>1, <2>5 DEF reviewingVars, vars, reviewVars, RunIsTold
  <2>6. CASE ReviewingNext /\ ~RunBegins /\ ~RunStep /\ ~RunEnds /\ ~RunDies
    <3>1. /\ ghReviews' = ghReviews
          /\ worker' = worker \/ worker'.pc # "review"
          /\ UNCHANGED <<posted, pc, result>>
      BY <1>1, <2>6, ElsewhereNothingHappens DEF reviewVars, ToggleDraft
    <3> QED
      BY <1>1, <3>1 DEF RunIsTold
  <2> QED
    BY <2>1, <2>2, <2>3, <2>4, <2>5, <2>6
<1> QED
  BY <1>3, <1>4, <1>6, <1>7 DEF ReviewingInv

\* The invariant of the two together holds in every reachable state.
THEOREM ReviewingInvariant == ReviewingSpec => []ReviewingInv
<1>1. ReviewingInit => ReviewingInv
  <2> SUFFICES ASSUME ReviewingInit PROVE ReviewingInv
    OBVIOUS
  <2>1. Init /\ ReviewerInit
    BY DEF ReviewingInit
  <2>2. RunIsTold /\ OnlyClaimedJobsPosted
    BY <2>1 DEF Init, ReviewerInit, NoWorker, WorkerAt, RunIsTold,
                OnlyClaimedJobsPosted
  <2> QED
    BY <2>1, <2>2, InitIInv, ReviewerInitInv DEF ReviewingInv
<1>2. ReviewingInv /\ [ReviewingNext]_reviewingVars => ReviewingInv'
  BY ReviewingInvStep
<1> QED
  BY <1>1, <1>2, PTL DEF ReviewingSpec

\* With the pipeline as it is in the place of its contract, the service does
\* what ReviewService says: for any number of chunks and attempts, whatever
\* the crashes and the requests.
THEOREM PipelineInPlace == ReviewingSpec => ImplementsReviewService
<1>1. ReviewingInit => Init
  BY DEF ReviewingInit
<1>2. ReviewingInv /\ [ReviewingNext]_reviewingVars => [Next]_vars
  BY PipelineStepRefines
<1> QED
  BY <1>1, <1>2, ReviewingInvariant, PTL
  DEF ReviewingSpec, Spec, ImplementsReviewService

\* ... and so, to its users, it is still a queue of tickets.
THEOREM StillAQueue == ReviewingSpec => ImplementsReviewQueue
BY PipelineInPlace, Refinement, PTL DEF ImplementsReviewService

=============================================================================
