--------------------------- MODULE ReviewingService ---------------------------
(***************************************************************************)
(* The service with the review pipeline itself (Reviewer) in the place     *)
(* where ReviewService has its contract: Worker._process calls             *)
(* Reviewer.run, which awaits GitHub and the model while requests are      *)
(* handled and the process may die, and persists what comes of it.  What   *)
(* the pipeline puts on the pull request is what the reviews_posted table  *)
(* is to be true of.                                                       *)
(***************************************************************************)
EXTENDS ReviewService, Reviewer

reviewingVars == <<vars, reviewVars>>

\* Before the first call of run(), its state is that at the start of one.
ReviewingInit == Init /\ ReviewerInit /\ ~draft

\* Where a call of run() starts, on a pull request that is a draft or not;
\* with FALSE, what is left when no call is under way.
Afresh(isDraft) ==
  /\ draft' = isDraft /\ posted' = 0 /\ pc' = "get_pr" /\ chunks' = 0
  /\ answered' = 0 /\ attempt' = 0 /\ calls' = 0 /\ unparsed' = FALSE
  /\ result' = NoResult

-----------------------------------------------------------------------------
\* _claim_one commits, and _process calls run().
RunBegins == MarkRunning /\ \E isDraft \in BOOLEAN : Afresh(isDraft)

\* One await of run(), or its cancellation by wait_for.
RunStep ==
  /\ worker.pc = "review"
  /\ PipelineStep \/ TimesOut
  /\ ghReviews' = IF posted' = posted THEN ghReviews
                                      ELSE ghReviews \cup {worker.job}
  /\ UNCHANGED <<store, phase, tasks, worker, notified, github, exits>>

\* The author toggles the draft state meanwhile.
AuthorStep == worker.pc = "review" /\ ToggleDraft /\ UNCHANGED vars

\* run() returned or raised, or wait_for gave it up: _process goes on with
\* the result.
RunEnds ==
  /\ worker.pc = "review" /\ pc \in Ended
  /\ worker' = [worker EXCEPT !.pc = "persist", !.result = result]
  /\ Afresh(FALSE)
  /\ UNCHANGED <<store, phase, tasks, ghReviews, notified, github, exits>>

\* The process dies, and a run with it.
RunDies == Crash /\ Afresh(FALSE)

\* The rest of the service, as in ReviewService.
ReviewingWorkerStep ==
  \/ RunBegins \/ RunStep \/ RunEnds
  \/ /\ \/ Loop \/ SelectPending \/ Persist \/ ClaimFailureSlot
        \/ PostFailureComment \/ WorkerStorageError
     /\ UNCHANGED reviewVars
Elsewhere ==
  /\ \/ \E d \in Deliveries : RejectWebhook(d)
     \/ \E t \in Tasks, d \in Deliveries : ProcessWebhook(t, d)
     \/ \E t \in Tasks : TaskStep(t)
     \/ Start \/ Bind \/ BindFails \/ StopsDead
     \/ \E p \in PRs : CooldownExpires(p)
  /\ UNCHANGED reviewVars

ReviewingNext ==
  ReviewingWorkerStep \/ Elsewhere \/ RunDies \/ AuthorStep

ReviewingSpec == ReviewingInit /\ [][ReviewingNext]_reviewingVars

\* The fairness of ReviewService, whose assumption that a review ends is now
\* one about each call the pipeline awaits.
ReviewingFairSpec ==
  /\ ReviewingSpec
  /\ \A t \in Tasks : WF_reviewingVars(TaskStep(t) /\ UNCHANGED reviewVars)
  /\ WF_reviewingVars(ReviewingWorkerStep)
  /\ WF_reviewingVars(Start /\ UNCHANGED reviewVars)
  /\ WF_reviewingVars(Bind /\ UNCHANGED reviewVars)
  /\ WF_reviewingVars(StopsDead /\ UNCHANGED reviewVars)

-----------------------------------------------------------------------------
(* Correctness.                                                            *)

\* With the pipeline as it is, the service does what ReviewService says, and
\* so what that module promises.
ImplementsReviewService == Spec

\* What the proof of it needs: while the pipeline runs, the job's review is
\* on GitHub just if the pipeline put it there, and what comes of an
\* exception or a timeout is known; a job on GitHub has been claimed, so the
\* next job begins with nothing posted.
RunIsTold ==
  /\ worker.pc = "review" => (worker.job \in ghReviews <=> posted > 0)
  /\ pc = "raised" => result = RaisedResult
  /\ pc = "timed_out" => result = TimeoutResult
OnlyClaimedJobsPosted ==
  \A j \in ghReviews : j \in DOMAIN jobs /\ jobs[j].status # "pending"
ReviewingInv ==
  IInv /\ ReviewerInv /\ RunIsTold /\ OnlyClaimedJobsPosted

=============================================================================
