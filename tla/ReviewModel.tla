----------------------------- MODULE ReviewModel -----------------------------
(***************************************************************************)
(* The vocabulary the other modules share: the job statuses and status     *)
(* details of models/storage.py, the shape of a ReviewResult, and the      *)
(* contract of Reviewer.run, i.e. the set of results it may return.  The   *)
(* worker (ReviewService) is modelled against this contract; the pipeline  *)
(* itself (Reviewer) is shown to respect it.                               *)
(***************************************************************************)

\* JobStatus and TERMINAL_JOB_STATUSES.
JobStatuses == {"pending", "running", "done", "failed"}
TerminalStatuses == {"done", "failed"}
ActiveStatuses == JobStatuses \ TerminalStatuses

\* JobStatusDetail, plus "none" for the SQL NULL / Python None.
StatusDetails == {"none", "interrupted_by_restart", "timeout",
                  "no_reviewable_files", "drafted_after_event", "pr_closed",
                  "parse_failed", "llm_failure", "github_failure"}

TriggerKinds == {"auto", "comment"}

\* A ReviewResult: has_review stands for `review_id is not None` and notify
\* for `failure_message is not None`.
ReviewResults == [status : TerminalStatuses, detail : StatusDetails,
                  has_review : BOOLEAN, notify : BOOLEAN]

Result(s, d, r, n) ==
  [status |-> s, detail |-> d, has_review |-> r, notify |-> n]

\* Before there is one.
NoResult == Result("done", "none", FALSE, FALSE)

\* The details of a job that ended with its review on the pull request.
ReviewedDetails == {"none", "parse_failed"}

\* The review was posted and GitHub answered with its id.
ReviewedResults == {Result("done", d, TRUE, FALSE) : d \in ReviewedDetails}

\* prepare() returned early: create_review was never called.
UnpostedResults ==
  {Result("done", "drafted_after_event", FALSE, FALSE),
   Result("done", "no_reviewable_files", FALSE, FALSE),
   Result("failed", "llm_failure", FALSE, TRUE)}

\* create_review was called and its last attempt ended in an error; an
\* earlier attempt may have reached GitHub all the same.
PostErrorResults ==
  {Result("done", "pr_closed", FALSE, FALSE),
   Result("failed", "github_failure", FALSE, FALSE)}

\* Everything Reviewer.run returns.
RunResults == ReviewedResults \cup UnpostedResults \cup PostErrorResults

\* Which results run() may return, given whether the review is on GitHub.
Permitted(r, posted) ==
  /\ r \in RunResults
  /\ r \in ReviewedResults => posted
  /\ r \in UnpostedResults => ~posted

\* What Worker._process records when run() times out or raises.
TimeoutResult == Result("failed", "timeout", FALSE, TRUE)
RaisedResult == Result("failed", "llm_failure", FALSE, TRUE)

\* Everything the worker may have to persist.
WorkerResults == RunResults \cup {TimeoutResult, RaisedResult}

=============================================================================
