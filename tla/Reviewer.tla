------------------------------ MODULE Reviewer -------------------------------
(***************************************************************************)
(* One call of Reviewer.run (pipeline/reviewer.py) under the worker's      *)
(* wait_for: read the pull request, its configuration and its files, send  *)
(* the chunks to the model, let it merge them, post the review.  The pull  *)
(* request changes on GitHub meanwhile, every call may fail, a failed call *)
(* may have taken effect, and the timeout may strike at any await.  What   *)
(* the files and the prompts contain is left out.                          *)
(*                                                                         *)
(* ReviewService takes the outcome of this module for granted, as the      *)
(* contract `Permitted`; ReturnsWithinContract shows it.                   *)
(***************************************************************************)
EXTENDS ReviewModel, Naturals

CONSTANTS
  MaxChunks,    \* pipeline.max_chunks
  MaxAttempts,  \* attempts of llm.chat and of _post_with_retry (3 in both)
  ReviewsPerAttempt   \* reviews one create_review may put up: githubkit sends
                      \* a request again after a 5xx, and _with_auth_retry
                      \* calls it again after a 401

ASSUME LimitsAssumption ==
  /\ MaxChunks \in Nat \ {0}
  /\ MaxAttempts \in Nat \ {0}
  /\ ReviewsPerAttempt \in Nat \ {0}

VARIABLES
  draft,     \* GitHub: is the pull request a draft?
  posted,    \* GitHub: how many reviews this run has put on it
  pc,        \* where run() awaits
  chunks,    \* how many chunks pack_chunks made
  answered,  \* how many of them the model has answered
  attempt,   \* failed attempts of the current LLM or post call
  calls,     \* LLM requests sent in all
  unparsed,  \* final_review.parse_failed
  result     \* what run() returned, or the worker made of its exception

progress == <<answered, attempt, calls, unparsed>>
reviewVars == <<draft, posted, pc, chunks, progress, result>>

PCs == {"get_pr", "config", "fetch_pr", "fetch_files", "fetch_comments",
        "chunk", "synthesize", "post", "returned", "raised", "timed_out"}
Ended == {"returned", "raised", "timed_out"}

ReviewerTypeOK ==
  /\ draft \in BOOLEAN
  /\ posted \in Nat
  /\ pc \in PCs
  /\ chunks \in 0 .. MaxChunks
  /\ answered \in 0 .. MaxChunks
  /\ attempt \in 0 .. MaxAttempts
  /\ calls \in Nat
  /\ unparsed \in BOOLEAN
  /\ result \in ReviewResults

ReviewerInit ==
  /\ draft \in BOOLEAN
  /\ posted = 0
  /\ pc = "get_pr"
  /\ chunks = 0
  /\ answered = 0 /\ attempt = 0 /\ calls = 0
  /\ unparsed = FALSE
  /\ result = NoResult

-----------------------------------------------------------------------------
\* The author converts the pull request to a draft or back.
ToggleDraft ==
  /\ pc \notin Ended
  /\ draft' = ~draft
  /\ UNCHANGED <<posted, pc, chunks, progress, result>>

(* The pipeline.                                                           *)

Return(r) == pc' = "returned" /\ result' = r

\* An exception nobody in the pipeline catches reaches Worker._process.
Raise == pc' = "raised" /\ result' = RaisedResult

\* Mutant of AbortDraft: prepare is called with skip_draft_check.
Mutant_SkipDraftCheck == FALSE

\* pr_now.draft
AbortDraft == draft

\* prepare: get_pr, and the early exit for a draft.
ReadPr ==
  /\ pc = "get_pr"
  /\ \/ ~AbortDraft /\ pc' = "config" /\ UNCHANGED result
     \/ AbortDraft /\ Return(Result("done", "drafted_after_event", FALSE, FALSE))
     \/ Raise
  /\ UNCHANGED <<draft, posted, chunks, progress>>

\* Mutant of LoadRepoConfig: a failure starts the run over, without a limit.
Mutant_ConfigStartsOver ==
  /\ pc = "config"
  /\ pc' \in {"fetch_pr", "get_pr"}
  /\ UNCHANGED <<draft, posted, chunks, progress, result>>

\* _load_repo_config: get_repo and the loader's fetches.
LoadRepoConfig ==
  /\ pc = "config"
  /\ \/ pc' = "fetch_pr" /\ UNCHANGED result
     \/ Raise
  /\ UNCHANGED <<draft, posted, chunks, progress>>

\* fetch_pr_content: get_pr again.
FetchPr ==
  /\ pc = "fetch_pr"
  /\ \/ pc' = "fetch_files" /\ UNCHANGED result
     \/ Raise
  /\ UNCHANGED <<draft, posted, chunks, progress>>

\* fetch_pr_content: get_pr_files; what _filter_files and pack_chunks will
\* make of them is decided here.
FetchFiles ==
  /\ pc = "fetch_files"
  /\ \/ /\ chunks' \in 0 .. MaxChunks
        /\ pc' = "fetch_comments"
        /\ UNCHANGED result
     \/ Raise /\ UNCHANGED chunks
  /\ UNCHANGED <<draft, posted, progress>>

\* fetch_pr_content: get_pr_comments, if the conversation is wanted; then
\* the early exits of prepare for nothing to review.
FetchComments ==
  /\ pc = "fetch_comments"
  /\ \/ /\ chunks = 0
        /\ Return(Result("done", "no_reviewable_files", FALSE, FALSE))
     \/ chunks > 0 /\ pc' = "chunk" /\ UNCHANGED result
     \/ Raise
  /\ UNCHANGED <<draft, posted, chunks, progress>>

\* _maybe_synthesize returns the only chunk's review as it is.
AfterChunks(n) == IF n < chunks THEN "chunk"
                  ELSE IF chunks = 1 THEN "post" ELSE "synthesize"

\* Mutant of MayRetry: one attempt too many.
Mutant_OneMoreAttempt == attempt < MaxAttempts

\* stop_after_attempt(3), in both retry loops.
MayRetry == attempt + 1 < MaxAttempts

\* One attempt of llm.chat, for the next chunk or for the synthesis.  A
\* transient failure is retried, the last one and any other LLMError end the
\* run with an early result.  A reply that _parse_response cannot take apart is
\* no LLMError.
ChatAttempt ==
  /\ pc \in {"chunk", "synthesize"}
  /\ calls' = calls + 1
  /\ \/ /\ MayRetry
        /\ attempt' = attempt + 1
        /\ UNCHANGED <<pc, answered, unparsed, result>>
     \/ /\ Return(Result("failed", "llm_failure", FALSE, TRUE))
        /\ UNCHANGED <<answered, attempt, unparsed>>
     \/ /\ Raise
        /\ UNCHANGED <<answered, attempt, unparsed>>
     \/ /\ pc = "chunk"
        /\ answered' = answered + 1
        /\ pc' = AfterChunks(answered')
        /\ attempt' = 0
        /\ unparsed' \in BOOLEAN
        /\ UNCHANGED result
     \/ /\ pc = "synthesize"
        /\ pc' = "post"
        /\ attempt' = 0
        /\ unparsed' \in BOOLEAN
        /\ UNCHANGED <<answered, result>>
  /\ UNCHANGED <<draft, posted, chunks>>

\* An attempt of _post_with_retry is one create_review of the client, and that
\* one or several requests.  GitHub creates a review for each of them or not,
\* and what the client hears of it is another matter.
Created == posted' \in posted + 1 .. posted + ReviewsPerAttempt
CreatedOrNot == posted' \in posted .. posted + ReviewsPerAttempt
\* The last request was refused, those before it may not have been.
CreatedBefore == posted' \in posted .. posted + (ReviewsPerAttempt - 1)

PostAccepted ==
  /\ pc = "post"
  /\ Created
  /\ Return(Result("done", IF unparsed THEN "parse_failed" ELSE "none",
                   TRUE, FALSE))
  /\ UNCHANGED <<draft, chunks, progress>>

\* Mutant of PostTransient: run() hands the last error to _failure_from.
Mutant_PostErrorAsLLMFailure ==
  /\ pc = "post"
  /\ CreatedOrNot
  /\ \/ /\ MayRetry
        /\ attempt' = attempt + 1
        /\ UNCHANGED <<pc, result>>
     \/ /\ ~MayRetry
        /\ Return(Result("failed", "llm_failure", FALSE, TRUE))
        /\ UNCHANGED attempt
  /\ UNCHANGED <<draft, chunks, answered, calls, unparsed>>

\* Mutant of PostTransient: a pull request that has become a draft gets no
\* other attempt, as if prepare had seen it.
Mutant_DraftEndsRetries ==
  /\ pc = "post"
  /\ CreatedOrNot
  /\ \/ /\ MayRetry /\ ~draft
        /\ attempt' = attempt + 1
        /\ UNCHANGED <<pc, result>>
     \/ /\ MayRetry /\ draft
        /\ Return(Result("done", "drafted_after_event", FALSE, FALSE))
        /\ UNCHANGED attempt
     \/ /\ ~MayRetry
        /\ Return(Result("failed", "github_failure", FALSE, FALSE))
        /\ UNCHANGED attempt
  /\ UNCHANGED <<draft, chunks, answered, calls, unparsed>>

\* GitHubTransientError: a 5xx, or a rate limit, after githubkit's own retries.
PostTransient ==
  /\ pc = "post"
  /\ CreatedOrNot
  /\ \/ /\ MayRetry
        /\ attempt' = attempt + 1
        /\ UNCHANGED <<pc, result>>
     \/ /\ ~MayRetry
        /\ Return(Result("failed", "github_failure", FALSE, FALSE))
        /\ UNCHANGED attempt
  /\ UNCHANGED <<draft, chunks, answered, calls, unparsed>>

\* GitHubPermanentError (a 4xx), taken for a closed pull request, and the
\* other GitHub errors (404, a second 401).
PostRejected ==
  /\ pc = "post"
  /\ CreatedBefore
  /\ \/ Return(Result("done", "pr_closed", FALSE, FALSE))
     \/ Return(Result("failed", "github_failure", FALSE, FALSE))
  /\ UNCHANGED <<draft, chunks, progress>>

\* The connection breaks: no GitHubError, so neither retried nor caught.
PostBreaks ==
  /\ pc = "post"
  /\ CreatedOrNot
  /\ Raise
  /\ UNCHANGED <<draft, chunks, progress>>

\* wait_for cancels run(); a post under way may still take effect.
TimesOut ==
  /\ pc \notin Ended
  /\ IF pc = "post" THEN CreatedOrNot ELSE UNCHANGED posted
  /\ pc' = "timed_out"
  /\ result' = TimeoutResult
  /\ UNCHANGED <<draft, chunks, progress>>

Post == PostAccepted \/ PostTransient \/ PostRejected \/ PostBreaks

PipelineStep ==
  \/ ReadPr \/ LoadRepoConfig \/ FetchPr \/ FetchFiles \/ FetchComments
  \/ ChatAttempt \/ Post

Finished == pc \in Ended /\ UNCHANGED reviewVars

ReviewerNext == ToggleDraft \/ PipelineStep \/ TimesOut \/ Finished

ReviewerSpec == ReviewerInit /\ [][ReviewerNext]_reviewVars

\* Every call the pipeline awaits returns or raises; the timeout is not
\* needed for that, and gets no fairness.
ReviewerFairSpec == ReviewerSpec /\ WF_reviewVars(PipelineStep)

-----------------------------------------------------------------------------
(* Correctness.                                                            *)

\* What run() returns is what the worker may persist: a review id only if
\* the review is on the pull request, and none of the early exits after one
\* was put there.
ReturnsWithinContract ==
  pc = "returned" => Permitted(result, posted > 0)

\* The reviews n attempts may put up.
PostBudget(n) == ReviewsPerAttempt * n

\* _post_with_retry cannot know whether a failed attempt created the review,
\* nor how many, so a run may put several on the pull request; never more
\* than its attempts can, whatever the timeout and the failures.
PostsBounded == posted <= PostBudget(MaxAttempts)

\* The requests n answers may cost.
Budget(n) == MaxAttempts * n

\* One run sends at most MaxAttempts requests for each chunk, and as many for
\* the synthesis, which only several chunks need.
CallsBounded == calls <= Budget(IF chunks > 1 THEN chunks + 1 ELSE chunks)

\* The pipeline ends by itself, without the worker's timeout: the retries are
\* bounded and every chunk is answered once.
Terminates == <>(pc \in Ended)

\* A pull request that is a draft all along gets no review.
DraftsAreNotReviewed == []draft => [](posted = 0)

\* prepare: "Early exits (draft, nothing reviewable, LLM/GitHub failure)
\* surface as `RenderedReview.early_result`".  Only the post may raise.
FailuresSurface == [][pc' = "raised" => pc = "post"]_reviewVars

\* What makes ReturnsWithinContract, PostsBounded and CallsBounded inductive.
ReviewerInv ==
  /\ ReviewerTypeOK
  /\ pc \notin {"post"} \cup Ended => posted = 0
  /\ pc = "post" => posted <= PostBudget(attempt)
  /\ pc \notin Ended => attempt < MaxAttempts
  /\ pc \in {"get_pr", "config", "fetch_pr", "fetch_files"} => chunks = 0
  /\ pc \in {"get_pr", "config", "fetch_pr", "fetch_files", "fetch_comments"} =>
       calls = 0 /\ answered = 0 /\ attempt = 0
  /\ pc = "chunk" =>
       answered < chunks /\ calls <= Budget(answered) + attempt
  /\ pc = "synthesize" =>
       answered = chunks /\ chunks > 1
       /\ calls <= Budget(chunks) + attempt
  /\ ReturnsWithinContract
  /\ PostsBounded
  /\ CallsBounded

=============================================================================
