---------------------------- MODULE ReviewerProofs ----------------------------
(***************************************************************************)
(* Proofs about one Reviewer.run: for any number of chunks and attempts,   *)
(* what it returns is within the contract ReviewService relies on, and it  *)
(* puts a bounded number of reviews and of LLM requests on the wire.       *)
(*                                                                         *)
(* The inductive invariant is ReviewerInv.  It says what each place in the *)
(* pipeline has already done: before the post nothing is on GitHub, in     *)
(* the post there are at most as many reviews as the failed attempts may   *)
(* have made, and while the model is asked the requests sent are those of  *)
(* the chunks answered so far plus the current attempts.                   *)
(*                                                                         *)
(* AwaitsLeft is a measure: a run that goes on has ever fewer awaits left. *)
(***************************************************************************)
EXTENDS Reviewer, TLAPS

\* The budget of LLM requests starts at nothing and grows by MaxAttempts with
\* every answer.
LEMMA BudgetSteps ==
  /\ Budget(0) = 0
  /\ \A n \in Nat : Budget(n) \in Nat /\ Budget(n + 1) = Budget(n) + MaxAttempts
BY LimitsAssumption DEF Budget

\* ... and never shrinks.
LEMMA BudgetMonotone ==
  ASSUME NEW n \in Nat, NEW m \in Nat, n < m
  PROVE  Budget(n + 1) <= Budget(m)
<1>1. /\ n + 1 \in Nat /\ m - (n + 1) \in Nat
      /\ m = (n + 1) + (m - (n + 1))
  OBVIOUS
<1>2. \A a, b, c \in Nat : a * b <= a * (b + c)
  OBVIOUS
<1> QED
  BY <1>1, <1>2, LimitsAssumption DEF Budget

\* The budget of reviews starts at nothing, grows by what an attempt may make
\* with every attempt, and what is spent on fewer attempts fits in it.
LEMMA PostBudgetSteps ==
  /\ ReviewsPerAttempt \in Nat /\ 0 < ReviewsPerAttempt
  /\ PostBudget(0) = 0
  /\ \A n \in Nat :
       /\ PostBudget(n) \in Nat
       /\ PostBudget(n + 1) = PostBudget(n) + ReviewsPerAttempt
BY LimitsAssumption DEF PostBudget

LEMMA PostBudgetMonotone ==
  ASSUME NEW n \in Nat, NEW m \in Nat, n < m
  PROVE  PostBudget(n + 1) <= PostBudget(m)
<1>1. /\ n + 1 \in Nat /\ m - (n + 1) \in Nat
      /\ m = (n + 1) + (m - (n + 1))
  OBVIOUS
<1>2. \A a, b, c \in Nat : a * b <= a * (b + c)
  OBVIOUS
<1> QED
  BY <1>1, <1>2, PostBudgetSteps DEF PostBudget

\* No review is within it.
LEMMA NoneIsFew == 0 <= PostBudget(MaxAttempts) /\ 0 <= PostBudget(0)
BY PostBudgetSteps, LimitsAssumption

\* An attempt, whatever becomes of it, adds no more than it may.
LEMMA AttemptMakesFew ==
  ASSUME posted \in Nat, Created \/ CreatedOrNot \/ CreatedBefore
  PROVE  /\ posted' \in Nat /\ posted <= posted'
         /\ posted' <= posted + ReviewsPerAttempt
         /\ Created => 0 < posted'
BY PostBudgetSteps DEF Created, CreatedOrNot, CreatedBefore

\* Counters within their limits are numbers.
LEMMA Counters ==
  /\ MaxChunks \in Nat /\ MaxAttempts \in Nat /\ 0 < MaxAttempts
  /\ 0 \in 0 .. MaxChunks /\ 0 \in 0 .. MaxAttempts
  /\ \A k \in 0 .. MaxChunks : k \in Nat /\ k + 1 \in Nat
BY LimitsAssumption

\* The results run() returns are well-formed, and TimeoutResult and
\* RaisedResult too.
LEMMA ResultsAreTyped ==
  ASSUME NEW s \in TerminalStatuses, NEW d \in StatusDetails,
         NEW r \in BOOLEAN, NEW n \in BOOLEAN
  PROVE  Result(s, d, r, n) \in ReviewResults
BY DEF Result, ReviewResults

\* The early exits of prepare are permitted as long as nothing was posted.
LEMMA EarlyExitsPermitted ==
  ASSUME NEW r \in UnpostedResults
  PROVE  Permitted(r, FALSE)
BY DEF Permitted, RunResults, UnpostedResults, ReviewedResults, Result

\* A post that ended in an error may or may not have put a review there.
LEMMA PostErrorsPermitted ==
  ASSUME NEW r \in PostErrorResults, NEW b \in BOOLEAN
  PROVE  Permitted(r, b)
BY DEF Permitted, RunResults, UnpostedResults, ReviewedResults,
       PostErrorResults, Result

\* A posted review, with or without the sections the parser looks for.
LEMMA ReviewsPermitted ==
  ASSUME NEW d \in ReviewedDetails
  PROVE  Permitted(Result("done", d, TRUE, FALSE), TRUE)
BY DEF Permitted, RunResults, UnpostedResults, ReviewedResults,
       ReviewedDetails, Result

-----------------------------------------------------------------------------
\* run() starts within the invariant.
LEMMA ReviewerInitInv == ReviewerInit => ReviewerInv
<1> SUFFICES ASSUME ReviewerInit PROVE ReviewerInv
  OBVIOUS
<1>1. NoResult \in ReviewResults
  BY ResultsAreTyped DEF NoResult, TerminalStatuses, StatusDetails
<1>2. ReviewerTypeOK
  <2>1. pc \in PCs
    BY DEF ReviewerInit, PCs
  <2> QED
    BY <1>1, <2>1, Counters DEF ReviewerInit, ReviewerTypeOK
<1>3. CallsBounded
  BY BudgetSteps DEF ReviewerInit, CallsBounded
<1> QED
  BY <1>2, <1>3, LimitsAssumption, NoneIsFew
  DEF ReviewerInit, ReviewerInv, ReturnsWithinContract, PostsBounded

\* A step of the pipeline before the first LLM request.
LEMMA PrepareInv ==
  ASSUME ReviewerInv,
         ReadPr \/ LoadRepoConfig \/ FetchPr \/ FetchFiles \/ FetchComments
  PROVE  ReviewerInv'
<1> DEFINE draftExit == Result("done", "drafted_after_event", FALSE, FALSE)
           emptyExit == Result("done", "no_reviewable_files", FALSE, FALSE)
<1>1. /\ draftExit \in ReviewResults /\ emptyExit \in ReviewResults
      /\ RaisedResult \in ReviewResults
  BY ResultsAreTyped DEF RaisedResult, TerminalStatuses, StatusDetails
<1>2. /\ Permitted(draftExit, FALSE)
      /\ Permitted(emptyExit, FALSE)
  BY EarlyExitsPermitted DEF UnpostedResults
<1> HIDE DEF draftExit, emptyExit
<1>3. /\ posted = 0 /\ calls = 0 /\ answered = 0 /\ attempt = 0
      /\ UNCHANGED <<posted, calls, answered, attempt, unparsed, draft>>
      /\ (posted > 0)' = FALSE
      /\ draft' \in BOOLEAN /\ unparsed' \in BOOLEAN
  <2>1. UNCHANGED <<posted, calls, answered, attempt, unparsed, draft>>
    BY DEF ReadPr, LoadRepoConfig, FetchPr, FetchFiles, FetchComments, progress
  <2>2. posted = 0 /\ calls = 0 /\ answered = 0 /\ attempt = 0
    BY DEF ReviewerInv, ReadPr, LoadRepoConfig, FetchPr, FetchFiles,
           FetchComments, Ended
  <2> QED
    BY <2>1, <2>2 DEF ReviewerInv, ReviewerTypeOK
<1>4. chunks' \in 0 .. MaxChunks
  BY DEF ReadPr, LoadRepoConfig, FetchPr, FetchFiles, FetchComments,
         ReviewerInv, ReviewerTypeOK
<1>5. CallsBounded'
  <2> DEFINE c == chunks'
  <2>1. c \in Nat /\ c + 1 \in Nat
    BY <1>4, Counters
  <2>2. calls' = 0
    BY <1>3
  <2>3. 0 <= Budget(c) /\ 0 <= Budget(c + 1)
    BY <2>1, BudgetSteps
  <2> QED
    BY <2>2, <2>3 DEF CallsBounded
<1>6. /\ pc' \in {"config", "fetch_pr", "fetch_files", "fetch_comments",
                  "chunk", "returned", "raised"}
      /\ pc' \in {"config", "fetch_pr", "fetch_files"} => chunks' = 0
      /\ pc' = "chunk" => chunks' > 0
      /\ pc' = "returned" => result' \in {draftExit, emptyExit}
      /\ result' \in ReviewResults
  <2>1. CASE ReadPr
    BY <1>1, <2>1 DEF ReviewerInv, ReadPr, Return, Raise, ReviewerTypeOK, draftExit
  <2>2. CASE LoadRepoConfig
    BY <1>1, <2>2 DEF ReviewerInv, LoadRepoConfig, Raise, ReviewerTypeOK
  <2>3. CASE FetchPr
    BY <1>1, <2>3 DEF ReviewerInv, FetchPr, Raise, ReviewerTypeOK
  <2>4. CASE FetchFiles
    BY <1>1, <2>4 DEF ReviewerInv, FetchFiles, Raise, ReviewerTypeOK
  <2>5. CASE FetchComments
    BY <1>1, <2>5 DEF ReviewerInv, FetchComments, Return, Raise, ReviewerTypeOK, emptyExit
  <2> QED
    BY <2>1, <2>2, <2>3, <2>4, <2>5
<1>7. ReviewerTypeOK'
  BY <1>3, <1>4, <1>6, Counters DEF ReviewerTypeOK, PCs
<1>8. ReturnsWithinContract'
  BY <1>2, <1>3, <1>6 DEF ReturnsWithinContract
<1> QED
  BY <1>3, <1>4, <1>5, <1>6, <1>7, <1>8, BudgetSteps, Counters, NoneIsFew
  DEF ReviewerInv, Ended, PostsBounded

\* An attempt of llm.chat, for a chunk or for the synthesis.
LEMMA ChatInv ==
  ASSUME ReviewerInv, ChatAttempt
  PROVE  ReviewerInv'
<1> DEFINE failure == Result("failed", "llm_failure", FALSE, TRUE)
<1>1. failure \in ReviewResults /\ Permitted(failure, FALSE)
  BY ResultsAreTyped, EarlyExitsPermitted
  DEF TerminalStatuses, StatusDetails, UnpostedResults
<1>0. RaisedResult \in ReviewResults
  BY ResultsAreTyped DEF RaisedResult, TerminalStatuses, StatusDetails
<1> HIDE DEF failure
<1>2. /\ posted' = 0 /\ (posted > 0)' = FALSE /\ chunks' = chunks
      /\ calls' = calls + 1 /\ draft' = draft
  BY DEF ChatAttempt, ReviewerInv, Ended
<1>3. /\ pc \in {"chunk", "synthesize"}
      /\ chunks \in 0 .. MaxChunks /\ answered \in 0 .. MaxChunks
      /\ chunks \in Nat /\ answered \in Nat /\ attempt \in Nat /\ calls \in Nat
      /\ attempt < MaxAttempts
      /\ draft \in BOOLEAN /\ unparsed \in BOOLEAN /\ result \in ReviewResults
  BY Counters DEF ChatAttempt, ReviewerInv, ReviewerTypeOK, Ended
\* The budget before the step, and what the step adds to it.
<1>4. /\ pc = "chunk" => answered < chunks /\ calls <= Budget(answered) + attempt
      /\ pc = "synthesize" => /\ answered = chunks /\ chunks > 1
                              /\ calls <= Budget(chunks) + attempt
  BY DEF ReviewerInv
<1>5. /\ \A n \in Nat : Budget(n) \in Nat
      /\ Budget(answered + 1) = Budget(answered) + MaxAttempts
      /\ Budget(chunks + 1) = Budget(chunks) + MaxAttempts
  BY <1>3, BudgetSteps
<1>6. pc = "chunk" => Budget(answered + 1) <= Budget(chunks)
  BY <1>3, <1>4, BudgetMonotone
<1>7. CallsBounded'
  <2>1. calls' <= Budget(IF chunks > 1 THEN chunks + 1 ELSE chunks)
    <3>1. CASE pc = "chunk"
      <4>1. calls + 1 <= Budget(chunks)
        BY <1>3, <1>4, <1>5, <1>6, <3>1, Counters
      <4> QED
        BY <1>2, <1>3, <1>5, <4>1, Counters
    <3>2. CASE pc = "synthesize"
      <4>1. calls + 1 <= Budget(chunks + 1)
        BY <1>3, <1>4, <1>5, <3>2, Counters
      <4> QED
        BY <1>2, <1>4, <3>2, <4>1
    <3> QED
      BY <1>3, <3>1, <3>2
  <2> QED
    BY <1>2, <2>1 DEF CallsBounded
<1>8. CASE /\ MayRetry
           /\ attempt' = attempt + 1
           /\ UNCHANGED <<pc, answered, unparsed, result>>
  <2>1. /\ attempt' \in 0 .. MaxAttempts /\ attempt' < MaxAttempts
        /\ calls' \in Nat /\ posted' \in Nat
    BY <1>2, <1>3, <1>8, Counters DEF MayRetry
  <2>2. ReviewerTypeOK'
    BY <1>2, <1>3, <1>8, <2>1 DEF ReviewerInv, ReviewerTypeOK
  <2>3. /\ pc = "chunk" => calls' <= Budget(answered') + attempt'
        /\ pc = "synthesize" => calls' <= Budget(chunks') + attempt'
    BY <1>2, <1>3, <1>4, <1>5, <1>8
  <2> QED
    BY <1>2, <1>3, <1>4, <1>7, <1>8, <2>1, <2>2, <2>3, Counters, NoneIsFew
    DEF ReviewerInv, ReturnsWithinContract, PostsBounded
<1>9. CASE /\ Return(failure)
           /\ UNCHANGED <<answered, attempt, unparsed>>
  <2>1. calls' \in Nat /\ posted' \in Nat /\ attempt \in 0 .. MaxAttempts
    BY <1>2, <1>3, Counters
  <2>2. ReviewerTypeOK'
    BY <1>1, <1>2, <1>3, <1>9, <2>1 DEF Return, ReviewerTypeOK, PCs
  <2>3. pc' = "returned" /\ result' = failure
    BY <1>9 DEF Return
  <2>4. ReturnsWithinContract'
    BY <1>1, <1>2, <2>3 DEF ReturnsWithinContract
  <2> QED
    BY <1>2, <1>7, <2>2, <2>3, <2>4, Counters, NoneIsFew
    DEF ReviewerInv, PostsBounded, Ended
<1>10. CASE /\ pc = "chunk"
            /\ answered' = answered + 1
            /\ pc' = AfterChunks(answered')
            /\ attempt' = 0
            /\ unparsed' \in BOOLEAN
            /\ UNCHANGED result
  <2>1. /\ calls' \in Nat /\ posted' \in Nat /\ answered' \in 0 .. MaxChunks
        /\ pc' \in {"chunk", "post", "synthesize"}
        /\ pc' = "chunk" => answered' < chunks
        /\ pc' = "synthesize" => answered' = chunks /\ chunks > 1
    BY <1>2, <1>3, <1>4, <1>10, Counters DEF AfterChunks
  <2>2. calls' <= Budget(answered')
    BY <1>2, <1>3, <1>4, <1>5, <1>10, Counters
  <2>3. ReviewerTypeOK'
    BY <1>2, <1>3, <1>10, <2>1, Counters DEF ReviewerTypeOK, PCs
  <2> QED
    BY <1>2, <1>3, <1>5, <1>7, <1>10, <2>1, <2>2, <2>3, Counters, NoneIsFew
    DEF ReviewerInv, ReturnsWithinContract, PostsBounded, Ended
<1>11. CASE /\ pc = "synthesize"
            /\ pc' = "post"
            /\ attempt' = 0
            /\ unparsed' \in BOOLEAN
            /\ UNCHANGED <<answered, result>>
  <2>1. calls' \in Nat /\ posted' \in Nat
    BY <1>2, <1>3
  <2>2. ReviewerTypeOK'
    BY <1>2, <1>3, <1>11, <2>1, Counters DEF ReviewerTypeOK, PCs
  <2> QED
    BY <1>2, <1>7, <1>11, <2>2, Counters, NoneIsFew
    DEF ReviewerInv, ReturnsWithinContract, PostsBounded, Ended
<1>12. CASE /\ Raise
            /\ UNCHANGED <<answered, attempt, unparsed>>
  <2>1. calls' \in Nat /\ posted' \in Nat /\ attempt \in 0 .. MaxAttempts
    BY <1>2, <1>3, Counters
  <2>2. ReviewerTypeOK'
    BY <1>0, <1>2, <1>3, <1>12, <2>1 DEF Raise, ReviewerTypeOK, PCs
  <2>3. pc' = "raised"
    BY <1>12 DEF Raise
  <2> QED
    BY <1>2, <1>7, <2>2, <2>3, Counters, NoneIsFew
    DEF ReviewerInv, ReturnsWithinContract, PostsBounded, Ended
<1> QED
  BY <1>8, <1>9, <1>10, <1>11, <1>12 DEF ChatAttempt, failure

\* An attempt to post the review.
LEMMA PostInv ==
  ASSUME ReviewerInv, Post
  PROVE  ReviewerInv'
<1> DEFINE failure == Result("failed", "github_failure", FALSE, FALSE)
           closed == Result("done", "pr_closed", FALSE, FALSE)
           detail == IF unparsed THEN "parse_failed" ELSE "none"
           review == Result("done", detail, TRUE, FALSE)
<1>1. /\ failure \in ReviewResults /\ closed \in ReviewResults
      /\ review \in ReviewResults /\ RaisedResult \in ReviewResults
  BY ResultsAreTyped DEF RaisedResult, TerminalStatuses, StatusDetails
<1>2. /\ \A b \in BOOLEAN : Permitted(failure, b) /\ Permitted(closed, b)
      /\ Permitted(review, TRUE)
  BY PostErrorsPermitted, ReviewsPermitted DEF PostErrorResults, ReviewedDetails
<1> HIDE DEF failure, closed, review
<1>3. /\ pc = "post" /\ posted \in Nat /\ attempt \in Nat
      /\ posted <= PostBudget(attempt) /\ attempt < MaxAttempts
      /\ UNCHANGED <<draft, chunks, answered, calls, unparsed>>
      /\ Created \/ CreatedOrNot \/ CreatedBefore
  <2>1. pc = "post"
    BY DEF Post, PostAccepted, PostTransient, PostRejected, PostBreaks
  <2>2. UNCHANGED <<draft, chunks, answered, calls, unparsed>>
    BY DEF Post, PostAccepted, PostTransient, PostRejected, PostBreaks, progress
  <2>3. Created \/ CreatedOrNot \/ CreatedBefore
    BY DEF Post, PostAccepted, PostTransient, PostRejected, PostBreaks
  <2>4. posted \in Nat /\ attempt \in Nat
    BY Counters DEF ReviewerInv, ReviewerTypeOK
  <2> QED
    BY <2>1, <2>2, <2>3, <2>4 DEF ReviewerInv, Ended
<1>4. /\ posted' \in Nat /\ posted' <= PostBudget(attempt + 1)
      /\ posted' <= PostBudget(MaxAttempts)
      /\ (posted > 0)' \in BOOLEAN
  <2>1. /\ posted' \in Nat /\ posted' <= posted + ReviewsPerAttempt
    BY <1>3, AttemptMakesFew
  <2>2. /\ PostBudget(attempt + 1) = PostBudget(attempt) + ReviewsPerAttempt
        /\ PostBudget(attempt) \in Nat /\ PostBudget(MaxAttempts) \in Nat
        /\ PostBudget(attempt + 1) \in Nat /\ ReviewsPerAttempt \in Nat
    BY <1>3, PostBudgetSteps, Counters
  <2>3. PostBudget(attempt + 1) <= PostBudget(MaxAttempts)
    BY <1>3, PostBudgetMonotone, Counters
  <2> QED
    BY <1>3, <2>1, <2>2, <2>3
<1>5. CallsBounded'
  BY <1>3 DEF ReviewerInv, CallsBounded
<1>6. CASE /\ MayRetry
           /\ attempt' = attempt + 1
           /\ UNCHANGED <<pc, result>>
  <2>1. attempt' \in 0 .. MaxAttempts /\ attempt' < MaxAttempts
    BY <1>3, <1>6, Counters DEF MayRetry
  <2>2. ReviewerTypeOK'
    BY <1>3, <1>4, <1>6, <2>1 DEF ReviewerInv, ReviewerTypeOK
  <2> QED
    BY <1>3, <1>4, <1>5, <1>6, <2>1, <2>2
    DEF ReviewerInv, ReturnsWithinContract, PostsBounded
<1>7. CASE /\ pc' \in {"returned", "raised"}
           /\ result' \in ReviewResults
           /\ pc' = "returned" => Permitted(result', (posted > 0)')
           /\ UNCHANGED attempt
  <2>1. ReviewerTypeOK'
    BY <1>3, <1>4, <1>7 DEF ReviewerInv, ReviewerTypeOK, PCs
  <2> QED
    BY <1>4, <1>5, <1>7, <2>1
    DEF ReviewerInv, ReturnsWithinContract, PostsBounded, Ended
<1>8. CASE PostAccepted
  <2>1. (posted > 0)' = TRUE
    BY <1>3, <1>4, <1>8, AttemptMakesFew DEF PostAccepted
  <2> QED
    BY <1>1, <1>2, <1>7, <1>8, <2>1 DEF PostAccepted, Return, progress, review
<1>9. CASE PostTransient
  BY <1>1, <1>2, <1>4, <1>6, <1>7, <1>9 DEF PostTransient, Return, failure
<1>10. CASE PostRejected
  BY <1>1, <1>2, <1>4, <1>7, <1>10
  DEF PostRejected, Return, progress, failure, closed
<1>11. CASE PostBreaks
  BY <1>1, <1>7, <1>11 DEF PostBreaks, Raise, progress
<1> QED
  BY <1>8, <1>9, <1>10, <1>11 DEF Post

\* The timeout.
LEMMA TimeoutInv ==
  ASSUME ReviewerInv, TimesOut
  PROVE  ReviewerInv'
<1>1. TimeoutResult \in ReviewResults
  BY ResultsAreTyped DEF TimeoutResult, TerminalStatuses, StatusDetails
<1>2. posted' \in Nat /\ posted' <= PostBudget(MaxAttempts)
  <2>0. /\ posted \in Nat /\ attempt \in Nat
        /\ posted <= PostBudget(MaxAttempts)
        /\ pc = "post" => attempt < MaxAttempts /\ posted <= PostBudget(attempt)
    BY Counters DEF ReviewerInv, ReviewerTypeOK, PostsBounded, Ended
  <2>1. CASE pc = "post"
    <3>1. /\ posted' \in Nat /\ posted' <= posted + ReviewsPerAttempt
      BY <2>0, <2>1, AttemptMakesFew DEF TimesOut
    <3>2. /\ PostBudget(attempt + 1) = PostBudget(attempt) + ReviewsPerAttempt
          /\ PostBudget(attempt) \in Nat /\ PostBudget(MaxAttempts) \in Nat
          /\ PostBudget(attempt + 1) <= PostBudget(MaxAttempts)
          /\ PostBudget(attempt + 1) \in Nat /\ ReviewsPerAttempt \in Nat
      BY <2>0, <2>1, PostBudgetSteps, PostBudgetMonotone, Counters
    <3> QED
      BY <2>0, <2>1, <3>1, <3>2
  <2>2. CASE pc # "post"
    BY <2>0, <2>2 DEF TimesOut
  <2> QED
    BY <2>1, <2>2
<1>3. ReviewerTypeOK'
  BY <1>1, <1>2 DEF TimesOut, progress, ReviewerInv, ReviewerTypeOK, PCs
<1>4. CallsBounded'
  BY DEF TimesOut, progress, ReviewerInv, CallsBounded
<1> QED
  BY <1>2, <1>3, <1>4
  DEF TimesOut, ReviewerInv, ReturnsWithinContract, PostsBounded, Ended

\* The author's doings, and stuttering, do not touch the run.
LEMMA IdleInv ==
  ASSUME ReviewerInv, ToggleDraft \/ UNCHANGED reviewVars
  PROVE  ReviewerInv'
<1>1. UNCHANGED <<posted, pc, chunks, answered, attempt, calls, unparsed, result>>
  BY DEF ToggleDraft, reviewVars, progress
<1>2. draft' \in BOOLEAN
  BY DEF ToggleDraft, reviewVars, ReviewerInv, ReviewerTypeOK
<1> QED
  BY <1>1, <1>2 DEF ReviewerInv, ReviewerTypeOK, ReturnsWithinContract,
     PostsBounded, CallsBounded

-----------------------------------------------------------------------------
\* ReviewerInv holds throughout every run of the pipeline.
THEOREM ReviewerInvariant == ReviewerSpec => []ReviewerInv
<1>1. ReviewerInv /\ [ReviewerNext]_reviewVars => ReviewerInv'
  BY PrepareInv, ChatInv, PostInv, TimeoutInv, IdleInv
  DEF ReviewerNext, PipelineStep, Finished
<1> QED
  BY <1>1, ReviewerInitInv, PTL DEF ReviewerSpec

\* What Reviewer.run returns is within the contract that ReviewService takes
\* for granted, for any number of chunks and attempts.
THEOREM ContractHolds == ReviewerSpec => []ReturnsWithinContract
<1>1. ReviewerInv => ReturnsWithinContract
  BY DEF ReviewerInv
<1> QED
  BY <1>1, ReviewerInvariant, PTL

\* A run never puts more reviews on the pull request than the attempts of
\* _post_with_retry can make, each of which may make several.
THEOREM PostsAreBounded == ReviewerSpec => []PostsBounded
<1>1. ReviewerInv => PostsBounded
  BY DEF ReviewerInv
<1> QED
  BY <1>1, ReviewerInvariant, PTL

\* The LLM requests of a run stay within its budget.
THEOREM CallsAreBounded == ReviewerSpec => []CallsBounded
<1>1. ReviewerInv => CallsBounded
  BY DEF ReviewerInv
<1> QED
  BY <1>1, ReviewerInvariant, PTL

\* prepare reads the pull request before anything else: what is a draft all
\* along gets no review.
THEOREM DraftsAreLeftAlone == ReviewerSpec => DraftsAreNotReviewed
<1> DEFINE Untouched == pc \in {"get_pr"} \cup Ended /\ posted = 0
<1>1. ReviewerInit => Untouched
  BY DEF ReviewerInit
<1>2. Untouched /\ draft /\ [ReviewerNext]_reviewVars => Untouched'
  <2> SUFFICES ASSUME Untouched, draft, ReviewerNext
               PROVE  Untouched'
    BY DEF reviewVars, progress, Ended
  <2>1. CASE ReadPr
    BY <2>1 DEF ReadPr, AbortDraft, Return, Raise, Ended
  <2>2. CASE TimesOut
    BY <2>2 DEF TimesOut, Ended
  <2>3. CASE ToggleDraft \/ Finished
    BY <2>3 DEF ToggleDraft, Finished, reviewVars, progress, Ended
  <2> QED
    BY <2>1, <2>2, <2>3
    DEF ReviewerNext, PipelineStep, LoadRepoConfig, FetchPr, FetchFiles,
        FetchComments, ChatAttempt, Post, PostAccepted, PostTransient,
        PostRejected, PostBreaks, Ended
<1>3. Untouched => posted = 0
  OBVIOUS
<1> HIDE DEF Untouched
<1> QED
  BY <1>1, <1>2, <1>3, PTL DEF ReviewerSpec, DraftsAreNotReviewed

-----------------------------------------------------------------------------
(* That a run ends.                                                        *)

\* How many awaits a run has left at most: every place in front of the first
\* request counts for one, every answer still to come and the post for
\* MaxAttempts, less the attempts that have failed.
AwaitsLeft ==
  CASE pc \in Ended         -> 0
    [] pc = "post"          -> MaxAttempts - attempt
    [] pc = "synthesize"    -> Budget(1) + (MaxAttempts - attempt)
    [] pc = "chunk"         -> Budget((chunks - answered) + 1)
                               + (MaxAttempts - attempt)
    [] pc = "fetch_comments" -> Budget(chunks + 2) + 1
    [] pc = "fetch_files"   -> Budget(MaxChunks + 2) + 2
    [] pc = "fetch_pr"      -> Budget(MaxChunks + 2) + 3
    [] pc = "config"        -> Budget(MaxChunks + 2) + 4
    [] OTHER                -> Budget(MaxChunks + 2) + 5

\* Each await of a run leaves it with fewer, and nothing else gives it more.
AwaitsRunOut ==
  [][/\ AwaitsLeft' \in Nat
     /\ PipelineStep => AwaitsLeft' < AwaitsLeft
     /\ AwaitsLeft' <= AwaitsLeft]_reviewVars

\* A run that has not ended has an await left.
AwaitsCounted ==
  /\ AwaitsLeft \in Nat
  /\ pc \in Ended => AwaitsLeft = 0
  /\ pc \notin Ended => 0 < AwaitsLeft
LEMMA AwaitsLeftCounts == ReviewerInv => AwaitsCounted
<1> SUFFICES ASSUME ReviewerInv PROVE AwaitsCounted
  OBVIOUS
<1>1. /\ pc \in PCs /\ MaxAttempts \in Nat /\ attempt \in Nat
      /\ pc \notin Ended => attempt < MaxAttempts
      /\ chunks \in Nat /\ answered \in Nat
      /\ pc = "chunk" => answered < chunks
  BY Counters DEF ReviewerInv, ReviewerTypeOK
<1>2. /\ Budget(1) \in Nat /\ Budget(chunks + 2) \in Nat
      /\ Budget(MaxChunks + 2) \in Nat
      /\ pc = "chunk" => Budget((chunks - answered) + 1) \in Nat
  <2>1. /\ chunks + 2 \in Nat /\ MaxChunks + 2 \in Nat
        /\ pc = "chunk" => (chunks - answered) + 1 \in Nat
    BY <1>1, Counters
  <2> QED
    BY <2>1, BudgetSteps
<1> QED
  BY <1>1, <1>2 DEF AwaitsCounted, AwaitsLeft, PCs, Ended

\* Each await in front of the first request is one less.
LEMMA PrepareRunsOut ==
  ASSUME ReviewerInv,
         ReadPr \/ LoadRepoConfig \/ FetchPr \/ FetchFiles \/ FetchComments,
         pc' \notin Ended
  PROVE  AwaitsLeft' < AwaitsLeft
<1> DEFINE most == Budget(MaxChunks + 2)
<1>1. most \in Nat
  BY BudgetSteps, Counters
<1>2. CASE ReadPr \/ LoadRepoConfig \/ FetchPr
  <2>1. \/ pc = "get_pr" /\ pc' = "config"
        \/ pc = "config" /\ pc' = "fetch_pr"
        \/ pc = "fetch_pr" /\ pc' = "fetch_files"
    BY <1>2 DEF ReadPr, LoadRepoConfig, FetchPr, Return, Raise, Ended
  <2> HIDE DEF most
  <2>2. /\ pc = "get_pr" => AwaitsLeft = most + 5
        /\ pc = "config" => AwaitsLeft = most + 4
        /\ pc = "fetch_pr" => AwaitsLeft = most + 3
        /\ pc' = "config" => AwaitsLeft' = most + 4
        /\ pc' = "fetch_pr" => AwaitsLeft' = most + 3
        /\ pc' = "fetch_files" => AwaitsLeft' = most + 2
    BY DEF AwaitsLeft, Ended, most
  <2> QED
    BY <1>1, <2>1, <2>2
<1>3. CASE FetchFiles
  <2> DEFINE c == chunks'
  <2>1. c \in 0 .. MaxChunks /\ pc' = "fetch_comments" /\ pc = "fetch_files"
    BY <1>3 DEF FetchFiles, Raise, Ended
  <2>2. Budget(c + 2) <= most /\ Budget(c + 2) \in Nat
    <3> HIDE DEF c
    <3>1. /\ c + 1 \in Nat /\ (c + 1) + 1 = c + 2 /\ c + 2 \in Nat
          /\ MaxChunks + 2 \in Nat /\ c + 1 < MaxChunks + 2
      BY <2>1, LimitsAssumption
    <3>2. Budget((c + 1) + 1) <= most
      BY <3>1, BudgetMonotone
    <3> QED
      BY <3>1, <3>2, BudgetSteps
  <2> HIDE DEF most
  <2>3. AwaitsLeft' = Budget(c + 2) + 1 /\ AwaitsLeft = most + 2
    BY <2>1 DEF AwaitsLeft, Ended, most
  <2> QED
    BY <1>1, <2>2, <2>3
<1>4. CASE FetchComments
  <2>1. /\ pc = "fetch_comments" /\ pc' = "chunk" /\ chunks' = chunks
        /\ attempt' = 0 /\ answered' = 0 /\ chunks \in Nat
    BY <1>4, Counters
    DEF FetchComments, Return, Raise, Ended, progress, ReviewerInv, ReviewerTypeOK
  <2>2. /\ Budget(chunks + 1) \in Nat
        /\ Budget(chunks + 2) = Budget(chunks + 1) + MaxAttempts
    <3>1. chunks + 1 \in Nat /\ (chunks + 1) + 1 = chunks + 2
      BY <2>1
    <3> QED
      BY <3>1, BudgetSteps
  <2>3. /\ AwaitsLeft = Budget(chunks + 2) + 1
        /\ AwaitsLeft' = Budget((chunks - 0) + 1) + (MaxAttempts - 0)
    BY <2>1 DEF AwaitsLeft, Ended
  <2> QED
    BY <2>1, <2>2, <2>3, Counters
<1> QED
  BY <1>2, <1>3, <1>4

\* Each request is one less: it costs an attempt, or answers a chunk.
LEMMA ChatRunsOut ==
  ASSUME ReviewerInv, ChatAttempt, pc' \notin Ended
  PROVE  AwaitsLeft' < AwaitsLeft
<1>1. /\ pc \in {"chunk", "synthesize"} /\ chunks' = chunks
      /\ chunks \in Nat /\ answered \in Nat /\ attempt \in Nat
      /\ attempt < MaxAttempts /\ MaxAttempts \in Nat
      /\ pc = "chunk" => answered < chunks
  BY Counters DEF ChatAttempt, ReviewerInv, ReviewerTypeOK, Ended
<1>2. Budget(1) = MaxAttempts
  <2>1. Budget(0 + 1) = Budget(0) + MaxAttempts
    BY BudgetSteps
  <2> QED
    BY <2>1, BudgetSteps, Counters
<1>3. /\ pc = "chunk" => AwaitsLeft = Budget((chunks - answered) + 1)
                                      + (MaxAttempts - attempt)
      /\ pc = "synthesize" => AwaitsLeft = Budget(1) + (MaxAttempts - attempt)
  BY DEF AwaitsLeft, Ended
<1>4. CASE attempt' = attempt + 1 /\ UNCHANGED <<pc, answered>>
  <2>1. /\ pc = "chunk" => AwaitsLeft' = Budget((chunks - answered) + 1)
                                         + (MaxAttempts - (attempt + 1))
        /\ pc = "synthesize" => AwaitsLeft' = Budget(1)
                                              + (MaxAttempts - (attempt + 1))
    BY <1>1, <1>4 DEF AwaitsLeft, Ended
  <2>2. pc = "chunk" => Budget((chunks - answered) + 1) \in Nat
    BY <1>1, BudgetSteps
  <2> QED
    BY <1>1, <1>2, <1>3, <2>1, <2>2
<1>5. CASE /\ pc = "chunk" /\ answered' = answered + 1 /\ attempt' = 0
           /\ pc' = AfterChunks(answered')
  <2> DEFINE left == chunks - answered
  <2>1. /\ left \in Nat /\ left > 0
        /\ Budget(left) \in Nat /\ Budget(left + 1) = Budget(left) + MaxAttempts
    BY <1>1, <1>5, BudgetSteps
  <2>2. CASE pc' = "chunk"
    <3>1. (chunks - (answered + 1)) + 1 = left
      BY <1>1
    <3>2. AwaitsLeft' = Budget((chunks - (answered + 1)) + 1)
                        + (MaxAttempts - 0)
      BY <1>1, <1>5, <2>2 DEF AwaitsLeft, Ended
    <3>3. AwaitsLeft' = Budget(left) + MaxAttempts
      BY <1>1, <3>1, <3>2
    <3> QED
      BY <1>1, <1>3, <1>5, <2>1, <3>3
  <2>3. CASE pc' = "synthesize"
    <3>1. AwaitsLeft' = Budget(1) + (MaxAttempts - 0)
      BY <1>5, <2>3 DEF AwaitsLeft, Ended
    <3>2. Budget(1) <= Budget(left)
      <4>1. Budget(0 + 1) <= Budget(left)
        BY <2>1, BudgetMonotone
      <4> QED
        BY <4>1
    <3> QED
      BY <1>1, <1>2, <1>3, <1>5, <2>1, <3>1, <3>2
  <2>4. CASE pc' = "post"
    <3>1. AwaitsLeft' = MaxAttempts - 0
      BY <1>5, <2>4 DEF AwaitsLeft, Ended
    <3> QED
      BY <1>1, <1>3, <1>5, <2>1, <3>1
  <2> QED
    BY <1>5, <2>2, <2>3, <2>4 DEF AfterChunks
<1>6. CASE pc = "synthesize" /\ pc' = "post" /\ attempt' = 0
  <2>1. AwaitsLeft' = MaxAttempts - 0
    BY <1>6 DEF AwaitsLeft, Ended
  <2> QED
    BY <1>1, <1>2, <1>3, <1>6, <2>1
<1> QED
  BY <1>4, <1>5, <1>6 DEF ChatAttempt, Return, Raise, Ended

\* Each attempt to post is one less.
LEMMA PostRunsOut ==
  ASSUME ReviewerInv, Post, pc' \notin Ended
  PROVE  AwaitsLeft' < AwaitsLeft
<1>1. pc = "post" /\ pc' = "post" /\ attempt' = attempt + 1
  BY DEF Post, PostAccepted, PostTransient, PostRejected, PostBreaks, Return,
         Raise, Ended
<1>2. attempt \in Nat /\ MaxAttempts \in Nat
  BY Counters DEF ReviewerInv, ReviewerTypeOK
<1>3. /\ AwaitsLeft = MaxAttempts - attempt
      /\ AwaitsLeft' = MaxAttempts - (attempt + 1)
  BY <1>1 DEF AwaitsLeft, Ended
<1> QED
  BY <1>2, <1>3

\* A run is bounded: whatever its calls answer, it takes at most as many
\* awaits as AwaitsLeft says at its start, without the worker's timeout.
\* Together with ReviewerFairSpec this is why Terminates does not depend on
\* the number of chunks and attempts.
THEOREM RunsAreBounded == ReviewerSpec => AwaitsRunOut
<1>1. ASSUME ReviewerInv, ReviewerInv', [ReviewerNext]_reviewVars
      PROVE  /\ AwaitsLeft' \in Nat
             /\ PipelineStep => AwaitsLeft' < AwaitsLeft
             /\ AwaitsLeft' <= AwaitsLeft
  <2>1. /\ AwaitsLeft \in Nat
        /\ pc \notin Ended => 0 < AwaitsLeft
    BY <1>1, AwaitsLeftCounts DEF AwaitsCounted
  <2>2. /\ AwaitsLeft' \in Nat
        /\ pc' \in Ended => AwaitsLeft' = 0
    <3>1. ReviewerInv' => AwaitsCounted'
      BY AwaitsLeftCounts, PTL
    <3> QED
      BY <1>1, <3>1 DEF AwaitsCounted
  <2>3. CASE PipelineStep
    <3>1. pc \notin Ended
      BY <2>3
      DEF PipelineStep, ReadPr, LoadRepoConfig, FetchPr, FetchFiles,
          FetchComments, ChatAttempt, Post, PostAccepted, PostTransient,
          PostRejected, PostBreaks, Ended
    <3>2. AwaitsLeft' < AwaitsLeft
      <4>1. CASE pc' \in Ended
        BY <2>1, <2>2, <3>1, <4>1
      <4>2. CASE pc' \notin Ended
        BY <1>1, <2>3, <4>2, PrepareRunsOut, ChatRunsOut, PostRunsOut
        DEF PipelineStep
      <4> QED
        BY <4>1, <4>2
    <3> QED
      BY <2>1, <2>2, <3>2
  <2>4. CASE ~PipelineStep /\ (ToggleDraft \/ Finished \/ UNCHANGED reviewVars)
    <3>1. AwaitsLeft' = AwaitsLeft
      BY <2>4 DEF ToggleDraft, Finished, reviewVars, progress, AwaitsLeft
    <3> QED
      BY <2>1, <2>4, <3>1
  <2>5. CASE ~PipelineStep /\ TimesOut
    BY <2>1, <2>2, <2>5 DEF TimesOut, Ended
  <2> QED
    BY <1>1, <2>3, <2>4, <2>5 DEF ReviewerNext
<1>2. ReviewerInv /\ ReviewerInv' /\ [ReviewerNext]_reviewVars =>
        [/\ AwaitsLeft' \in Nat
         /\ PipelineStep => AwaitsLeft' < AwaitsLeft
         /\ AwaitsLeft' <= AwaitsLeft]_reviewVars
  BY <1>1
<1> QED
  BY <1>2, ReviewerInvariant, PTL DEF ReviewerSpec, AwaitsRunOut

=============================================================================
