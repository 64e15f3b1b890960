# vidi-pr in TLA+

vidi-pr is a GitHub App that reviews pull requests with a self-hosted language
model. One process receives webhooks, keeps its state in one SQLite file and
runs one review worker. These modules model that process, the review pipeline
it runs from the files of a pull request to the text that is posted, and the
services both lean on: the repository's configuration, the comment thread, the
failure cooldown and the GitHub clients. TLC checks them on small instances;
TLAPS proves every safety property the passing runs check for every instance.

Source paths below are relative to `src/src/vidi_pr/`.

## The system

| Component | State | Operations | Talks to | Correct if |
|---|---|---|---|---|
| Job store (`storage/`, `models/storage.py`) | tables `jobs`, `pr_locks`, `webhook_deliveries`, `reviews_posted`, `failure_cooldowns` | insert, claim, update, lock, release, record, recover | called by the handlers and the worker, each in its own session | locks and unfinished jobs agree; statuses only advance; review rows are true |
| Webhook intake (`transport/server.py`, `webhook.py`, `auth.py`) | none | check the signature, record the delivery, parse, dispatch | GitHub calls it; it calls the handlers | a delivery is handled once, however often it is sent |
| Orchestration (`orchestration/`) | none | `on_pull_request`, `on_issue_comment`, `try_enqueue_review` | GitHub client, configuration loader, job store | at most one unfinished job per pull request, none refused for nothing |
| Worker (`pipeline/worker.py`, `failure.py`) | the job it holds, a stop flag | claim, review under a timeout, persist, comment on failure | job store, review pipeline, GitHub client | it owns the row it holds; every job is taken; failures are told |
| Process (`__main__.py`) | phase | start, bind, stop, die | all | what a crash leaves behind is repaired |
| Review pipeline (`pipeline/reviewer.py`, `fetcher.py`) | where `run()` is | read the pull request, pack, ask the model, merge, post | GitHub client, LLM client | ends, within its contract, its posts and requests bounded |
| Chunk packing (`pipeline/chunking.py`) | the chunks so far | one file at a time | pipeline | limits kept, no file lost, no prompt wasted |
| LLM client (`llm/client.py`) | none | chat with retries | the endpoint | bounded attempts |
| GitHub client (`transport/github_client.py`) | one cached client per installation | REST calls page by page, one retry after a 401 | GitHub | a refusal that is retried costs one client, and no other installation any |
| Repository configuration (`config/repo.py`) | cache of texts with ETag and date | load from the default branch, a base branch it names, or defaults; the context file | GitHub client | what decides was there recently, on a branch that may decide |
| Failure cooldown (`storage/failures.py`, `pipeline/failure.py`) | table `failure_cooldowns` | claim a slot, then comment | worker, GitHub client, the wall clock | a third failure is not told within a cooldown, and none is suppressed beyond one |
| Comment thread (`orchestration/triggers.py`, `pipeline/fetcher.py`) | none | recognise a command; choose what the model is shown | handlers, pipeline, GitHub client | the model sees no command and nothing of the bot's, and all the rest |
| Review body (`pipeline/parsing.py`, rendering in `reviewer.py`) | none | split a reply into sections, render, cut | pipeline | a changed file the model has not seen is named, unless it has no patch or is ignored; what is lost of a reply is what headings overwrite or what precedes them |
| Prompt wording (`prompts/`), operator configuration, logging, dry run, migrations | none at run time | | | |

What is hard here is not any one of these but their interleaving. Handlers and
the worker are tasks of one event loop and interleave at every `await`; each
database commit is a point at which the others look in and at which a crash
leaves its mark; GitHub may send a delivery again; a post that failed may have
taken effect; the timeout strikes in the middle of anything. `PROJECT.json`
lists these hazards line by line, with the properties that watch them.

## Modules

* **ReviewModel**: the vocabulary of `models/storage.py` (statuses, details)
  and the *contract* of `Reviewer.run`: the results it may return
  (`RunResults`) and which of them go with a review being on GitHub
  (`Permitted`).
* **Storage**: each storage function as an operator from the tables it writes
  to their new contents. Row ids are positions in the sequence `jobs`; a pull
  request stands for a (repo, number) pair. A write transaction takes effect
  in one step, at its commit: SQLite has one writer and shows nobody an
  uncommitted row. Reads are steps of their own wherever the code awaits
  between a read and the write that relies on it (`fetch_lock` and the
  insert, the SELECT and the UPDATE of `_claim_one`).
* **ReviewService**: the running service. Variables: the five tables, the
  phase of the process, one record per request being handled (`tasks`), the
  worker's position, job and result, which jobs' reviews reached GitHub
  (`ghReviews`), which jobs went through the failure notification
  (`notified`), and the last answer to each delivery. There is one action for
  each stretch of code between two awaits that others can observe:

  | Action | Code |
  |---|---|
  | `RejectWebhook`, `ProcessWebhook` | `webhook()`, `process_webhook` up to the handler's first await |
  | `GetPr`, `LoadConfig`, `ReactUnauthorized`, `ReactEyes` | `on_issue_comment`, await by await |
  | `FetchLock`, `Enqueue` | `try_enqueue_review`: the read, then the write transaction |
  | `HandlerStorageError`, `WorkerStorageError` | a query raises |
  | `Loop`, `SelectPending`, `MarkRunning` | `run_forever`, `_claim_one` |
  | `PostReview`, `ReviewReturns`, `ReviewFails` | `_process` around `Reviewer.run`, by its contract |
  | `Persist` | `_persist`, and the transaction of `_finalize_failure` |
  | `ClaimFailureSlot`, `PostFailureComment` | `maybe_post_failure_comment` |
  | `Start`, `Bind`, `BindFails`, `StopsDead`, `Crash` | `_serve`, signals, power loss |
  | `CooldownExpires` | the clock passes the cutoff of `claim_failure_slot` |

  A crash keeps the tables and loses the rest. `RecoverAtStartup` says whether
  `recover_on_startup` is called: in `__main__.py` it is not.
* **ReviewQueue**: what the service promises, seen from outside: per pull
  request at most one open ticket, and at most one under review in all
  (`Begin`); tickets go from queued to reviewing to closed, and a review goes
  on record when its ticket closes. A ticket whose worker is gone is *orphaned*
  (`Orphan`): it stays open, nobody works on it, and only a restart with
  recovery closes it (`Abandon`). Which queued ticket comes next is left open.
  `ReviewService` implements it under the mapping `Tickets`, `Recorded`: a
  running job is a ticket under review while the worker holds it (`Held`) and
  an orphaned one otherwise.
* **Reviewer**: one call of `Reviewer.run` with the worker's timeout around
  it: each GitHub and LLM call as a step that may fail in each way the clients
  distinguish, both retry loops, posts that take effect unheard, the pull
  request being converted to a draft and back. The client keeps githubkit's own
  retries (`github_client.py:266`), so that one `create_review` may send its
  POST several times; what an attempt may leave on GitHub is any number of
  reviews up to `ReviewsPerAttempt`. It justifies the contract that
  `ReviewService` takes from `ReviewModel`.
* **ReviewingService**: `ReviewService` with `Reviewer` in the place of the
  contract: `_process` starts a run (`RunBegins`), the run goes on await by
  await among the requests and the crashes (`RunStep`), and what comes of it is
  persisted (`RunEnds`). A job is in `ghReviews` from the first review its run
  puts on GitHub. It implements `ReviewService`, and so the queue.
* **Chunking**: `pack_chunks`, one file per step. Sorting is modelled as the
  order in which files are taken (`TriedBefore`, which is the stable
  descending sort). `Reviewer` relies on it only for the number of chunks.
* **ReviewBody**: composes `Chunking` with what comes before and after: the
  changed files are filtered (`Reviewable`, for `_filter_files`: those without
  a patch and those the repository ignores are dropped; `Listed` leads from a
  packed file back to the listing), each chunk is answered
  (`AnswerChunk`), several answers are merged (`Synthesize`), and the reply is
  split into sections (`Parse`, for `parse_review_output`), rendered with the
  names of the files that did not fit and cut to GitHub's limit (`Render`). A reply is
  a sequence of lines, four of which are headings. The names of the files left
  out are listed in the order in which they were tried: `Place` is where in the
  list a name comes. Here no call fails; what happens when one does is in
  `Reviewer`.
* **RepoConfigLoader**: `RepoConfigLoader.load` await by await (`CachedFetch`,
  `Serve`, `Answer`, `FetchContext`) while people push and time passes. An
  ETag is the text it came with; a text stands for what parsing makes of it:
  whether it is valid, whom it trusts, whether it names a context file. The
  handlers and the pipeline make a loader for every load (`handlers.py:87`,
  `reviewer.py:285`), so in production its cache never answers; that is the
  behaviours with one load. The model covers the loader as written, which is
  meant to be kept. Its clock only advances (`Tick`): the wall clock that
  dates the entries is taken not to be set back.
* **FailureCooldown**: `maybe_post_failure_comment` and `claim_failure_slot`
  against real time: the clock is read (`Notify`), the row is read, the row is
  written, the comment is posted, perhaps more than once by githubkit's own
  retries (`CommentMade`, up to `CommentsPerCall` times), and between any two
  of these time passes,
  the wall clock is set by up to `MaxSkew`, or the process dies. What
  `ReviewService` abstracts into `CooldownExpires` is a comparison of dates
  here.
* **CommentThread**: the two readers of a pull request's comments, with the
  two copies of the trigger pattern they use: the webhook handler, which sees
  a comment as it was written, and `fetch_pr_content`, which reads the thread
  page by page while people write, edit and delete. A body is a sequence of
  tokens: the handle, `review`, any other text, the end of a line.
* **InstallationClients**: `_gh`, `_with_auth_retry` and `_drop_cached`.
  Several callers share an installation's client; each may be refused by the
  time another has replaced it.
* **MCReviewService**, **MCReviewingService**, **MCReviewBody**,
  **MCRepoConfigLoader**, **MCCommentThread**: the instances for TLC. The other
  modules need none.
* **ReviewServiceProofs**, **ReviewRefinementProofs**, **ReviewerProofs**,
  **ReviewBodyProofs**, **RepoConfigLoaderProofs**, **FailureCooldownProofs**,
  **CommentThreadProofs**, **InstallationClientsProofs**: the theorems.

How they fit: `ReviewService` takes the pipeline from the contract that
`Reviewer` is shown to keep, and `ReviewingService` shows that nothing is lost
by that. `ReviewService` takes the authorization verdict from a loader as in
`RepoConfigLoader` (as an outcome of `LoadConfig` that may be either), whether
a comment mentions the bot as in `CommentThread` (as a field of the event) and
the cooldown as in `FailureCooldown` (as an expiry that may come at any time).
Each of these is more permissive in `ReviewService` than in the module of its
own, so the safety shown of the service does not depend on them.

## Runs

Every run is finite because its environment is: deliveries are sent at most
`MaxSends` times and the process dies at most `MaxExits` times, clocks stop at
`MaxTime`, people push, write and change `MaxPushes`, `MaxComments` and
`MaxChanges` times, GitHub refuses `MaxRefusals` times per installation.

| Run | Instance | Shows |
|---|---|---|
| `ServiceSafety` | one pull request, an `opened` and a mention, each sent up to twice, one crash, failing writes | types; locks name exactly the unfinished jobs; the worker owns its row; one job per delivery; review rows are true; statuses only advance; refinement of `ReviewQueue` |
| `ServiceTwoPRs` | an `opened`, a mention on another pull request and a draft, one crash, fairness | every pending job is taken; a review that timed out or could not be produced comes to the notification |
| `ServiceRecovery` | the pipeline in its place, up to 2 chunks and 2 attempts; a `ready_for_review`, a mention and an unparsable delivery, one crash, recovery at startup, fairness | with the pipeline in it the service is still `ReviewService`; recovery repairs what a crash leaves: no orphaned job, every lock released, so that a trigger turned away at a lock leaves a job that is pending or in the worker's hands |
| `Reviewer` | up to 3 chunks, 3 attempts (the code's value), 3 reviews an attempt | the run ends; its result is within the contract; posts and LLM requests are bounded; a draft gets no review |
| `ReviewBody` | all lists of up to 5 files of sizes 0..4, and of up to 4 with some that have no patch or are ignored, with limits of 4 files, 2 chunks, 3 characters; all replies of up to 3 lines and two of 4; a body of 6 lines | chunks keep their limits and true totals, lose no file, skip none without need, waste no prompt; the body fits and names each file with a patch that the model has not seen; each line under the last heading of its name is in it once, where it was said |
| `RepoConfigLoader` | 2 branches, a text of each kind, a TTL of 1, 2 pushes | what a load comes to was true less than a TTL before it began; only the default branch, and a base branch it named, decide |
| `FailureCooldown` | 2 pull requests, a cooldown of 2, a clock up to 1 ahead, 2 comments a call | never three failures told within a cooldown; no suppression beyond one |
| `CommentThread` | 3 comments with 3 bodies, pages of one comment, 1 edit or deletion | no command and nothing of the bot's is shown; nothing else that stayed is lost |
| `InstallationClients` | 3 callers, 2 installations, 3 refusals each | a refusal costs its installation one client, whoever's client is dropped for it |

Why the bounds are enough for the cases to happen. Two request tasks suffice
for a race, since all handlers of one pull request contend for one lock row;
two readings of the clock let creation order and id order of jobs disagree;
one crash exercises each place a crash can strike, because nothing in the
store counts crashes. In `ServiceRecovery` both triggers are of one pull
request, so that one finds the lock of the other at either of the two tests. Three callers let a refusal arrive two replacements
late. A page of one comment puts a page boundary between any two comments,
where a deletion can do harm. A TTL of one tick with time passing between any
two steps of a load lets an entry be fresh, just expired and long expired,
and two pushes let a text come back, which is what an ETag cannot see. Three
failures told on a pull request with a cooldown of 2 and 6 ticks are the fewest
that `CommentsSpaced` speaks of. Two comments a call, and three reviews an
attempt, stand for however many githubkit sends: the properties tell one from
several. In `ReviewBody` five files overflow four
places, sizes reach from nothing to more than a chunk, a heading comes twice,
and six lines are exceeded by a review with files left out. Two
attempts and two chunks let a review be posted twice, and the answers be merged,
while a crash or the author steps in. What the bounds leave open the theorems
cover.

What the properties do not say is as much part of them. `FailedReviewIsNotified`
is about the step to the notification, which may then be suppressed or fail.
`DraftsAreNotReviewed` is about a pull request that is a draft all along.
`CallsBounded` counts requests, not the time they take. `ReviewRowsTruthful`
lets a review be on GitHub and not on record. `NoFeedback` is about commands
that nobody edited after the handler took them, and `NothingLost` allows for the
one comment that a deletion moves out of the reader's sight. `CommentsSpaced`
counts failures told, not comments: githubkit may make several of one.

`ServiceSafety` runs without the deadlock check: with failing writes the worker
may be dead while the bounds on deliveries and crashes are used up, and then
the bounded system has nothing left to do. In all other passing runs TLC also
checks that the system never stops before its end.

Three runs end in a violation on purpose. Each checks what a comment or the
README says and shows that the code does something else:

| Run | Expectation | What happens |
|---|---|---|
| `ServiceOrphan` | `recovery.py:17`, orphaned running jobs are failed at startup | nothing calls it: the job stays running, its lock blocks the pull request for ever |
| `ServiceRedelivery` | `README.md:108`, Redeliver replays any event | the id is recorded before the event is handled, so an event whose handling failed is dropped as a duplicate |
| `ReviewerFailures` | `reviewer.py:177`, GitHub failures surface as an early result | reading the pull request happens outside the `try`: the failure is raised, and recorded as one of the LLM |

Some more of the kind are in the models and need no run, because a single
action shows them:

* `failure.py:26` says that the notification never raises, but the slot is
  claimed outside its `try` (`failure.py:29`): a storage error there ends the
  worker task (`WorkerStorageError`).
* `README.md:123` says that failures surface as a failure comment, but a review
  that GitHub did not take fails without a message (`reviewer.py:152`), hence
  without a comment; `FailedReviewIsNotified` leaves that reason out.
* `triggers.py:7` says that the extra context is on the same line as the
  command, but `\s*` crosses the end of a line: a bare command takes the next
  line with it (`ExtraContext`).
* `enabled: false` stops comment triggers only; `on_pull_request` and the
  pipeline do not look at it.
* `max_conversation_chars` and `max_concurrent_reviews` are read by nothing.
* Files without a patch, and those the repository ignores, are dropped before
  packing (`reviewer.py:393`) and named nowhere; `NothingIsHidden` leaves out
  these and no others.
* The sections of a reply are what the last heading of each name makes of them:
  what precedes the first heading, or stands under one that comes again, is
  lost, and a reply of bare headings makes an empty review. `ReplyIsKept`
  says what is kept, and allows that.
* A client that was refused on a second attempt, or on a page, stays cached and
  is handed out next (`GiveUp`).
* The list of files left out comes after the review, so it is the first thing
  a cut takes; `NothingIsHidden` says that a cut body says that it was cut.

## Fairness

`FairSpec` assumes weak fairness of each request's steps, of the worker and of
starting, binding and stopping. The code earns it: every await in a handler is
a GitHub call with a 30 s timeout or an SQLite statement with a busy timeout;
the review runs under `wait_for`; the worker's sleep between polls is bounded;
a supervisor restarts the process. Nothing is assumed of GitHub's deliveries,
of crashes, of the cooldown's clock, or of how a review ends.
`ReviewingFairSpec` assumes the same of the service around the pipeline, and of
the pipeline only that it takes a step or is cancelled as long as it can.
`ReviewerFairSpec` assumes only that a call the pipeline awaits comes back, one
way or another; it gives the timeout no fairness, so `Terminates` says that
the retry loops end by themselves. The other specifications state no fairness;
their properties are about what may never happen.

## Proofs

All theorems hold for every value of the constants, under the named
assumptions beside their declarations: the values for "none" are none of the
others, event records, texts and bodies are well-formed, clock readings,
bounds and limits are numbers, and limits, the TTL and the page size are
positive (`ge=1` in `PipelineConfig`, constants elsewhere).

* **ReviewServiceProofs**. The six properties of `ServiceSafety` do not hold by
  themselves from step to step: that a new job breaks nothing depends on its
  delivery being new to the table, that a review row is true depends on the
  result the worker carries. `IInv` adds what is missing: a request under way
  handles a recorded delivery of its own from which no job has come
  (`RequestsAreFresh`), a result about to be persisted is one the review
  could end with (`ResultIsPossible`), and the worker is off exactly while
  the process is down, dies only of a storage fault, and requests are under
  way only while the process is up (`ProcessAgrees`). The proof has one lemma for each group
  of actions, and lemmas on the storage operators that say what an insert, an
  update or a release does to each row. `MarkRunning` needs no guard on the
  status precisely because `WorkerOwnsItsJob` is part of the invariant.
  `StatusesAdvance` is an action property, from the same invariant.
  `RecoveryLeavesNoOrphan` is conditional on `RecoverAtStartup`: it is what the
  code would gain by calling `recover_on_startup`, and `ServiceOrphan` shows
  that it has not got it. `AcceptedTriggersAreServed` rests on it and needs
  `~StorageFaults` besides: the job that holds the lock is then never one that
  a restart, or a worker a query has killed, has left behind.
* **ReviewRefinementProofs**: each step of the service is a step of
  `ReviewQueue` or leaves tickets and records alone, given `IInv` before and
  after. The interesting cases are `Enqueue` (the lock implies no open ticket),
  `MarkRunning` (no other ticket is under review, because the worker holds one
  job at a time and what a crash left is orphaned), the steps that take the
  worker away (`Orphan`) and recovery at startup (`Abandon`). `PipelineInPlace` is the second refinement: each step
  of `ReviewingService` is one of `ReviewService` or none. It rests on the
  invariants of both sides and on what ties them (`ReviewingInv`): while a run
  is under way its job is in `ghReviews` just if `posted` is positive, a
  raised or cancelled run carries the result `_process` makes of it, and a job
  in `ghReviews` has been claimed, so that the next run starts with nothing
  posted. The first review a run posts is `PostReview`, a second one is
  nothing, and `RunEnds` is `ReviewReturns` because of
  `ReturnsWithinContract`. `StillAQueue` puts the two refinements together.
* **ReviewerProofs**: `ReviewerInv` says of each place in the pipeline what has
  been done so far (nothing posted before the post; no more reviews than the
  attempts so far can have made; LLM requests within the budget of the chunks answered).
  From it: `ReturnsWithinContract`, which is the premise of the service's
  model, `PostsBounded` and `CallsBounded`. `DraftsAreLeftAlone` has an
  invariant of its own, under the assumption that the pull request is a draft
  all along. `RunsAreBounded` gives a measure, `AwaitsLeft`, which every await
  of a run decreases and nothing increases: the half of `Terminates` that does
  not need fairness.
* **ReviewBodyProofs**, on `Chunking` and on `ReviewBody` as a whole. The
  packing: the limits, `EveryFileAccountedFor`, `SkippedForAReason`,
  `NoTwoChunksFitInOne` and `NothingPackedNothingFits` are inductive together
  (`PackInv`) because chunks only grow; `TotalsAreTrue` is inductive beside it,
  with lemmas on the sum over a set of files (`AddedUp`, `TotalOf`): that it
  exists, what no file and what one more file come to. Where a sum wants
  induction, the proof takes the least index at which the claim would fail
  (`LeastOf`) and shows that it does not fail there. `BodyRefinesPacking`
  carries all of this over: every step of `ReviewBody` is one of `Chunking` or
  leaves the packing alone. The files that are packed are those of the listing
  that are eligible, numbered in order: `Rank` counts them up to a place, so
  that no two have the same number and none is left out (`RankFacts`).

  What is posted: `NothingIsHidden` and `ReplyIsKept` speak of the one step that
  writes the body, and need no more of the invariant (`BodyInv`) than which
  chunks were answered and that a reply is a list of lines. For
  `NothingIsHidden`, the files left out are listed by `Place`, which counts
  those before: it is one-to-one and leaves no gap, so a list that was not cut
  names each of them.
  For `ReplyIsKept`, the sections follow each other in the body in a fixed
  order; the lines of the reply that are kept and the lines of text in the body
  correspond one to one, under the same headings.
* **RepoConfigLoaderProofs**. `LoaderInv` dates everything: a cache entry's text
  was on its branch at the entry's date or later, its ETag is that text's
  (`EntriesAreTrue`), and what the load has learned so far is recent
  (`LoadIsRecent`). A revalidation keeps the old text under a new date, and is
  true because a 304 says that GitHub saw that text after the new date.
  `ResultIsRecent` and `OnlyTrustedBranches` are conjuncts of it.
* **FailureCooldownProofs**. `CooldownInv` adds that the row is the wall clock's
  reading of a known moment (`RowsAreTrue`) and that between the comments on
  two failures of a pull request a slot was taken (`CallIsTrue`): after the
  first failure was told and before the second was, however many comments
  either got. Hence three failures told, not two, span a cooldown.
* **CommentThreadProofs**. `ThreadInv` adds that what the handler took is a
  command, that what is shown is none, and that what the reader has not
  collected is on a later page. That the two copies of the pattern agree is
  where `NoFeedback` needs it.
* **InstallationClientsProofs**. `ClientsInv`: the cached client is the newest
  there is, one more was made than attempts were refused, no call holds a
  newer one. So the next client is new to everybody, and each refusal that is
  retried makes exactly one.

Model-checked only: everything under fairness (`PendingEventuallyTaken`,
`LockEventuallyFree`, `FailedReviewIsNotified`, `Terminates`), which is out of
the prover's reach. `NoOrphanedRunning` and `AcceptedMeansUnderWay` are proved where
`RecoverAtStartup` holds, the second also only without storage faults: where
they do not, neither is true.

## Not modelled

* Wording: prompts, the text of comments and footers, log lines. Of the
  prompt, only whether the conversation is in it (`CommentThread`); of the
  body, only its parts and their order (`ReviewBody`).
* Operator configuration and logging are read once at startup; the limits they
  set are constants of the modules.
* The dry run is a command of its own that calls `prepare` and prints; it
  shares no state with the service. Its single client from a token has no
  other caller.
* Migrations run before anything else and leave the empty tables that are the
  initial state; Alembic is third-party. The LLM probe at startup only logs.
* The signature check is a rejection that may happen.
* `attempts`, `error` and the timestamps other than `created_at` are written
  and never read, and `increment_job_attempts` and the list queries of the
  store are never called.
* Whether a new client brings a new token is up to githubkit, whose token
  cache all clients share (`github_client.py:39`, `:269`).
* The pull request's head moves while it is reviewed, and `reviews_posted`
  records the head seen when the job was enqueued; heads are not modelled.

## Plan

1. Heads in `Reviewer` and `ReviewService`: what was reviewed against what is
   recorded, with pushes during a review.
2. `FailureCooldown` as a refinement of the slot and expiry of `ReviewService`.
   A row that has expired may be in force again after a crash and a clock set
   back, so the mapping needs a variable that says which rows a call has found
   expired.
