------------------------------- MODULE Storage -------------------------------
(***************************************************************************)
(* The SQLite store (src/vidi_pr/storage): each operation is a function    *)
(* from the tables it writes to their new contents.                        *)
(*                                                                         *)
(*   jobs        the jobs table; the row with id j is jobs[j]              *)
(*   locks       pr_locks, keyed by pull request; NoJob where no row       *)
(*   deliveries  webhook_deliveries                                        *)
(*   reviews     reviews_posted, in insertion order                        *)
(*                                                                         *)
(* A pull request stands for a (repo, pr_number) pair.  SQLite lets one    *)
(* connection write at a time and shows nobody an uncommitted row, so a    *)
(* write transaction takes effect in one step, at its commit.              *)
(***************************************************************************)
EXTENDS ReviewModel, Naturals, Sequences

CONSTANTS
  PRs,          \* pull requests
  Deliveries    \* X-GitHub-Delivery ids

\* No row in pr_locks (row ids start at 1).
NoJob == 0

\* A jobs row.  created_at is the logical time of utcnow(); origin is the
\* delivery whose handler inserted the row (history, not a column).
JobRows == [pr : PRs, trigger : TriggerKinds, status : JobStatuses,
            detail : StatusDetails, created_at : Nat, origin : Deliveries]

ReviewRows == [job : Nat, pr : PRs]

\* jobs.insert_job
InsertJob(js, p, kind, now, d) ==
  Append(js, [pr |-> p, trigger |-> kind, status |-> "pending",
              detail |-> "none", created_at |-> now, origin |-> d])

\* Mutant of UpdateJobStatus: the two columns swapped.
Mutant_SwapColumns(js, j, s, det) ==
  [js EXCEPT ![j] = [@ EXCEPT !.status = det, !.detail = s]]

\* jobs.update_job_status: by primary key, whatever the row's status is.
UpdateJobStatus(js, j, s, det) ==
  [js EXCEPT ![j] = [@ EXCEPT !.status = s, !.detail = det]]

\* locks.fetch_lock, seen as "is there a row".
LockHeld(lks, p) == lks[p] # NoJob

\* locks.acquire_lock: INSERT ... ON CONFLICT DO NOTHING.
AcquireLock(lks, p, j) ==
  IF LockHeld(lks, p) THEN lks ELSE [lks EXCEPT ![p] = j]

\* locks.release_lock: by pull request, whichever job the row names.
ReleaseLock(lks, p) == [lks EXCEPT ![p] = NoJob]

\* Mutant of ClearStaleLocks: the DELETE is missing.
Mutant_KeepStaleLocks(js, lks) == lks

\* locks.clear_stale_locks, and the same statement in recover_on_startup.
ClearStaleLocks(js, lks) ==
  [p \in PRs |-> IF LockHeld(lks, p) /\ js[lks[p]].status \in TerminalStatuses
                   THEN NoJob ELSE lks[p]]

\* Mutant of FailRunning: the UPDATE matches the pending rows.
Mutant_FailPending(js) ==
  [j \in DOMAIN js |->
     IF js[j].status = "pending"
       THEN [js[j] EXCEPT !.status = "failed",
                          !.detail = "interrupted_by_restart"]
       ELSE js[j]]

\* recovery.recover_on_startup: its first statement.
FailRunning(js) ==
  [j \in DOMAIN js |->
     IF js[j].status = "running"
       THEN [js[j] EXCEPT !.status = "failed",
                          !.detail = "interrupted_by_restart"]
       ELSE js[j]]

\* reviews.record_review_posted
RecordReviewPosted(rs, j, p) == Append(rs, [job |-> j, pr |-> p])

\* Mutants of Pending: running rows, or failed rows too, are up for a claim.
Mutant_ClaimActive(js) ==
  {j \in DOMAIN js : js[j].status \in ActiveStatuses}
Mutant_ClaimFailed(js) ==
  {j \in DOMAIN js : js[j].status \in {"pending", "failed"}}

\* The ids of the pending jobs.
Pending(js) == {j \in DOMAIN js : js[j].status = "pending"}

\* ORDER BY created_at, id
Before(js, i, j) ==
  \/ js[i].created_at < js[j].created_at
  \/ js[i].created_at = js[j].created_at /\ i < j

=============================================================================
