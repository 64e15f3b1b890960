---------------------------- MODULE FailureCooldown ----------------------------
(***************************************************************************)
(* FailureCooldown (storage/failures.py, pipeline/failure.py): when a      *)
(* failure is told to the author of a pull request and when it is          *)
(* suppressed, in real time, although all the code has is a wall clock     *)
(* that may be set forward and back.                                       *)
(*                                                                         *)
(* The single worker notifies of one failure after another.  It reads the  *)
(* clock, reads the row, writes it, and only then posts; each of these may *)
(* take a while, and the process may die in between.  One create_comment   *)
(* may put several comments up, for the client below it sends a request    *)
(* again that failed with a 5xx (test_5xx_raises_transient_error says so)  *)
(* and repeats the call after a 401.  ReviewService abstracts all of this  *)
(* into a slot that expires.                                               *)
(***************************************************************************)
EXTENDS Naturals

CONSTANTS
  PRs,        \* pull requests
  Cooldown,   \* failure_comment_cooldown_seconds
  MaxSkew,    \* the wall clock is 0 to MaxSkew ahead of real time
  MaxTime,    \* bound on real time
  CommentsPerCall   \* comments the requests of one create_comment may make

ASSUME CooldownAssumption ==
  /\ Cooldown \in Nat /\ MaxSkew \in Nat /\ MaxTime \in Nat
  /\ CommentsPerCall \in Nat

VARIABLES
  time,     \* real time
  skew,     \* how far utcnow() is ahead of it
  row,      \* failure_cooldowns: last_posted_at of each pull request
  pc,       \* where maybe_post_failure_comment is
  call,     \* its pull request, the `now` it read and when it read it, and
            \* the comments its create_comment has made so far
  told,     \* history: when the last comment of each of the last three
            \* failures told reached a pull request
  took      \* history: when the `now` of the row was read

cooldownVars == <<time, skew, row, pc, call, told, took>>

Never == 0    \* and no row, and no comment: time starts at 1
Clock == time + skew

Comments == [first : Nat, second : Nat, third : Nat]   \* the last three
Calls == [pr : PRs, now : Nat, began : Nat, comments : 0 .. CommentsPerCall]

CooldownTypeOK ==
  /\ time \in Nat /\ skew \in 0 .. MaxSkew
  /\ row \in [PRs -> Nat]
  /\ pc \in {"idle", "select", "suppressed", "upsert", "post"}
  /\ call \in Calls
  /\ told \in [PRs -> Comments]
  /\ took \in [PRs -> Nat]

CooldownInit ==
  /\ time = 1 /\ skew \in 0 .. MaxSkew
  /\ row = [p \in PRs |-> Never]
  /\ pc = "idle"
  /\ call \in [pr : PRs, now : {Never}, began : {Never}, comments : {0}]
  /\ told = [p \in PRs |-> [first |-> Never, second |-> Never,
                        third |-> Never]]
  /\ took = [p \in PRs |-> Never]

-----------------------------------------------------------------------------
Tick ==
  /\ time < MaxTime
  /\ time' = time + 1
  /\ UNCHANGED <<skew, row, pc, call, told, took>>

\* Somebody, or NTP, sets the clock.
SetClock(s) ==
  /\ skew' = s
  /\ UNCHANGED <<time, row, pc, call, told, took>>

\* claim_failure_slot: now = utcnow()
Notify(p) ==
  /\ pc = "idle"
  /\ pc' = "select"
  /\ call' = [pr |-> p, now |-> Clock, began |-> time, comments |-> 0]
  /\ UNCHANGED <<time, skew, row, told, took>>

\* Mutant of InForce: a cooldown that has just run out counts.
Mutant_InForceInclusive(last, now) == last # Never /\ last + Cooldown >= now

\* existing is not None and existing.last_posted_at > cutoff
InForce(last, now) == last # Never /\ last + Cooldown > now

\* claim_failure_slot: the SELECT and the verdict.
SelectRow ==
  /\ pc = "select"
  /\ pc' = IF InForce(row[call.pr], call.now) THEN "suppressed" ELSE "upsert"
  /\ UNCHANGED <<time, skew, row, call, told, took>>

\* Mutants of Upserted: an existing row is left as it is; the cutoff is
\* stored.
Mutant_KeepOldStamp(last, now) == IF last = Never THEN now ELSE last
Mutant_StoreCutoff(last, now) == now - Cooldown

\* The upsert: last_posted_at in either case.
Upserted(last, now) == now

UpsertRow ==
  /\ pc = "upsert"
  /\ pc' = "post"
  /\ row' = [row EXCEPT ![call.pr] = Upserted(@, call.now)]
  /\ took' = [took EXCEPT ![call.pr] = call.began]
  /\ UNCHANGED <<time, skew, call, told>>

\* maybe_post_failure_comment returns; its locals are gone.
Return ==
  /\ pc' = "idle"
  /\ call' = [pr |-> call.pr, now |-> Never, began |-> Never, comments |-> 0]

\* The cooldown is still in force.
Suppress ==
  /\ pc = "suppressed"
  /\ Return
  /\ UNCHANGED <<time, skew, row, told, took>>

\* The comments of a pull request after one more at t, from a call that has
\* told it of its failure already or not.
AfterComment(c, again, t) ==
  IF again THEN [c EXCEPT !.third = t]
           ELSE [first |-> c.second, second |-> c.third, third |-> t]

\* A request of create_comment makes the comment, whether or not the answer
\* arrives.
CommentMade ==
  /\ pc = "post"
  /\ call.comments < CommentsPerCall
  /\ told' = [told EXCEPT ![call.pr] =
                 AfterComment(@, call.comments > 0, time)]
  /\ call' = [call EXCEPT !.comments = @ + 1]
  /\ UNCHANGED <<time, skew, row, pc, took>>

\* create_comment returns, or raises, which is swallowed: none, one or
\* several comments are there.
PostComment ==
  /\ pc = "post"
  /\ Return
  /\ UNCHANGED <<time, skew, row, told, took>>

\* The process dies and is started again; the table survives.
Die ==
  /\ pc # "idle"
  /\ Return
  /\ UNCHANGED <<time, skew, row, told, took>>

CooldownNext ==
  \/ Tick
  \/ \E s \in 0 .. MaxSkew : SetClock(s)
  \/ \E p \in PRs : Notify(p)
  \/ SelectRow \/ Suppress \/ UpsertRow \/ CommentMade \/ PostComment
  \/ Die

CooldownSpec == CooldownInit /\ [][CooldownNext]_cooldownVars

-----------------------------------------------------------------------------
(* Correctness.                                                            *)

\* No pull request hears of more than two failures within a cooldown, less
\* what the clock may be off: a comment may be late, so two may come close
\* together, but the slot of the second was taken after the first was there,
\* and the slot of the third a cooldown after that.  Of each failure it may
\* hear more than once, and at any time until the call returns.
CommentsSpaced ==
  \A p \in PRs :
    told[p].first # Never =>
      told[p].first + Cooldown <= told[p].third + MaxSkew

\* A failure is suppressed only within a cooldown of the moment the slot was
\* taken, plus what the clock may have been set back: no clock change, crash
\* or failed post silences a pull request for longer.
SilenceEnds ==
  pc = "suppressed" => call.began < took[call.pr] + Cooldown + MaxSkew

\* What makes the two inductive: the row is the wall clock's reading of the
\* moment took; what a pull request was told of last but one came before the
\* slot was last taken, and what it was told of last before the failure now
\* being told, until that is.
RowsAreTrue ==
  \A p \in PRs :
    /\ row[p] = Never <=> took[p] = Never
    /\ took[p] <= row[p] /\ row[p] <= took[p] + MaxSkew
    /\ told[p].second <= took[p]
    /\ told[p].second <= told[p].third /\ told[p].third <= time
CallIsTrue ==
  pc # "idle" =>
    /\ 1 <= call.began /\ call.began <= time
    /\ call.began <= call.now /\ call.now <= call.began + MaxSkew
    /\ call.comments = 0 => told[call.pr].third <= call.began
    /\ pc # "post" => call.comments = 0
    /\ pc = "upsert" => ~InForce(row[call.pr], call.now)
    /\ pc = "post" =>
         /\ took[call.pr] = call.began
         /\ call.comments = 0 /\ told[call.pr].second # Never =>
              told[call.pr].second + Cooldown <= call.began + MaxSkew
CooldownInv ==
  /\ CooldownTypeOK /\ 1 <= time
  /\ RowsAreTrue /\ CallIsTrue
  /\ CommentsSpaced /\ SilenceEnds

=============================================================================
