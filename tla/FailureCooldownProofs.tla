------------------------- MODULE FailureCooldownProofs -------------------------
(***************************************************************************)
(* Proofs about FailureCooldown: for any cooldown, any clock error and any *)
(* number of comments that one call may make, a pull request is told of no *)
(* more than two failures within a cooldown less that error, and is not    *)
(* silenced beyond a cooldown plus it.                                     *)
(*                                                                         *)
(* The inductive invariant is CooldownInv: it relates each reading of the  *)
(* wall clock to the real time of the reading, and orders comments and     *)
(* slots of one pull request.                                              *)
(***************************************************************************)
EXTENDS FailureCooldown, TLAPS

\* The types the arithmetic below needs.
LEMMA Numbers ==
  ASSUME CooldownTypeOK
  PROVE  /\ time \in Nat /\ skew \in Nat /\ skew <= MaxSkew
         /\ Cooldown \in Nat /\ MaxSkew \in Nat
         /\ call.pr \in PRs /\ call.now \in Nat /\ call.began \in Nat
         /\ call.comments \in 0 .. CommentsPerCall /\ call.comments \in Nat
         /\ CommentsPerCall \in Nat /\ 0 \in 0 .. CommentsPerCall
         /\ \A p \in PRs :
              /\ row[p] \in Nat /\ took[p] \in Nat
              /\ told[p].first \in Nat /\ told[p].second \in Nat
              /\ told[p].third \in Nat
BY CooldownAssumption DEF CooldownTypeOK, Calls, Comments

\* Nothing has happened yet.
LEMMA CooldownInitInv == CooldownInit => CooldownInv
<1> SUFFICES ASSUME CooldownInit PROVE CooldownInv
  OBVIOUS
<1>1. CooldownTypeOK
  BY CooldownAssumption
  DEF CooldownInit, CooldownTypeOK, Comments, Calls, Never
<1>2. RowsAreTrue /\ CommentsSpaced
  BY CooldownAssumption
  DEF CooldownInit, RowsAreTrue, CommentsSpaced, Never
<1> QED
  BY <1>1, <1>2 DEF CooldownInit, CooldownInv, CallIsTrue, SilenceEnds

\* Time passes, and the clock is set: rows and calls keep their readings.
LEMMA ClockInv ==
  ASSUME CooldownInv, Tick \/ \E s \in 0 .. MaxSkew : SetClock(s)
  PROVE  CooldownInv'
<1>1. /\ UNCHANGED <<row, pc, call, told, took>>
      /\ time' \in Nat /\ time <= time' /\ skew' \in 0 .. MaxSkew
  BY DEF CooldownInv, CooldownTypeOK, Tick, SetClock
<1>2. CooldownTypeOK'
  BY <1>1 DEF CooldownInv, CooldownTypeOK
<1>3. CooldownTypeOK /\ 1 <= time
  BY DEF CooldownInv
<1>4. RowsAreTrue'
  BY <1>1, <1>3, Numbers DEF CooldownInv, RowsAreTrue
<1>5. CallIsTrue'
  BY <1>1, <1>3, Numbers DEF CooldownInv, CallIsTrue
<1>6. CommentsSpaced' /\ SilenceEnds'
  BY <1>1 DEF CooldownInv, CommentsSpaced, SilenceEnds
<1> QED
  BY <1>1, <1>2, <1>3, <1>4, <1>5, <1>6, Numbers DEF CooldownInv

\* A call reads the clock.
LEMMA NotifyInv ==
  ASSUME CooldownInv, NEW p \in PRs, Notify(p)
  PROVE  CooldownInv'
<1>1. /\ UNCHANGED <<time, skew, row, told, took>>
      /\ pc' = "select"
      /\ call' = [pr |-> p, now |-> time + skew, began |-> time,
                  comments |-> 0]
  BY DEF Notify, Clock
<1>2. CooldownTypeOK /\ RowsAreTrue /\ 1 <= time
  BY DEF CooldownInv
<1>3. CooldownTypeOK'
  BY <1>1, <1>2, Numbers DEF CooldownTypeOK, Calls
<1>4. CallIsTrue'
  BY <1>1, <1>2, Numbers DEF CallIsTrue, RowsAreTrue
<1> QED
  BY <1>1, <1>2, <1>3, <1>4
  DEF CooldownInv, RowsAreTrue, CommentsSpaced, SilenceEnds

\* The verdict: in force means the slot was taken recently, by the clock and
\* so, give or take its error, in fact.
LEMMA SelectInv ==
  ASSUME CooldownInv, SelectRow
  PROVE  CooldownInv'
<1>1. /\ UNCHANGED <<time, skew, row, call, told, took>>
      /\ pc = "select"
      /\ pc' = IF InForce(row[call.pr], call.now) THEN "suppressed"
                                                  ELSE "upsert"
  BY DEF SelectRow
<1>2. CooldownTypeOK /\ RowsAreTrue /\ CallIsTrue
  BY DEF CooldownInv
<1>3. CooldownTypeOK'
  BY <1>1, <1>2 DEF CooldownTypeOK
<1>4. CallIsTrue'
  BY <1>1, <1>2 DEF CallIsTrue, InForce
<1>5. SilenceEnds'
  <2>1. SUFFICES ASSUME InForce(row[call.pr], call.now)
                 PROVE  call.began < took[call.pr] + Cooldown + MaxSkew
    BY <1>1 DEF SilenceEnds
  <2>2. call.now < row[call.pr] + Cooldown
    BY <1>2, <2>1, Numbers DEF InForce
  <2>3. call.began <= call.now /\ row[call.pr] <= took[call.pr] + MaxSkew
    BY <1>1, <1>2, Numbers DEF CallIsTrue, RowsAreTrue
  <2> QED
    BY <1>2, <2>2, <2>3, Numbers
<1> QED
  BY <1>1, <1>2, <1>3, <1>4, <1>5
  DEF CooldownInv, RowsAreTrue, CommentsSpaced

\* The slot is taken: the comment before was posted no later than the old
\* slot, so a cooldown lies between it and the comment to come.
LEMMA UpsertInv ==
  ASSUME CooldownInv, UpsertRow
  PROVE  CooldownInv'
<1> DEFINE p == call.pr
<1>1. /\ UNCHANGED <<time, skew, call, told>>
      /\ pc = "upsert" /\ pc' = "post"
      /\ row' = [row EXCEPT ![p] = call.now]
      /\ took' = [took EXCEPT ![p] = call.began]
  BY DEF UpsertRow, Upserted
<1>2. CooldownTypeOK /\ RowsAreTrue /\ CallIsTrue /\ p \in PRs
  BY Numbers DEF CooldownInv
<1>3. /\ 1 <= call.began /\ call.began <= time
      /\ call.began <= call.now /\ call.now <= call.began + MaxSkew
      /\ told[p].third <= call.began /\ call.comments = 0
      /\ ~InForce(row[p], call.now)
  BY <1>1, <1>2 DEF CallIsTrue
<1>4. CooldownTypeOK'
  BY <1>1, <1>2, Numbers DEF CooldownTypeOK
<1>5. \A q \in PRs : /\ row'[q] = IF q = p THEN call.now ELSE row[q]
                     /\ took'[q] = IF q = p THEN call.began ELSE took[q]
  BY <1>1, <1>2 DEF CooldownTypeOK
<1>6. told[p].second <= told[p].third /\ told[p].second <= took[p]
  BY <1>2 DEF RowsAreTrue
<1>7. RowsAreTrue'
  <2> SUFFICES ASSUME NEW q \in PRs
               PROVE  (/\ row[q] = Never <=> took[q] = Never
                       /\ took[q] <= row[q] /\ row[q] <= took[q] + MaxSkew
                       /\ told[q].second <= took[q]
                       /\ told[q].second <= told[q].third
                       /\ told[q].third <= time)'
    BY DEF RowsAreTrue
  <2>1. CASE q = p
    <3>1. row'[q] = call.now /\ took'[q] = call.began /\ told[p].third <= time
      BY <1>2, <1>5, <2>1 DEF RowsAreTrue
    <3> QED
      BY <1>1, <1>2, <1>3, <1>6, <2>1, <3>1, Numbers DEF Never
  <2>2. CASE q # p
    BY <1>1, <1>2, <1>5, <2>2 DEF RowsAreTrue
  <2> QED
    BY <2>1, <2>2
<1>8. told[p].second # Never =>
        told[p].second + Cooldown <= call.began + MaxSkew
  <2> SUFFICES ASSUME told[p].second # Never
               PROVE  told[p].second + Cooldown <= call.began + MaxSkew
    OBVIOUS
  <2>1. row[p] # Never
    BY <1>2, <1>6, Numbers DEF RowsAreTrue, Never
  <2>2. row[p] + Cooldown <= call.now
    BY <1>2, <1>3, <2>1, Numbers DEF InForce
  <2>3. told[p].second <= row[p]
    BY <1>2, <1>6, Numbers DEF RowsAreTrue
  <2> QED
    BY <1>2, <1>3, <2>2, <2>3, Numbers
<1>9. CallIsTrue'
  BY <1>1, <1>2, <1>3, <1>5, <1>8 DEF CallIsTrue
<1> QED
  BY <1>1, <1>4, <1>7, <1>9 DEF CooldownInv, CommentsSpaced, SilenceEnds

\* A return forgets the call.
LEMMA ReturnInv ==
  ASSUME CooldownInv, Return, UNCHANGED <<time, skew, row, told, took>>
  PROVE  CooldownInv'
<1>1. /\ pc' = "idle"
      /\ call' = [pr |-> call.pr, now |-> Never, began |-> Never,
                  comments |-> 0]
  BY DEF Return
<1>2. CooldownTypeOK'
  BY <1>1, Numbers DEF CooldownInv, CooldownTypeOK, Calls, Never
<1> QED
  BY <1>1, <1>2
  DEF CooldownInv, RowsAreTrue, CallIsTrue, CommentsSpaced, SilenceEnds

\* A comment arrives.  The first of its call moves the last two up, and the
\* first of the three is the one that came before the slot of the second; one
\* more of the same call only moves the third.
LEMMA CommentInv ==
  ASSUME CooldownInv, CommentMade
  PROVE  CooldownInv'
<1> DEFINE p == call.pr
           again == call.comments > 0
           three == AfterComment(told[p], again, time)
<1>1. /\ pc = "post" /\ UNCHANGED <<time, skew, row, pc, took>>
      /\ call.comments < CommentsPerCall
      /\ told' = [told EXCEPT ![p] = three]
      /\ call' = [call EXCEPT !.comments = @ + 1]
  BY DEF CommentMade
<1>2. /\ CooldownTypeOK /\ RowsAreTrue /\ CallIsTrue /\ p \in PRs
      /\ CommentsSpaced
  BY Numbers DEF CooldownInv
<1>3. \A q \in PRs : told'[q] = IF q = p THEN three ELSE told[q]
  BY <1>1, <1>2 DEF CooldownTypeOK
<1>4. /\ call'.pr = p /\ call'.now = call.now /\ call'.began = call.began
      /\ call'.comments = call.comments + 1
  BY <1>1, <1>2 DEF CooldownTypeOK, Calls
<1>5. /\ three.third = time
      /\ again => three.first = told[p].first /\ three.second = told[p].second
      /\ ~again => three.first = told[p].second /\ three.second = told[p].third
      /\ three \in Comments
  <2>1. told[p] \in Comments /\ time \in Nat
    BY <1>2, Numbers DEF CooldownTypeOK
  <2> QED
    BY <2>1 DEF AfterComment, Comments
<1> HIDE DEF three
<1>6. CooldownTypeOK'
  <2>1. told' \in [PRs -> Comments]
    BY <1>1, <1>2, <1>5 DEF CooldownTypeOK
  <2>2. call.comments + 1 \in 0 .. CommentsPerCall
    BY <1>1, <1>2, Numbers
  <2>3. call' \in Calls
    BY <1>1, <1>2, <2>2 DEF CooldownTypeOK, Calls
  <2> QED
    BY <1>1, <1>2, <2>1, <2>3 DEF CooldownTypeOK
<1>7. /\ call.began <= time /\ took[p] = call.began
      /\ ~again => told[p].third <= call.began
      /\ ~again /\ told[p].second # Never =>
           told[p].second + Cooldown <= call.began + MaxSkew
  BY <1>1, <1>2, Numbers DEF CallIsTrue
<1>8. /\ told[p].second <= took[p] /\ told[p].second <= told[p].third
      /\ told[p].third <= time
      /\ told[p].first # Never =>
           told[p].first + Cooldown <= told[p].third + MaxSkew
  BY <1>2 DEF RowsAreTrue, CommentsSpaced
<1>9. /\ three.second <= took[p] /\ three.second <= time
      /\ three.first # Never => three.first + Cooldown <= time + MaxSkew
  BY <1>2, <1>5, <1>7, <1>8, Numbers
<1>10. RowsAreTrue'
  BY <1>1, <1>2, <1>3, <1>5, <1>9, Numbers DEF RowsAreTrue
<1>11. CommentsSpaced'
  BY <1>2, <1>3, <1>5, <1>9 DEF CommentsSpaced
<1>12. CallIsTrue'
  <2>1. call'.comments # 0
    BY <1>2, <1>4, Numbers
  <2> QED
    BY <1>1, <1>2, <1>4, <2>1 DEF CallIsTrue
<1>13. SilenceEnds'
  BY <1>1 DEF SilenceEnds
<1> QED
  BY <1>1, <1>2, <1>6, <1>10, <1>11, <1>12, <1>13 DEF CooldownInv

-----------------------------------------------------------------------------
\* The invariant, step by step.
LEMMA CooldownNextInv ==
  CooldownInv /\ [CooldownNext]_cooldownVars => CooldownInv'
<1> SUFFICES ASSUME CooldownInv, [CooldownNext]_cooldownVars
             PROVE  CooldownInv'
  OBVIOUS
<1>1. CASE Tick \/ \E s \in 0 .. MaxSkew : SetClock(s)
  BY <1>1, ClockInv
<1>2. CASE \E p \in PRs : Notify(p)
  BY <1>2, NotifyInv
<1>3. CASE SelectRow \/ UpsertRow \/ CommentMade
  BY <1>3, SelectInv, UpsertInv, CommentInv
<1>4. CASE Suppress \/ PostComment \/ Die
  BY <1>4, ReturnInv DEF Suppress, PostComment, Die
<1>5. CASE UNCHANGED cooldownVars
  BY <1>5 DEF cooldownVars, CooldownInv, CooldownTypeOK, RowsAreTrue,
     CallIsTrue, CommentsSpaced, SilenceEnds
<1> QED
  BY <1>1, <1>2, <1>3, <1>4, <1>5 DEF CooldownNext

\* FailureCooldown keeps its invariant, in every execution.
THEOREM CooldownInvariance == CooldownSpec => []CooldownInv
<1> QED
  BY CooldownInitInv, CooldownNextInv, PTL DEF CooldownSpec

\* maybe_post_failure_comment tells a pull request of at most two failures
\* within a cooldown, less the error of the clock, however many comments the
\* requests of one call make.
THEOREM AtMostTwoPerCooldown == CooldownSpec => []CommentsSpaced
<1>1. CooldownInv => CommentsSpaced
  BY DEF CooldownInv
<1> QED
  BY <1>1, CooldownInvariance, PTL

\* claim_failure_slot suppresses a failure only within a cooldown of the
\* moment the slot was taken, plus the error of the clock.
THEOREM NoLongerSilence == CooldownSpec => []SilenceEnds
<1>1. CooldownInv => SilenceEnds
  BY DEF CooldownInv
<1> QED
  BY <1>1, CooldownInvariance, PTL

\* The cooldown's state keeps its type, the dates of its rows included.
THEOREM CooldownTypes == CooldownSpec => []CooldownTypeOK
<1>1. CooldownInv => CooldownTypeOK
  BY DEF CooldownInv
<1> QED
  BY <1>1, CooldownInvariance, PTL

=============================================================================
