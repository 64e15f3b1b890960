--------------------------- MODULE CommentThreadProofs ---------------------------
(***************************************************************************)
(* Proofs about CommentThread: for any bodies, any page size and any       *)
(* writing, editing and deleting, the model is shown neither the bot's     *)
(* comments nor commands, and everything else that did not move.           *)
(*                                                                         *)
(* The inductive invariant is ThreadInv.  Its core is UnreadIsAhead: while *)
(* pages are read, a comment that stands and is not collected lies beyond  *)
(* the pages read so far.                                                  *)
(***************************************************************************)
EXTENDS CommentThread, TLAPS, WellFoundedInduction

\* A set of positions has a first one.
LEMMA FirstPosition ==
  ASSUME NEW T, T \subseteq Nat, T # {}
  PROVE  \E x \in T : \A y \in T : x <= y
<1>1. \E x \in T : \A y \in T : ~ (<<y, x>> \in OpToRel(<, Nat))
  BY NatLessThanWellFounded, WFMin
<1>2. \E x \in T : \A y \in T : ~ (y < x)
  BY <1>1 DEF OpToRel
<1> QED
  BY <1>2

\* parse_trigger: what `\s*` skips ends at the text or at the end of the
\* body.
LEMMA TextStarts ==
  ASSUME NEW b \in Seq(Tokens), NEW j \in DOMAIN b
  PROVE  TextFrom(b, j) \in (j + 1) .. (Len(b) + 1)
<1> DEFINE T == {k \in (j + 1) .. (Len(b) + 1) :
                   k = Len(b) + 1 \/ b[k] # "newline"}
<1>1. j \in 1 .. Len(b) /\ Len(b) \in Nat
  OBVIOUS
<1>2. T \subseteq Nat /\ Len(b) + 1 \in T
  BY <1>1
<1>3. PICK k \in T : \A y \in T : k <= y
  BY <1>2, FirstPosition
<1>4. ASSUME NEW m \in (j + 1) .. (k - 1) PROVE b[m] = "newline"
  <2>1. m \in (j + 1) .. (Len(b) + 1) /\ m < k
    BY <1>1, <1>2
  <2>2. m \notin T
    BY <1>2, <1>3, <2>1
  <2> QED
    BY <2>1, <2>2
<1> QED
  BY <1>3, <1>4 DEF TextFrom

\* The group `(.*?)` stops at the end of a line.
LEMMA LineEnds ==
  ASSUME NEW b \in Seq(Tokens), NEW k \in 1 .. (Len(b) + 1)
  PROVE  /\ EndOfLine(b, k) \in k .. (Len(b) + 1)
         /\ \A m \in k .. (EndOfLine(b, k) - 1) : b[m] # "newline"
<1> DEFINE T == {e \in k .. (Len(b) + 1) :
                   e = Len(b) + 1 \/ b[e] = "newline"}
<1>1. Len(b) \in Nat
  OBVIOUS
<1>2. T \subseteq Nat /\ Len(b) + 1 \in T
  BY <1>1
<1>3. PICK e \in T : \A y \in T : e <= y
  BY <1>2, FirstPosition
<1>4. ASSUME NEW m \in k .. (e - 1) PROVE b[m] # "newline"
  <2>1. m \in k .. (Len(b) + 1) /\ m < e
    BY <1>1, <1>2
  <2>2. m \notin T
    BY <1>2, <1>3, <2>1
  <2> QED
    BY <2>1, <2>2
<1> QED
  BY <1>3, <1>4 DEF EndOfLine

\* A body with a command has a first one.
LEMMA FirstCommand ==
  ASSUME NEW b \in Seq(Tokens), IsTrigger(b)
  PROVE  FirstCommandEnd(b) \in DOMAIN b
<1> DEFINE T == {i \in DOMAIN b : \E j \in DOMAIN b : CommandAt(b, i, j)}
<1>1. T \subseteq Nat /\ T # {}
  BY DEF IsTrigger
<1>2. PICK i \in T : \A k \in T : i <= k
  BY <1>1, FirstPosition
<1>3. PICK j \in DOMAIN b : CommandAt(b, i, j)
  BY <1>2
<1>4. \A k, l \in DOMAIN b : CommandAt(b, k, l) => i <= k
  BY <1>2
<1> QED
  BY <1>2, <1>3, <1>4 DEF FirstCommandEnd

\* parse_trigger's extra context is at most one line of the body.
LEMMA ExtraIsOneLine ==
  ASSUME NEW b \in Seq(Tokens), IsTrigger(b)
  PROVE  /\ ExtraContext(b) \in Seq(Tokens)
         /\ \A m \in DOMAIN ExtraContext(b) : ExtraContext(b)[m] # "newline"
<1> DEFINE j == FirstCommandEnd(b)
           k == TextFrom(b, j)
           e == EndOfLine(b, k)
<1>1. j \in 1 .. Len(b) /\ Len(b) \in Nat
  BY FirstCommand
<1>2. k \in (j + 1) .. (Len(b) + 1)
  BY <1>1, TextStarts
<1>3. /\ e \in k .. (Len(b) + 1)
      /\ \A m \in k .. (e - 1) : b[m] # "newline"
  BY <1>1, <1>2, LineEnds
<1> HIDE DEF j, k, e
<1>4. ExtraContext(b) = SubSeq(b, k, e - 1)
  BY DEF ExtraContext, j, k, e
<1>5. SubSeq(b, k, e - 1) = [m \in 1 .. (e - k) |-> b[m + k - 1]]
  BY <1>1, <1>2, <1>3
<1>6. \A m \in 1 .. (e - k) :
        m + k - 1 \in k .. (e - 1) /\ m + k - 1 \in 1 .. Len(b)
  BY <1>1, <1>2, <1>3
<1>7. \A m \in 1 .. (e - k) : b[m + k - 1] \in Tokens
  BY <1>6
<1>8. e - k \in Nat
  BY <1>1, <1>2, <1>3
<1>9. [m \in 1 .. (e - k) |-> b[m + k - 1]] \in Seq(Tokens)
  BY <1>7, <1>8
<1> QED
  BY <1>3, <1>4, <1>5, <1>6, <1>9

\* Nobody has written anything yet.
LEMMA ThreadInitInv == ThreadInit => ThreadInv
<1> SUFFICES ASSUME ThreadInit PROVE ThreadInv
  OBVIOUS
<1>1. ThreadTypeOK
  BY DEF ThreadInit, ThreadTypeOK, Settings
<1> QED
  BY <1>1
  DEF ThreadInit, ThreadInv, TriggersAreCommands, UnreadIsAhead, NothingLost

\* The two copies of the pattern agree.
LEMMA PatternsAgree == \A b : IsFiltered(b) <=> IsTrigger(b)
BY DEF IsFiltered, IsTrigger

\* A comment is written: what stands keeps its place.
LEMMA WriteInv ==
  ASSUME ThreadInv, NEW a \in Authors, NEW x \in Bodies, Write(a, x)
  PROVE  ThreadInv'
<1> DEFINE c == [id |-> written, author |-> a, body |-> x]
<1>1. c \in Comments
  BY DEF ThreadInv, ThreadTypeOK, Comments
<1>2. /\ thread \in Seq(Comments) /\ thread' = Append(thread, c)
      /\ UNCHANGED <<changes, triggers, pc, offset, collected, settings,
                     conversation, standing>>
  BY DEF ThreadInv, ThreadTypeOK, Write, reading
<1> HIDE DEF c
<1>3. ThreadTypeOK'
  <2>1. thread' \in Seq(Comments)
    BY <1>1, <1>2
  <2>2. events' = events \cup {c} /\ written' = written + 1
    BY DEF Write, c
  <2> QED
    BY <1>1, <1>2, <2>1, <2>2 DEF ThreadInv, ThreadTypeOK
<1>4. UnreadIsAhead'
  <2>1. \A k \in DOMAIN thread :
          k \in DOMAIN thread' /\ thread'[k] = thread[k]
    BY <1>1, <1>2
  <2> QED
    BY <1>2, <2>1 DEF ThreadInv, UnreadIsAhead
<1>5. TriggersAreCommands' /\ NothingLost'
  BY <1>2 DEF ThreadInv, TriggersAreCommands, NothingLost
<1> QED
  BY <1>2, <1>3, <1>4, <1>5 DEF ThreadInv

\* A comment is edited: it no longer stands, the others keep their places.
LEMMA EditInv ==
  ASSUME ThreadInv, NEW k \in DOMAIN thread, NEW x \in Bodies, Edit(k, x)
  PROVE  ThreadInv'
<1>1. /\ thread \in Seq(Comments) /\ thread[k] \in Comments
      /\ thread' = [thread EXCEPT ![k].body = x]
      /\ standing' = standing \ {thread[k]}
      /\ UNCHANGED <<written, events, triggers, pc, offset, collected,
                     settings, conversation>>
  BY DEF ThreadInv, ThreadTypeOK, Edit, reading
<1>2. ThreadTypeOK'
  <2>1. [thread[k] EXCEPT !.body = x] \in Comments
    BY <1>1 DEF Comments
  <2>2. thread' = [thread EXCEPT ![k] = [thread[k] EXCEPT !.body = x]]
    BY <1>1
  <2>3. thread' \in Seq(Comments)
    BY <1>1, <2>1, <2>2
  <2>4. changes' = changes + 1
    BY DEF Edit
  <2> QED
    BY <1>1, <2>3, <2>4 DEF ThreadInv, ThreadTypeOK
<1>3. UnreadIsAhead'
  <2>1. \A m \in DOMAIN thread :
          m # k => m \in DOMAIN thread' /\ thread'[m] = thread[m]
    BY <1>1
  <2> QED
    BY <1>1, <2>1 DEF ThreadInv, UnreadIsAhead
<1>4. TriggersAreCommands' /\ NothingLost'
  BY <1>1 DEF ThreadInv, TriggersAreCommands, NothingLost
<1> QED
  BY <1>1, <1>2, <1>3, <1>4 DEF ThreadInv

\* A comment is deleted: of those that still stand, none has slipped into
\* the part already read.
LEMMA DeleteInv ==
  ASSUME ThreadInv, NEW k \in DOMAIN thread, Delete(k)
  PROVE  ThreadInv'
<1>1. /\ thread \in Seq(Comments) /\ Len(thread) \in Nat /\ offset \in Nat
      /\ k \in 1 .. Len(thread)
      /\ thread' = [i \in 1 .. (Len(thread) - 1) |->
                      IF i < k THEN thread[i] ELSE thread[i + 1]]
      /\ standing' \subseteq standing
      /\ UNCHANGED <<written, events, triggers, pc, offset, collected,
                     settings, conversation>>
  BY DEF ThreadInv, ThreadTypeOK, Delete, reading
<1>2. ThreadTypeOK'
  <2>1. \A i \in 1 .. (Len(thread) - 1) :
          (IF i < k THEN thread[i] ELSE thread[i + 1]) \in Comments
    BY <1>1
  <2>2. thread' \in Seq(Comments)
    BY <1>1, <2>1
  <2>3. changes' = changes + 1
    BY DEF Delete
  <2> QED
    BY <1>1, <2>2, <2>3 DEF ThreadInv, ThreadTypeOK
<1>3. ASSUME pc = "read", NEW c \in standing', c \notin collected
      PROVE  \E m \in DOMAIN thread' : m > offset /\ thread'[m] = c
  <2>1. c \in standing /\ c # thread[k]
    BY DEF Delete
  <2>2. k <= offset /\ offset < Len(thread) => c # thread[offset + 1]
    BY DEF Delete
  <2>3. PICK m \in DOMAIN thread : m > offset /\ thread[m] = c
    BY <1>3, <2>1 DEF ThreadInv, UnreadIsAhead
  <2>4. m \in 1 .. Len(thread) /\ m # k
    BY <1>1, <2>1, <2>3
  <2>5. CASE m < k
    <3>1. m \in DOMAIN thread' /\ thread'[m] = c
      BY <1>1, <2>3, <2>4, <2>5
    <3> QED
      BY <2>3, <3>1
  <2>6. CASE m > k
    <3>1. m - 1 \in DOMAIN thread' /\ thread'[m - 1] = c
      BY <1>1, <2>3, <2>4, <2>6
    <3>2. m # offset + 1
      BY <1>1, <2>2, <2>3, <2>4, <2>6
    <3>3. m - 1 > offset
      BY <1>1, <2>3, <2>4, <3>2
    <3> QED
      BY <3>1, <3>3
  <2> QED
    BY <1>1, <2>4, <2>5, <2>6
<1>4. UnreadIsAhead'
  BY <1>1, <1>3 DEF ThreadInv, UnreadIsAhead
<1>5. TriggersAreCommands' /\ NothingLost'
  BY <1>1 DEF ThreadInv, TriggersAreCommands, NothingLost
<1> QED
  BY <1>1, <1>2, <1>4, <1>5 DEF ThreadInv

\* The handler takes a command for a command.
LEMMA HandleInv ==
  ASSUME ThreadInv, NEW c \in events, HandleComment(c)
  PROVE  ThreadInv'
<1>1. /\ c \in Comments /\ c.body \in Seq(Tokens)
      /\ UNCHANGED <<thread, written, changes, pc, offset, collected,
                     settings, conversation, standing>>
      /\ events' \subseteq events
  BY BodiesAssumption
  DEF ThreadInv, ThreadTypeOK, HandleComment, reading, Comments
<1> DEFINE t == [comment |-> c, extra |-> ExtraContext(c.body)]
<1>2. \/ triggers' = triggers
      \/ /\ c.author # Bot /\ IsTrigger(c.body)
         /\ triggers' = triggers \cup {t}
  BY DEF HandleComment
<1>3. IsTrigger(c.body) => t \in [comment : Comments, extra : Extras]
  BY <1>1, ExtraIsOneLine DEF Extras
<1>4. t.comment = c
  OBVIOUS
<1> HIDE DEF t
<1>5. ThreadTypeOK'
  BY <1>1, <1>2, <1>3 DEF ThreadInv, ThreadTypeOK
<1>6. TriggersAreCommands'
  BY <1>2, <1>4 DEF ThreadInv, TriggersAreCommands
<1>7. UnreadIsAhead' /\ NothingLost'
  BY <1>1 DEF ThreadInv, UnreadIsAhead, NothingLost
<1> QED
  BY <1>1, <1>5, <1>6, <1>7 DEF ThreadInv

\* A reading begins: everything stands and everything is ahead.
LEMMA BeginInv ==
  ASSUME ThreadInv, NEW s \in Settings, BeginFetch(s)
  PROVE  ThreadInv'
<1>1. /\ thread \in Seq(Comments)
      /\ settings' = s /\ conversation' = {} /\ collected' = {}
      /\ offset' = 0 /\ standing' = InThread
      /\ pc' = IF Included(s) THEN "read" ELSE "done"
      /\ UNCHANGED <<thread, written, changes, events, triggers>>
  BY DEF ThreadInv, ThreadTypeOK, BeginFetch
<1>2. InThread \subseteq Comments
  BY <1>1 DEF InThread
<1>3. ThreadTypeOK'
  BY <1>1, <1>2 DEF ThreadInv, ThreadTypeOK
<1>4. UnreadIsAhead'
  <2>1. ASSUME NEW c \in standing'
        PROVE  \E k \in DOMAIN thread' : k > offset' /\ thread'[k] = c
    <3>1. PICK k \in DOMAIN thread : thread[k] = c
      BY <1>1 DEF InThread
    <3>2. k > 0
      BY <1>1
    <3> QED
      BY <1>1, <3>1, <3>2
  <2> QED
    BY <1>1, <2>1 DEF UnreadIsAhead, Included
<1>5. NothingLost' /\ TriggersAreCommands'
  BY <1>1
  DEF ThreadInv, NothingLost, TriggersAreCommands, Included
<1> QED
  BY <1>1, <1>3, <1>4, <1>5 DEF ThreadInv

\* A page is read, and perhaps it is the last.
LEMMA ReadPageInv ==
  ASSUME ThreadInv, ReadPage
  PROVE  ThreadInv'
<1>1. /\ thread \in Seq(Comments) /\ Len(thread) \in Nat
      /\ offset \in Nat /\ PerPage \in Nat /\ settings \in Settings
      /\ collected \subseteq Comments /\ pc = "read" /\ Included(settings)
      /\ collected' = collected \cup Page
      /\ UNCHANGED <<thread, written, changes, events, triggers, settings,
                     standing>>
  BY BoundsAssumption
  DEF ThreadInv, ThreadTypeOK, UnreadIsAhead, ReadPage
<1>2. Page \subseteq Comments
  BY <1>1 DEF Page
<1>3. \A m \in DOMAIN thread :
        m > offset /\ m <= offset + PerPage => thread[m] \in Page
  BY <1>1 DEF Page
<1>4. CASE offset' = offset + PerPage /\ UNCHANGED <<pc, conversation>>
  <2>1. ThreadTypeOK'
    BY <1>1, <1>2, <1>4 DEF ThreadInv, ThreadTypeOK
  <2>2. ASSUME NEW c \in standing', c \notin collected'
        PROVE  \E m \in DOMAIN thread' : m > offset' /\ thread'[m] = c
    <3>1. PICK m \in DOMAIN thread : m > offset /\ thread[m] = c
      BY <1>1, <2>2 DEF ThreadInv, UnreadIsAhead
    <3>2. ~ (m <= offset + PerPage)
      BY <1>1, <1>3, <2>2, <3>1
    <3>3. m \in Nat
      BY <1>1
    <3> QED
      BY <1>1, <1>4, <3>1, <3>2, <3>3
  <2>3. UnreadIsAhead'
    BY <1>1, <2>2 DEF UnreadIsAhead
  <2>4. NothingLost' /\ TriggersAreCommands'
    BY <1>1, <1>4
    DEF ThreadInv, NothingLost, TriggersAreCommands
  <2> QED
    BY <1>4, <2>1, <2>3, <2>4 DEF ThreadInv
<1>5. CASE /\ Len(thread) < offset + PerPage
           /\ pc' = "done"
           /\ conversation' =
                Rendered(settings, {c \in collected' : Shown(c)})
           /\ UNCHANGED offset
  <2>1. settings.repo # "no"
    BY <1>1 DEF Included
  <2>2. conversation' = {c \in collected' : Shown(c)}
    BY <1>5, <2>1 DEF Rendered
  <2>3. ThreadTypeOK'
    BY <1>1, <1>2, <1>5, <2>2 DEF ThreadInv, ThreadTypeOK
  <2>4. ASSUME NEW c \in standing PROVE c \in collected'
    <3>1. CASE c \in collected
      BY <1>1, <3>1
    <3>2. CASE c \notin collected
      <4>1. PICK m \in DOMAIN thread : m > offset /\ thread[m] = c
        BY <1>1, <3>2 DEF ThreadInv, UnreadIsAhead
      <4>2. m <= offset + PerPage
        BY <1>1, <1>5
      <4> QED
        BY <1>1, <1>3, <4>1, <4>2
    <3> QED
      BY <3>1, <3>2
  <2>5. NothingLost'
    BY <1>1, <2>2, <2>4, PatternsAgree DEF NothingLost, Shown
  <2>6. TriggersAreCommands' /\ UnreadIsAhead'
    BY <1>1, <1>5 DEF ThreadInv, TriggersAreCommands, UnreadIsAhead
  <2> QED
    BY <2>2, <2>3, <2>5, <2>6 DEF ThreadInv, Shown, IsFiltered
<1> QED
  BY <1>4, <1>5 DEF ReadPage

\* GitHub refuses a page.
LEMMA ReadFailsInv ==
  ASSUME ThreadInv, ReadFails
  PROVE  ThreadInv'
<1>1. /\ pc' = "idle"
      /\ UNCHANGED <<thread, written, changes, events, triggers, offset,
                     collected, settings, conversation, standing>>
  BY DEF ReadFails
<1> QED
  BY <1>1
  DEF ThreadInv, ThreadTypeOK, TriggersAreCommands, UnreadIsAhead,
      NothingLost

\* One step per action.
LEMMA ThreadNextInv == ThreadInv /\ [ThreadNext]_threadVars => ThreadInv'
<1> SUFFICES ASSUME ThreadInv, [ThreadNext]_threadVars PROVE ThreadInv'
  OBVIOUS
<1>1. CASE \E a \in Authors, b \in Bodies : Write(a, b)
  BY <1>1, WriteInv
<1>2. CASE \E k \in DOMAIN thread, b \in Bodies : Edit(k, b)
  BY <1>2, EditInv
<1>3. CASE \E k \in DOMAIN thread : Delete(k)
  BY <1>3, DeleteInv
<1>4. CASE \E c \in events : HandleComment(c)
  BY <1>4, HandleInv
<1>5. CASE \E s \in Settings : BeginFetch(s)
  BY <1>5, BeginInv
<1>6. CASE ReadPage \/ ReadFails
  BY <1>6, ReadPageInv, ReadFailsInv
<1>7. CASE UNCHANGED threadVars
  BY <1>7
  DEF threadVars, reading, ThreadInv, ThreadTypeOK, TriggersAreCommands,
      UnreadIsAhead, NothingLost
<1> QED
  BY <1>1, <1>2, <1>3, <1>4, <1>5, <1>6, <1>7 DEF ThreadNext

\* The thread, the handler and the reader keep ThreadInv, in every execution.
THEOREM ThreadInvariance == ThreadSpec => []ThreadInv
<1> QED
  BY ThreadInitInv, ThreadNextInv, PTL DEF ThreadSpec

\* Every variable keeps its type, the extra context being tokens of a body.
THEOREM ThreadTypes == ThreadSpec => []ThreadTypeOK
<1>1. ThreadInv => ThreadTypeOK
  BY DEF ThreadInv
<1> QED
  BY <1>1, ThreadInvariance, PTL

\* fetch_pr_content never shows the model what the bot said, or what the
\* handler took for a command.
THEOREM NoFeedbackLoop == ThreadSpec => []NoFeedback
<1>1. ThreadInv => NoFeedback
  BY PatternsAgree DEF ThreadInv, NoFeedback, TriggersAreCommands, Shown
<1> QED
  BY <1>1, ThreadInvariance, PTL

\* get_pr_comments and the filter lose no user's remark but one that slipped
\* past the reader.
THEOREM ConversationIsComplete == ThreadSpec => []NothingLost
<1>1. ThreadInv => NothingLost
  BY DEF ThreadInv
<1> QED
  BY <1>1, ThreadInvariance, PTL

=============================================================================
