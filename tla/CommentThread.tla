----------------------------- MODULE CommentThread -----------------------------
(***************************************************************************)
(* CommentThread (orchestration/triggers.py, pipeline/fetcher.py and       *)
(* get_pr_comments of transport/github_client.py): the comments of a pull  *)
(* request are read twice, by two patterns that have to agree.  The        *)
(* webhook handler looks for a command in each new comment; the pipeline   *)
(* reads the thread, page by page, and shows the model what is neither     *)
(* the bot's nor a command.  Meanwhile people go on writing, editing and   *)
(* deleting.                                                               *)
(*                                                                         *)
(* A body is a sequence of tokens: the bot's handle, the word `review`,    *)
(* any other text, and the end of a line.  Blanks between tokens are left  *)
(* out.                                                                    *)
(***************************************************************************)
EXTENDS Naturals, Sequences

CONSTANTS
  Bodies,       \* what people write
  Bot, Users,   \* the bot's login, and the others'
  PerPage,      \* _PER_PAGE
  MaxComments,  \* bound on the comments written
  MaxChanges    \* bound on edits and deletions

Tokens == {"mention", "review", "word", "newline"}

ASSUME BodiesAssumption == Bodies \subseteq Seq(Tokens)
ASSUME AuthorsAssumption == Bot \notin Users
ASSUME BoundsAssumption ==
  PerPage \in Nat \ {0} /\ MaxComments \in Nat /\ MaxChanges \in Nat

VARIABLES
  thread,        \* GitHub: the comments, in the order they were written
  written,       \* how many there ever were
  changes,       \* how many edits and deletions
  events,        \* the created comments the handler has not seen yet
  triggers,      \* history: the commands the handler took, and what it read
  pc,            \* where fetch_pr_content is
  offset,        \* get_pr_comments: how many comments the pages so far cover
  collected,     \* get_pr_comments: results
  settings,      \* include_conversation, in the repository and the operator's
  conversation,  \* what the prompt shows
  standing       \* history: the comments that were there, unchanged, all the
                 \* while, and did not slip past the reader

threadVars == <<thread, written, changes, events, triggers, pc, offset,
                collected, settings, conversation, standing>>
reading == <<pc, offset, collected, settings, conversation>>

Authors == Users \cup {Bot}
Comments == [id : Nat, author : Authors, body : Bodies]
Extras == Seq(Tokens)
Settings == [repo : {"yes", "no", "unset"}, operator : BOOLEAN]
InThread == {thread[k] : k \in DOMAIN thread}

ThreadTypeOK ==
  /\ thread \in Seq(Comments)
  /\ written \in Nat /\ changes \in Nat
  /\ events \subseteq Comments
  /\ triggers \subseteq [comment : Comments, extra : Extras]
  /\ pc \in {"idle", "read", "done"}
  /\ offset \in Nat
  /\ collected \subseteq Comments
  /\ settings \in Settings
  /\ conversation \subseteq Comments
  /\ standing \subseteq Comments

ThreadInit ==
  /\ thread = <<>> /\ written = 0 /\ changes = 0
  /\ events = {} /\ triggers = {}
  /\ pc = "idle" /\ offset = 0 /\ collected = {}
  /\ settings = [repo |-> "unset", operator |-> TRUE]
  /\ conversation = {} /\ standing = {}

-----------------------------------------------------------------------------
(* The two patterns.                                                       *)

\* `^@vidi-pr\s+review\b` from position i to j: the handle opens a line, and
\* only blanks, ends of lines among them, separate it from the word.
CommandAt(b, i, j) ==
  /\ i \in DOMAIN b /\ j \in DOMAIN b /\ i < j
  /\ b[i] = "mention" /\ b[j] = "review"
  /\ i = 1 \/ b[i - 1] = "newline"
  /\ \A k \in (i + 1) .. (j - 1) : b[k] = "newline"

\* triggers._TRIGGER.search: is there a command?
IsTrigger(b) == \E i, j \in DOMAIN b : CommandAt(b, i, j)

\* Mutant of IsFiltered: the pattern without `^`.
Mutant_Anywhere(b) ==
  \E i \in DOMAIN b : b[i] = "mention" /\ i < Len(b) /\ b[i + 1] = "review"

\* fetcher._TRIGGER_PATTERN.search, a copy of the first.
IsFiltered(b) == \E i, j \in DOMAIN b : CommandAt(b, i, j)

\* parse_trigger: the first command counts; `\s*` skips blanks and ends of
\* lines, and the group takes the text up to the end of that line.
TextFrom(b, j) ==
  CHOOSE k \in (j + 1) .. (Len(b) + 1) :
    /\ k = Len(b) + 1 \/ b[k] # "newline"
    /\ \A m \in (j + 1) .. (k - 1) : b[m] = "newline"
EndOfLine(b, k) ==
  CHOOSE e \in k .. (Len(b) + 1) :
    /\ e = Len(b) + 1 \/ b[e] = "newline"
    /\ \A m \in k .. (e - 1) : b[m] # "newline"
FirstCommandEnd(b) ==
  CHOOSE j \in DOMAIN b :
    \E i \in DOMAIN b :
      /\ CommandAt(b, i, j)
      /\ \A k, l \in DOMAIN b : CommandAt(b, k, l) => i <= k
ExtraContext(b) ==
  LET k == TextFrom(b, FirstCommandEnd(b))
  IN SubSeq(b, k, EndOfLine(b, k) - 1)

-----------------------------------------------------------------------------
(* The thread on GitHub.                                                   *)

Write(author, body) ==
  LET c == [id |-> written, author |-> author, body |-> body]
  IN /\ written < MaxComments
     /\ written' = written + 1
     /\ thread' = Append(thread, c)
     /\ events' = events \cup {c}
     /\ UNCHANGED <<changes, triggers, reading, standing>>

\* The handler ignores everything but `created`.
Edit(k, body) ==
  /\ changes < MaxChanges
  /\ body # thread[k].body
  /\ changes' = changes + 1
  /\ thread' = [thread EXCEPT ![k].body = body]
  /\ standing' = standing \ {thread[k]}
  /\ UNCHANGED <<written, events, triggers, reading>>

\* The later ones move up a place, the first unread one into the part
\* already read if the deleted one was there.
Delete(k) ==
  /\ changes < MaxChanges
  /\ changes' = changes + 1
  /\ thread' = [i \in 1 .. (Len(thread) - 1) |->
                  IF i < k THEN thread[i] ELSE thread[i + 1]]
  /\ standing' = {c \in standing :
                    /\ c # thread[k]
                    /\ k <= offset /\ offset < Len(thread) =>
                         c # thread[offset + 1]}
  /\ UNCHANGED <<written, events, triggers, reading>>

(* The handler.                                                            *)

\* on_issue_comment, up to its first await: the event carries the comment as
\* it was written.
HandleComment(c) ==
  /\ c \in events
  /\ events' = events \ {c}
  /\ triggers' = IF c.author # Bot /\ IsTrigger(c.body)
                   THEN triggers \cup {[comment |-> c,
                                        extra |-> ExtraContext(c.body)]}
                   ELSE triggers
  /\ UNCHANGED <<thread, written, changes, reading, standing>>

(* The pipeline.                                                           *)

\* prepare: the repository's choice, else the operator's.
Included(s) == IF s.repo = "unset" THEN s.operator ELSE s.repo = "yes"

\* Mutant of Rendered: who said it is left out.
Mutant_Anonymous(s, c) == {[x EXCEPT !.author = ""] : x \in c}

\* _render_user: the repository's choice, else yes.
Rendered(s, c) == IF s.repo # "no" THEN c ELSE {}

\* fetch_pr_content, once the files are there.
BeginFetch(s) ==
  /\ pc # "read"
  /\ settings' = s
  /\ conversation' = {}
  /\ collected' = {} /\ offset' = 0
  /\ standing' = InThread
  /\ pc' = IF Included(s) THEN "read" ELSE "done"
  /\ UNCHANGED <<thread, written, changes, events, triggers>>

\* Mutant of Shown: the bot's comments are shown too.
Mutant_ShowBot(c) == ~IsFiltered(c.body)

\* fetch_pr_content: what stays in the conversation.
Shown(c) == c.author # Bot /\ ~IsFiltered(c.body)

\* get_pr_comments asks for the next page.  A page that is not full may be
\* taken for the last one, an empty one must be.
Page == {thread[k] : k \in (offset + 1) .. (offset + PerPage) \cap DOMAIN thread}
ReadPage ==
  /\ pc = "read"
  /\ collected' = collected \cup Page
  /\ \/ /\ Page # {}
        /\ offset' = offset + PerPage
        /\ UNCHANGED <<pc, conversation>>
     \/ /\ Len(thread) < offset + PerPage
        /\ pc' = "done"
        /\ conversation' = Rendered(settings, {c \in collected' : Shown(c)})
        /\ UNCHANGED offset
  /\ UNCHANGED <<thread, written, changes, events, triggers, settings,
                 standing>>

\* GitHub refuses a page: GitHubError, out of prepare.
ReadFails ==
  /\ pc = "read"
  /\ pc' = "idle"
  /\ UNCHANGED <<thread, written, changes, events, triggers, offset,
                 collected, settings, conversation, standing>>

ThreadNext ==
  \/ \E a \in Authors, b \in Bodies : Write(a, b)
  \/ \E k \in DOMAIN thread, b \in Bodies : Edit(k, b)
  \/ \E k \in DOMAIN thread : Delete(k)
  \/ \E c \in events : HandleComment(c)
  \/ \E s \in Settings : BeginFetch(s)
  \/ ReadPage \/ ReadFails

ThreadSpec == ThreadInit /\ [][ThreadNext]_threadVars

-----------------------------------------------------------------------------
(* Correctness.                                                            *)

\* fetch_pr_content: "The bot's own comments and any comment matching the
\* review-trigger pattern are filtered out".  What the handler once took for
\* a command, and nobody edited since, is in no conversation, nor is anything
\* the bot wrote.
NoFeedback ==
  \A c \in conversation :
    /\ c.author # Bot
    /\ \A t \in triggers : t.comment # c

\* A conversation that is wanted is complete: a user's comment that is no
\* command is in it, unless it was written or changed while the thread was
\* being read.  A deletion among the pages already read costs the comment
\* that moves up into them, and no other.
NothingLost ==
  pc = "done" /\ Included(settings) =>
    \A c \in standing :
      c.author # Bot /\ ~IsTrigger(c.body) => c \in conversation

\* What makes the two inductive: what the handler took is a command of a
\* user's, what is shown is neither, and what the reader has not collected
\* is still ahead of it.
TriggersAreCommands ==
  \A t \in triggers : t.comment.author # Bot /\ IsTrigger(t.comment.body)
UnreadIsAhead ==
  pc = "read" =>
    /\ Included(settings)
    /\ \A c \in standing :
         c \in collected
         \/ \E k \in DOMAIN thread : k > offset /\ thread[k] = c
ThreadInv ==
  /\ ThreadTypeOK
  /\ TriggersAreCommands
  /\ \A c \in conversation : Shown(c)
  /\ UnreadIsAhead
  /\ NothingLost

=============================================================================
