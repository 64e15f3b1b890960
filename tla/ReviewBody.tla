------------------------------ MODULE ReviewBody -------------------------------
(***************************************************************************)
(* From the changed files to the text that is posted: they are filtered    *)
(* and packed (Chunking), the model answers each chunk and merges several  *)
(* answers (pipeline/reviewer.py), its reply is split into sections        *)
(* (pipeline/parsing.py), and the sections, the files that did not fit and *)
(* the footer make up the review.  Calls that fail are in Reviewer; here   *)
(* they all succeed, and the question is what becomes of what they say.    *)
(*                                                                         *)
(* A text is a sequence of lines: the four headings, and other strings.    *)
(* Blank lines are left out, lengths are counted in lines, and the cut of  *)
(* a body that is too long falls between two of them.                      *)
(***************************************************************************)
EXTENDS Chunking, SequencesExt

CONSTANTS
  NoPatch,   \* what a file has instead of a patch, binary ones for instance
  Listings,  \* the lists of changed files a pull request may have
  Replies,   \* what the model may say
  MaxBody    \* _MAX_REVIEW_BODY

ASSUME NoPatchAssumption == NoPatch \notin Nat
ASSUME ListingsAssumption ==
  Listings \subseteq Seq([patch : Nat \cup {NoPatch}, ignored : BOOLEAN])
ASSUME RepliesAssumption == Replies \subseteq Seq(STRING)
ASSUME MaxBodyAssumption == MaxBody \in Nat \ {0}

VARIABLES
  listing,   \* content.files
  pc,        \* where prepare is
  answered,  \* how many chunks the model has answered
  review,    \* synthesis.review, once there is one
  body       \* RenderedReview.body

bodyVars == <<packVars, listing, pc, answered, review, body>>

Headings == {"Summary", "Findings", "Suggestions", "Positives"}

-----------------------------------------------------------------------------
(* _filter_files.                                                          *)

\* Mutant of Reviewable: an empty patch counts as none.
Mutant_TruthyPatch(file) == file.patch \notin {NoPatch, 0} /\ ~file.ignored

\* A file has a patch, and the repository's configuration does not ignore it.
Reviewable(file) == file.patch # NoPatch /\ ~file.ignored

\* eligible_files, in the order of the listing: the f-th is Listed(f).
Eligible == {k \in DOMAIN listing : Reviewable(listing[k])}
Rank(k) == Cardinality({i \in Eligible : i <= k})
Listed(f) == CHOOSE k \in Eligible : Rank(k) = f
EligibleSizes ==
  [f \in 1 .. Cardinality(Eligible) |-> listing[Listed(f)].patch]

-----------------------------------------------------------------------------
(* parse_review_output.                                                    *)

\* _HEADING.finditer
Matches(r) == {i \in DOMAIN r : r[i] \in Headings}

\* Mutant of Latest: the first section of a name stays.
Mutant_FirstWins(is) == Min(is)

\* A later section of the same name overwrites an earlier one.
Latest(is) == Max(is)

\* The lines from the heading at i up to the next one.
SectionAt(r, i) ==
  LET later == {k \in Matches(r) : i < k}
  IN SubSeq(r, i + 1, IF later = {} THEN Len(r) ELSE Min(later) - 1)
Section(r, h) ==
  LET is == {i \in Matches(r) : r[i] = h}
  IN IF is = {} THEN <<>> ELSE SectionAt(r, Latest(is))

Parse(r) ==
  [parse_failed |-> Matches(r) = {},
   sections |-> [h \in Headings |-> Section(r, h)],
   raw |-> r]
NotParsed == Parse(<<>>)

-----------------------------------------------------------------------------
(* _render_review_body.                                                    *)

Part(kind, text) == [part |-> kind, text |-> text]
Banner == Part("banner", "Could not parse model output")
NotReviewed == Part("heading", "Not reviewed due to size")
Footer == Part("footer", "Reviewed by vidi-pr")
Note == Part("note", "review truncated")
FileName(f) == [part |-> "file", file |-> f]
Lines(kind, ls) == [i \in DOMAIN ls |-> Part(kind, ls[i])]

SectionText(h, ls) ==
  IF ls = <<>> THEN <<>> ELSE <<Part("heading", h)>> \o Lines("text", ls)
ReviewText(p) ==
  LET Rendered(h) == SectionText(h, p.sections[h])
  IN IF p.parse_failed
       THEN <<Banner>> \o Lines("quote", p.raw)
       ELSE Rendered("Summary") \o Rendered("Findings")
              \o Rendered("Suggestions") \o Rendered("Positives")

\* Under their heading, the files left out in the order they were tried.
Place(f) == 1 + Cardinality({g \in skipped : TriedBefore(g, f)})
FileNames ==
  <<NotReviewed>> \o [i \in 1 .. Cardinality(skipped) |->
                        FileName(CHOOSE f \in skipped : Place(f) = i)]

SkippedText(p) == IF skipped = {} THEN <<>> ELSE FileNames

\* _truncate
Truncate(b) == IF Len(b) <= MaxBody THEN b
               ELSE Append(SubSeq(b, 1, MaxBody - 1), Note)

-----------------------------------------------------------------------------
(* prepare.                                                                *)

BodyInit ==
  /\ listing \in Listings
  /\ size = EligibleSizes
  /\ PackInit
  /\ pc = "pack" /\ answered = 0 /\ review = NotParsed /\ body = <<>>

PackFile ==
  /\ pc = "pack"
  /\ \E f \in waiting : Turn(f)
  /\ UNCHANGED <<listing, pc, answered, review, body>>

\* Without a chunk there is nothing to review.
EndPacking ==
  /\ pc = "pack" /\ waiting = {}
  /\ pc' = IF chunks_files = <<>> THEN "nothing" ELSE "chunk"
  /\ UNCHANGED <<packVars, listing, answered, review, body>>

\* _run_chunks: the answer to the only chunk is the review, several only go
\* into the prompt of the synthesis.
AnswerChunk(r) ==
  LET only == Len(chunks_files) = 1
  IN /\ pc = "chunk"
     /\ answered' = answered + 1
     /\ review' = IF only THEN Parse(r) ELSE review
     /\ pc' = CASE answered' < Len(chunks_files) -> "chunk"
                [] only -> "render"
                [] OTHER -> "synthesize"
     /\ UNCHANGED <<packVars, listing, body>>

\* _maybe_synthesize
Synthesize(r) ==
  /\ pc = "synthesize"
  /\ review' = Parse(r)
  /\ pc' = "render"
  /\ UNCHANGED <<packVars, listing, answered, body>>

Render ==
  /\ pc = "render"
  /\ body' = Truncate(ReviewText(review) \o SkippedText(review) \o <<Footer>>)
  /\ pc' = "done"
  /\ UNCHANGED <<packVars, listing, answered, review>>

Prepared == pc \in {"nothing", "done"} /\ UNCHANGED bodyVars

BodyNext ==
  \/ PackFile \/ EndPacking \/ Render \/ Prepared
  \/ \E r \in Replies : AnswerChunk(r) \/ Synthesize(r)

BodySpec == BodyInit /\ [][BodyNext]_bodyVars

-----------------------------------------------------------------------------
(* Correctness.                                                            *)

Truncated == body[Len(body)] = Note

\* A body fits, so that GitHub does not refuse it for good (which run would
\* take for a closed pull request).  One that was cut says so.  In any other,
\* the author finds each changed file that the model has not seen, whatever
\* came of parsing its reply; not so a file without a patch, and one that
\* the repository ignores, of which nothing is said.
NothingIsHidden ==
  pc = "done" =>
    /\ Len(body) <= MaxBody
    /\ \/ Truncated
       \/ \A k \in DOMAIN listing :
            \/ listing[k].patch = NoPatch \/ listing[k].ignored
            \/ \E f \in Files :
                 /\ Listed(f) = k
                 /\ \/ \E i \in 1 .. answered : f \in chunks_files[i]
                    \/ FileName(f) \in ToSet(body)

\* parse_review_output: "Missing or duplicate sections are tolerated".  What
\* the model said ends up under the heading it said it under, each line
\* once.  Lost are only what precedes the first heading and what stands
\* under a heading that comes again; a reply without a heading is quoted as
\* it is.
LastOf(is) == IF is = {} THEN 0 ELSE Max(is)
Over(r, j) == LastOf({i \in Matches(r) : i <= j})
KeptLines(r) ==
  {j \in DOMAIN r \ Matches(r) :
    /\ Over(r, j) # 0
    /\ \A k \in DOMAIN r : j < k => r[k] # r[Over(r, j)]}
TextAt(k) == body[k].part = "text"
HeadingAbove(k) == LastOf({i \in 1 .. k : body[i].part = "heading"})
ReplyIsKept ==
  pc = "done" /\ ~Truncated =>
    LET r == review.raw
    IN IF Matches(r) = {}
         THEN SubSeq(body, 2, Len(r) + 1) = Lines("quote", r)
         ELSE /\ Cardinality({k \in DOMAIN body : TextAt(k)}) =
                   Cardinality(KeptLines(r))
              /\ \A j \in KeptLines(r) : \E k \in DOMAIN body :
                   /\ body[k] = Part("text", r[j])
                   /\ body[HeadingAbove(k)].text = r[Over(r, j)]

\* What makes the invariants provable: what is packed is what was listed,
\* where prepare is, and what it holds there.
FilesAreListed == listing \in Listings /\ size = EligibleSizes
BodyInv ==
  /\ FilesAreListed
  /\ answered \in Nat
  /\ pc # "pack" => waiting = {}
  /\ pc \in {"pack", "chunk"} => answered <= Len(chunks_files)
  /\ pc = "pack" => answered = 0
  /\ pc = "chunk" => answered < Len(chunks_files)
  /\ pc \in {"synthesize", "render", "done"} => answered = Len(chunks_files)
  /\ pc \in {"render", "done"} => \E r \in Replies : review = Parse(r)
  /\ pc = "done" =>
       body = Truncate(ReviewText(review) \o SkippedText(review) \o <<Footer>>)

=============================================================================
