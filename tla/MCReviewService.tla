--------------------------- MODULE MCReviewService ---------------------------
(***************************************************************************)
(* Small instances of ReviewService for TLC.                               *)
(***************************************************************************)
EXTENDS ReviewService, TLC

Opened(p) == [type |-> "pull_request", action |-> "opened", draft |-> FALSE,
              on_pr |-> TRUE, from_bot |-> FALSE, mentions |-> FALSE,
              parses |-> TRUE, pr |-> p]
Mention(p) == [type |-> "issue_comment", action |-> "created",
               draft |-> FALSE, on_pr |-> TRUE, from_bot |-> FALSE,
               mentions |-> TRUE, parses |-> TRUE, pr |-> p]

OnePR == {"p1"}
TwoPRs == {"p1", "p2"}

\* An opened pull request and a mention of the bot on it race.
RaceDeliveries == {"d1", "d2"}
RaceEvent == [d \in RaceDeliveries |->
                IF d = "d1" THEN Opened("p1") ELSE Mention("p1")]

\* Two pull requests compete for the worker; a draft does not.
PairDeliveries == {"d1", "d2", "d3"}
PairEvent == [d \in PairDeliveries |->
                CASE d = "d1" -> Opened("p1")
                  [] d = "d2" -> Mention("p2")
                  [] d = "d3" -> [Opened("p1") EXCEPT !.draft = TRUE]]

\* The race, and a delivery that cannot be parsed.
NoiseDeliveries == {"d1", "d2", "d3"}
NoiseEvent == [d \in NoiseDeliveries |->
                 CASE d = "d1" -> [Opened("p1") EXCEPT
                                     !.action = "ready_for_review"]
                   [] d = "d2" -> Mention("p1")
                   [] d = "d3" -> [Mention("p1") EXCEPT !.parses = FALSE]]

\* A mention and nothing else.
MentionDeliveries == {"d1"}
MentionEvent == [d \in MentionDeliveries |-> Mention("p1")]

TaskSymmetry == Permutations(Tasks)

=============================================================================
