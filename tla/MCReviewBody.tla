----------------------------- MODULE MCReviewBody ------------------------------
(***************************************************************************)
(* ReviewBody for TLC: all lists of up to five files with a patch, and of  *)
(* up to four when some have none or are ignored; all replies of up to     *)
(* three lines, and two in which each heading has a text of its own.       *)
(***************************************************************************)
EXTENDS ReviewBody

ShortLists == UNION {[1 .. n -> 0 .. 4] : n \in 0 .. 5}

File(patch, ignored) == [patch |-> patch, ignored |-> ignored]
Changed == {File(n, FALSE) : n \in 0 .. 4}
LeftOut == {File(NoPatch, FALSE), File(2, TRUE)}
ShortListings ==
  UNION {[1 .. n -> Changed \cup LeftOut] : n \in 0 .. 4}
    \cup [1 .. 5 -> Changed]

ReplyLines == {"Summary", "Findings", "first", "second"}
ShortReplies ==
  UNION {[1 .. n -> ReplyLines] : n \in 0 .. 3}
    \cup {<<"Findings", "first", "Summary", "second">>,
          <<"Findings", "first", "Findings", "second">>}

=============================================================================
