---------------------------- MODULE MCCommentThread ----------------------------
(***************************************************************************)
(* CommentThread for TLC: a remark that mentions a review, a command that  *)
(* spans two lines, and one further down with a request.                   *)
(***************************************************************************)
EXTENDS CommentThread

SampleBodies == {
  <<"word", "mention", "review">>,
  <<"mention", "newline", "review">>,
  <<"word", "newline", "mention", "review", "word">>}

=============================================================================
