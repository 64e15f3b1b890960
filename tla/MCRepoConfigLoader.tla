--------------------------- MODULE MCRepoConfigLoader ---------------------------
(***************************************************************************)
(* RepoConfigLoader for TLC: the default branch and one other, and a text  *)
(* of each kind that matters.                                              *)
(***************************************************************************)
EXTENDS RepoConfigLoader

Text(valid, trusts, context) ==
  [valid |-> valid, trusts |-> trusts, context |-> context]

Branches == {"main", "dev"}
FileTexts == {Text(TRUE, {}, FALSE), Text(TRUE, {"dev"}, TRUE),
              Text(FALSE, {}, FALSE)}
None == Text(FALSE, {}, TRUE)

=============================================================================
