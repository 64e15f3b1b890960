-------------------------- MODULE MCReviewingService --------------------------
(***************************************************************************)
(* ReviewingService on the instances of MCReviewService.                   *)
(***************************************************************************)
EXTENDS MCReviewService, ReviewingService

=============================================================================
