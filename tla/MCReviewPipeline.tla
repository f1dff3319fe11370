------------------------- MODULE MCReviewPipeline --------------------------
(* Instances of ReviewPipeline for TLC; the cfg files give the constants. *)
EXTENDS ReviewPipeline
=============================================================================
