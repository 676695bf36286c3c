--------------------------- MODULE MCMergeRequests ---------------------------
(* Instances of MergeRequests for model checking. *)
EXTENDS MergeRequests

CONSTANTS feat, main, dev

=============================================================================
