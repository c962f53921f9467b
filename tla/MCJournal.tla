------------------------------ MODULE MCJournal ------------------------------
(***************************************************************************)
(* Bounds for checking Journal: an upstream rerun, a rerun of the review,  *)
(* and failures of both, over two seconds of a few microseconds, the first *)
(* of which is the whole second.  Two rows may be lost, so five of them    *)
(* reach two approvals of one second with an upstream rerun in between.    *)
(***************************************************************************)
EXTENDS Journal

MCTargets == {"NORMALIZE", "QA_REVIEW", "RENDER"}
=============================================================================
