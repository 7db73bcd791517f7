----------------------------- MODULE MCJobQueue -----------------------------
(* The instance of JobQueue, and of its refinement of JobSlots, that TLC   *)
(* checks: ids, pairs and instances are model values.                      *)
EXTENDS JobQueueRefinement, TLC

CONSTANTS j1, j2, w1, w2, r1, r2

=============================================================================
