--------------------------- MODULE MCSendPipeline ---------------------------
(* The instance of SendPipeline that TLC checks.                           *)
EXTENDS SendPipeline, TLC

CONSTANTS k1, k2, w1, w2, c1, c2

PipelineSymmetry == Permutations({c1, c2}) \cup Permutations({w1, w2})

=============================================================================
