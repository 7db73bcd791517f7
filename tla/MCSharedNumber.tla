--------------------------- MODULE MCSharedNumber ---------------------------
(* SharedNumber for TLC: model values.                                     *)
EXTENDS SharedNumber

CONSTANTS s1, r1

=============================================================================
