----------------------------- MODULE MCConverty -----------------------------
(* EventIntake for TLC: model values, and the events of one store.         *)
EXTENDS EventIntake, TLC

CONSTANTS s1, r1, r2, w1, w2, b1

(* An event that carries the store's id but not its slug.                  *)
Events == {[id |-> b1, store |-> s1, refs |-> {"id"}]}

Symmetry == Permutations({r1, r2}) \cup Permutations({w1, w2})

=============================================================================
