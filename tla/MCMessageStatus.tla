-------------------------- MODULE MCMessageStatus --------------------------
(* The instance of MessageStatus that TLC checks: a template's message, a  *)
(* voice note, and requests that may race on either.                       *)
EXTENDS MessageStatus, TLC

CONSTANTS template, note, h1, h2

(* Requests have no identity; every property here is one of safety.        *)
RequestsAlike == Permutations(Handlers)

=============================================================================
