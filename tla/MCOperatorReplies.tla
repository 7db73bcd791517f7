------------------------ MODULE MCOperatorReplies ------------------------
(* The instance of OperatorReplies that TLC checks: a voice note of one    *)
(* shop, a template of another, and the sends of a third.                  *)
EXTENDS OperatorReplies, TLC

CONSTANTS note, template, other, shopA, shopB, shopC, h1, h2

MCShopOf == [c \in {note, template, other} |->
                CASE c = note -> shopA [] c = template -> shopB [] OTHER -> shopC]

(* Requests have no identity; every property here is one of safety.        *)
RequestsAlike == Permutations(Handlers)

=============================================================================
