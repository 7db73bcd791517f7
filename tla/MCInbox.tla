------------------------------ MODULE MCInbox ------------------------------
(* The instance of Inbox that TLC checks: every message is of the one      *)
(* conversation.                                                           *)
EXTENDS Inbox, TLC

CONSTANTS c1, m1, m2, h1, h2, w1, w2

OnlyConversation(m) == c1

InboxSymmetry ==
    Permutations(Messages) \cup Permutations(Handlers) \cup Permutations(Workers)

=============================================================================
