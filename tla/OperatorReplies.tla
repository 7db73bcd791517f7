-------------------------- MODULE OperatorReplies --------------------------
(***************************************************************************)
(* Outbound messages from the request to the customer's phone: an operator *)
(* replies in a conversation (SendReply, SendAudioReply, SendImageReply)   *)
(* while automations send templates; both ask the same send budget before  *)
(* they reserve a row, and Meta's webhook reports on both.                 *)
(***************************************************************************)
EXTENDS MessageStatus, SendQuota

CONSTANTS
    MaxSends,      \* bound: messages that get a row
    MaxAsked       \* bound: calls of Allow in the behaviours with a webhook

ASSUME RepliesAssumption ==
    /\ Messages \subseteq Callers
    /\ MaxSends \in Nat
    /\ MaxAsked \in Nat

VARIABLES
    window,        \* the customer wrote in the last 24 hours
    preview        \* the message the conversation shows in the list

replyVars == <<window, preview>>
vars == <<statusVars, quotaVars, replyVars>>

FromCustomer == "customer"

RepliesInit ==
    /\ Init
    /\ QuotaInit
    /\ window = TRUE
    /\ preview = FromCustomer

-----------------------------------------------------------------------------

(* Bound: a behaviour is over with the budget and the conversation's window*)
(* when Meta's first report comes, and has asked for few sends by then.    *)
(* The webhook shares no state with them.                                  *)
Reported == \E m \in Messages : meta[m] # {}
Settled  == calls <= MaxAsked /\ \A c \in Callers : call[c].pc = "idle"

(* A send gets as far as Allow: Thread found the window open and the       *)
(* number's credentials are there, or the gate of SendTemplateMessage      *)
(* passed and no row has the key yet.  A refusal leaves nothing behind.    *)
Request(m) ==
    /\ row[m].status = "none" /\ ~Reported
    /\ m \in Replies => window
    /\ Ask(m)
    /\ UNCHANGED <<statusVars, replyVars>>

SendsLeft == Cardinality({m \in Messages : row[m].status # "none"}) < MaxSends

(* Allow returned nil: the row is inserted as queued.                      *)
Admitted(m) ==
    /\ call[m].answer = "allowed"
    /\ SendsLeft
    /\ Return(m)
    /\ Reserve(m)
    /\ UNCHANGED replyVars

(* Allow refused, or the INSERT failed: the request ends with the error,   *)
(* and may be made again, as a new message or a retried job.               *)
Refused(m) ==
    /\ Return(m)
    /\ \/ call[m].answer # "allowed" /\ UNCHANGED faults
       \/ /\ call[m].answer = "allowed"
          /\ faults < MaxFaults
          /\ faults' = faults + 1
    /\ UNCHANGED <<row, sender, meta, notices, handler, early, raced, replyVars>>

(* The budget's statement; its faults are counted with the others.         *)
Counting(c) ==
    /\ \/ Count(c) /\ UNCHANGED faults
       \/ CountFails(c) /\ faults < MaxFaults /\ faults' = faults + 1
    /\ UNCHANGED <<row, sender, meta, notices, handler, early, raced, replyVars>>

Working(m) == SenderStep(m) /\ UNCHANGED <<quotaVars, replyVars>>

(* After a reply is marked sent, its text becomes the conversation's last  *)
(* message.  If that fails the operator is shown an error, although the    *)
(* reply is on its way.                                                    *)
Announce(m) ==
    /\ sender[m] = "marked"
    /\ sender' = [sender EXCEPT ![m] = "done"]
    /\ \/ preview' = m /\ UNCHANGED faults
       \/ /\ faults < MaxFaults
          /\ faults' = faults + 1
          /\ UNCHANGED preview
    /\ UNCHANGED <<row, meta, notices, handler, early, raced, quotaVars, window>>

(* The other sends the budget is shared with.                              *)
OtherSend(c) ==
    /\ c \notin Messages /\ ~Reported
    /\ Ask(c) \/ Return(c)
    /\ UNCHANGED <<statusVars, replyVars>>

Webhook == WebhookNext /\ Settled /\ UNCHANGED <<quotaVars, replyVars>>

(* UpsertInbound: a customer's message opens the window again.             *)
CustomerWrites ==
    /\ ~window /\ ~Reported
    /\ window' = TRUE
    /\ preview' = FromCustomer
    /\ UNCHANGED <<statusVars, quotaVars>>

(* Time passes: minutes for the budget, a day for the conversation.        *)
Time ==
    /\ ~Reported
    /\ \/ Tick /\ UNCHANGED <<statusVars, replyVars>>
       \/ /\ window
          /\ window' = FALSE
          /\ UNCHANGED <<statusVars, quotaVars, preview>>

RepliesNext ==
    \/ \E m \in Messages :
          Request(m) \/ Admitted(m) \/ Refused(m) \/ Working(m) \/ Announce(m)
    \/ \E c \in Callers : Counting(c) \/ OtherSend(c)
    \/ Webhook \/ CustomerWrites \/ Time

RepliesSpec == RepliesInit /\ [][RepliesNext]_vars

-----------------------------------------------------------------------------

(* The shape of the conversation, and of the modules' parts.               *)
RepliesTypeOK ==
    /\ TypeOK /\ QuotaTypeOK
    /\ window \in BOOLEAN
    /\ preview \in Replies \cup {FromCustomer}

-----------------------------------------------------------------------------
(* Promises the code does not keep: TLC finds a counterexample to each.    *)

(* "SendReply delivers a free-form customer service message inside the 24h *)
(* window": the window is read first, and may close during the upload.     *)
AcceptedInsideWindow ==
    [][\A m \in Replies : Accepted(m) => window]_vars

=============================================================================
