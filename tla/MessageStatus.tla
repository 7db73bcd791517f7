--------------------------- MODULE MessageStatus ---------------------------
(***************************************************************************)
(* The delivery status of outbound messages: rows of the template ledger   *)
(* (messages) and of the inbox (chat_messages), which differ in the time   *)
(* stamps they keep.  A sender reserves the row, calls Meta and records the*)
(* answer; from then on Meta's webhook advances the status.  Meta may      *)
(* deliver a status more than once, in any order, and before the sender has*)
(* recorded the id.  A handler reads the stored status and writes the new  *)
(* one in two statements.                                                  *)
(***************************************************************************)
EXTENDS Naturals, FiniteSets

CONSTANTS
    Messages,      \* rows; each is in one of the two ledgers
    Replies,       \* those of the inbox
    Media,         \* replies with a voice note or a picture to upload
    Handlers,      \* webhook requests handled at the same time
    MaxFaults      \* bound: database calls that fail

ASSUME StatusAssumption ==
    /\ Messages # {}
    /\ Media \subseteq Replies /\ Replies \subseteq Messages
    /\ MaxFaults \in Nat

VARIABLES
    row,           \* status, whether the Meta id is stored, and the time stamps
    sender,        \* how far the message's sender is
    meta,          \* the statuses Meta has given the message
    notices,       \* statuses on their way to the webhook
    handler,       \* what each handler has read
    faults,
    early,         \* history: messages a notice was dropped for as unknown
    raced          \* history: messages two requests were about to write at once

statusVars == <<row, sender, meta, notices, handler, faults, early, raced>>

-----------------------------------------------------------------------------

Verdicts == {"sent", "delivered", "read", "failed"}
Stored   == Verdicts \cup {"none", "queued"}     \* "none": no row yet

Row     == [status : Stored, known : BOOLEAN, stamps : SUBSET Verdicts]
Notice  == [message : Messages, status : Verdicts]
Handler == [pc : {"idle", "read", "write"}, notice : Notice]

(* webhookStatusRank, whose order ShouldAdvanceStatus never goes against.  *)
Rank(status) ==
    CASE status = "sent" -> 1
      [] status = "delivered" -> 2
      [] status = "read" -> 3
      [] status = "failed" -> 4
      [] OTHER -> 0

(* Mutated form: the same status is applied again, and a failure is not    *)
(* final.                                                                  *)
ShouldAdvanceLoosely(stored, incoming) ==
    Rank(incoming) > Rank(stored) \/ stored = "failed"

ShouldAdvanceStatus(stored, incoming) == Rank(incoming) > Rank(stored)

NoNotice == CHOOSE n \in Notice : TRUE
Stop(h)  == handler' = [handler EXCEPT ![h] = [pc |-> "idle", notice |-> NoNotice]]

Init ==
    /\ row = [m \in Messages |-> [status |-> "none", known |-> FALSE, stamps |-> {}]]
    /\ sender = [m \in Messages |-> "idle"]
    /\ meta = [m \in Messages |-> {}]
    /\ notices = {}
    /\ handler = [h \in Handlers |-> [pc |-> "idle", notice |-> NoNotice]]
    /\ faults = 0
    /\ early = {}
    /\ raced = {}

-----------------------------------------------------------------------------
(* The sender: SendTemplateMessage, or one of the inbox replies.           *)

(* The row is inserted before Meta is called.                              *)
Reserve(m) ==
    /\ row[m].status = "none"
    /\ row' = [row EXCEPT ![m].status = "queued"]
    /\ sender' = [sender EXCEPT ![m] = IF m \in Media THEN "uploading" ELSE "calling"]
    /\ UNCHANGED <<meta, notices, handler, faults, early, raced>>

(* A recording is remuxed if need be, and the file is uploaded.            *)
Upload(m) ==
    /\ sender[m] = "uploading"
    /\ sender' = [sender EXCEPT ![m] = "calling"]
    /\ UNCHANGED <<row, meta, notices, handler, faults, early, raced>>

(* Meta accepts the call, and has the message from now on.                 *)
Accepted(m) ==
    /\ sender[m] = "calling"
    /\ sender' = [sender EXCEPT ![m] = "accepted"]
    /\ UNCHANGED <<row, meta, notices, handler, faults, early, raced>>

(* The template ledger stamps a failure, the inbox only its sent_at.       *)
FailureStamp(m) == IF m \in Replies THEN {} ELSE {"failed"}

(* markMessageSent, which may fail and is then only logged; a reply goes   *)
(* on to its conversation.                                                 *)
MarkSent(m) ==
    /\ sender[m] = "accepted"
    /\ sender' = [sender EXCEPT ![m] = IF m \in Replies THEN "marked" ELSE "done"]
    /\ \/ /\ row' = [row EXCEPT ![m].known = TRUE, ![m].status = "sent",
                                ![m].stamps = @ \cup {"sent"}]
          /\ UNCHANGED faults
       \/ /\ faults < MaxFaults
          /\ faults' = faults + 1
          /\ UNCHANGED row
    /\ UNCHANGED <<meta, notices, handler, early, raced>>

(* The upload or the call fails or is refused: the row is marked failed,   *)
(* without an id.  The statement may fail, for a reply above all because   *)
(* the operator's browser has gone and its context is cancelled.           *)
MarkFailed(m) ==
    /\ sender[m] \in {"uploading", "calling"}
    /\ sender' = [sender EXCEPT ![m] = "done"]
    /\ \/ /\ row' = [row EXCEPT ![m].status = "failed", ![m].stamps = @ \cup FailureStamp(m)]
          /\ UNCHANGED faults
       \/ /\ faults < MaxFaults
          /\ faults' = faults + 1
          /\ UNCHANGED row
    /\ UNCHANGED <<meta, notices, handler, early, raced>>

(* Meta's answer is lost: the message it has is marked failed all the same.*)
AnswerLost(m) ==
    /\ sender[m] = "accepted"
    /\ faults < MaxFaults
    /\ faults' = faults + 1
    /\ sender' = [sender EXCEPT ![m] = "done"]
    /\ row' = [row EXCEPT ![m].status = "failed", ![m].stamps = @ \cup FailureStamp(m)]
    /\ UNCHANGED <<meta, notices, handler, early, raced>>

-----------------------------------------------------------------------------
(* Meta: a message it has is sent, delivered and read, or fails.           *)

MetaReports(m, status) ==
    /\ sender[m] = "accepted" \/ row[m].known
    /\ status \notin meta[m]
    /\ \A earlier \in meta[m] : Rank(earlier) < Rank(status)
    /\ status = "failed" => meta[m] \cap {"delivered", "read"} = {}
    /\ meta' = [meta EXCEPT ![m] = @ \cup {status}]
    /\ notices' = notices \cup {[message |-> m, status |-> status]}
    /\ UNCHANGED <<row, sender, handler, faults, early, raced>>

-----------------------------------------------------------------------------
(* A webhook request; Meta may deliver the same one again.                 *)

Receive(h, n) ==
    /\ handler[h].pc = "idle"
    /\ n \in notices
    /\ notices' \in {notices, notices \ {n}}
    /\ handler' = [handler EXCEPT ![h] = [pc |-> "read", notice |-> n]]
    /\ UNCHANGED <<row, sender, meta, faults, early, raced>>

Writing(g, m) == handler[g].pc = "write" /\ handler[g].notice.message = m

(* The SELECT of ApplyStatusUpdate (and of updateChatMessageStatus for the *)
(* other ledger): an unknown id, a status that does not advance and a      *)
(* failed query all end the request, which is answered 200 all the same.   *)
ReadStatus(h) ==
    LET n == handler[h].notice IN
    /\ handler[h].pc = "read"
    /\ \/ /\ row[n.message].known
          /\ ShouldAdvanceStatus(row[n.message].status, n.status)
          /\ handler' = [handler EXCEPT ![h].pc = "write"]
          /\ raced' = IF \E g \in Handlers : Writing(g, n.message)
                      THEN raced \cup {n.message} ELSE raced
          /\ UNCHANGED <<faults, early>>
       \/ /\ row[n.message].known
          /\ ~ShouldAdvanceStatus(row[n.message].status, n.status)
          /\ Stop(h)
          /\ UNCHANGED <<faults, early, raced>>
       \/ /\ ~row[n.message].known
          /\ early' = early \cup {n.message}
          /\ Stop(h)
          /\ UNCHANGED <<faults, raced>>
       \/ /\ faults < MaxFaults
          /\ faults' = faults + 1
          /\ Stop(h)
          /\ UNCHANGED <<early, raced>>
    /\ UNCHANGED <<row, sender, meta, notices>>

(* Mutated form: a read receipt only moves the stamps.                     *)
WriteDropped(h) ==
    LET n == handler[h].notice IN
    /\ handler[h].pc = "write"
    /\ row' = [row EXCEPT ![n.message].stamps = @ \cup {n.status},
                          ![n.message].status = IF n.status = "read" THEN @ ELSE n.status]
    /\ Stop(h)
    /\ UNCHANGED <<sender, meta, notices, faults, early, raced>>

(* The UPDATE, by Meta id and nothing else; updateChatMessageStatus leaves *)
(* the time stamps alone.                                                  *)
WebhookStamp(n) == IF n.message \in Replies THEN {} ELSE {n.status} \ {"sent"}

(* Mutated form: the write leaves no stamp but its own.                    *)
WriteErasingStamps(h) ==
    LET n == handler[h].notice IN
    /\ handler[h].pc = "write"
    /\ row' = [row EXCEPT ![n.message].status = n.status,
                          ![n.message].stamps = WebhookStamp(n)]
    /\ Stop(h)
    /\ UNCHANGED <<sender, meta, notices, faults, early, raced>>

WriteStatus(h) ==
    LET n == handler[h].notice IN
    /\ handler[h].pc = "write"
    /\ \/ /\ row' = [row EXCEPT ![n.message].status = n.status,
                                ![n.message].stamps = @ \cup WebhookStamp(n)]
          /\ UNCHANGED faults
       \/ /\ faults < MaxFaults
          /\ faults' = faults + 1
          /\ UNCHANGED row
    /\ Stop(h)
    /\ UNCHANGED <<sender, meta, notices, early, raced>>

SenderStep(m) ==
    \/ Upload(m) \/ Accepted(m)
    \/ MarkSent(m) \/ MarkFailed(m) \/ AnswerLost(m)

WebhookNext ==
    \/ \E m \in Messages, status \in Verdicts : MetaReports(m, status)
    \/ \E h \in Handlers, n \in notices : Receive(h, n)
    \/ \E h \in Handlers : ReadStatus(h) \/ WriteStatus(h)

Next ==
    \/ \E m \in Messages : Reserve(m) \/ SenderStep(m)
    \/ WebhookNext

Spec == Init /\ [][Next]_statusVars

-----------------------------------------------------------------------------

(* The shape of the rows and of the handlers' memory.                      *)
TypeOK ==
    /\ row \in [Messages -> Row]
    /\ sender \in [Messages -> {"idle", "uploading", "calling", "accepted", "marked", "done"}]
    /\ meta \in [Messages -> SUBSET Verdicts]
    /\ notices \subseteq Notice
    /\ handler \in [Handlers -> Handler]
    /\ faults \in 0..MaxFaults

(* A stored status goes back only when two requests about the message were *)
(* about to write at the same time: no repetition or reordering of Meta's  *)
(* notices, no late answer of the sender and no failure does it alone.     *)
RegressesOnlyInARace ==
    [][\A m \in Messages :
          Rank(row'[m].status) < Rank(row[m].status) => m \in raced]_statusVars

(* Nothing about the message is under way any more, and nothing got lost.  *)
Quiet(m) ==
    /\ sender[m] \in {"marked", "done"}
    /\ m \notin early
    /\ faults = 0
    /\ \A n \in notices : n.message # m
    /\ \A h \in Handlers : handler[h].pc = "idle" \/ handler[h].notice.message # m

(* When Meta's notices have been handled, in whatever order and however    *)
(* often they came, the row shows the furthest status Meta reported, and   *)
(* the template ledger with its time stamp, unless two requests raced.     *)
FurthestStatusShown ==
    \A m \in Messages \ raced : Quiet(m) =>
        \A status \in meta[m] :
            /\ Rank(status) <= Rank(row[m].status)
            /\ row[m].status \in meta[m] \cup {"sent"}
            /\ m \notin Replies => row[m].status \in row[m].stamps

(* In the template ledger the time stamps tell how far the message got     *)
(* even then, whatever the status says.                                    *)
FurthestStatusStamped ==
    \A m \in Messages \ Replies : Quiet(m) =>
        \A status \in meta[m] :
            \E stamp \in row[m].stamps : Rank(status) <= Rank(stamp)

-----------------------------------------------------------------------------
(* Promises of comments and documents which the code does not keep: TLC    *)
(* finds a counterexample to each.                                         *)

(* The comment of handleMetaWebhook: an id the template ledger does not    *)
(* know belongs to a chat reply, which owns the row, so that a notice is   *)
(* never dropped for an outbound message of ours.                          *)
UnknownIdIsNotOurs == early = {}

(* The comment of handleMetaWebhook: "Status updates are idempotent and    *)
(* only ever move a message forward".  Two requests that both read before  *)
(* either writes take a stored status back.                                *)
NeverRegresses ==
    [][\A m \in Messages : Rank(row'[m].status) >= Rank(row[m].status)]_statusVars

=============================================================================
