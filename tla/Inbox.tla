------------------------------- MODULE Inbox -------------------------------
(***************************************************************************)
(* The customer inbox (chat.go) and its first-contact greeting             *)
(* (autoreply.go).  A webhook request looks an inbound message up, then    *)
(* stores it and its conversation in one transaction, then schedules the   *)
(* greeting if the conversation is new; Meta may deliver a message again,  *)
(* late, or after a later one.  The greeting is a job of the queue, seen   *)
(* through JobSlots; its handler claims the conversation, then sends.      *)
(***************************************************************************)
EXTENDS Integers, FiniteSets

CONSTANTS
    Convs,         \* (shop, customer phone) pairs
    Messages,      \* Meta ids of inbound messages
    From(_),       \* the conversation of a message
    Handlers,      \* webhook requests handled at the same time
    Workers,       \* queue workers
    Window,        \* customerServiceWindow, in ticks
    MaxAttempts,   \* runs one job is worth
    MaxTime,       \* bound: ticks
    MaxFaults      \* bound: failed statements and calls, deaths

ASSUME InboxAssumption ==
    /\ Convs # {} /\ Messages # {}
    /\ \A m \in Messages : From(m) \in Convs
    /\ Window \in Nat \ {0}
    /\ MaxAttempts \in Nat \ {0}
    /\ MaxTime \in Nat
    /\ MaxFaults \in Nat

VARIABLES
    now,
    sentAt,        \* when the customer wrote each message, 0 before
    deliveries,    \* messages Meta is going to deliver to the webhook
    conv,          \* conversations
    stored,        \* inbound chat_messages rows per Meta id, up to 2
    handler,       \* where each webhook request is
    slot, tries,   \* the greeting jobs, one slot per conversation
    enabled,       \* shop_autoreplies.enabled, with content
    worker,        \* where each worker is with a greeting
    faults,
    firsts,        \* history: times a conversation was called new, up to 2
    greetings      \* history: greetings Meta accepted, up to 2

inboxVars == <<now, sentAt, deliveries, conv, stored, handler, slot, tries,
               enabled, worker, faults, firsts, greetings>>

Queue == INSTANCE JobSlots WITH Work <- Convs

-----------------------------------------------------------------------------

Conv    == [exists : BOOLEAN, unread : Nat, expires : Nat, greeted : BOOLEAN]
Handler == [pc : {"idle", "exists", "commit", "schedule"}, message : Messages]
Worker  == [pc : {"idle", "load", "claim", "window", "call", "finish"},
            conv : Convs, result : {"nil", "error", "permanent"}]

IdleHandler == [pc |-> "idle", message |-> CHOOSE m \in Messages : TRUE]
IdleWorker  == [pc |-> "idle", conv |-> CHOOSE c \in Convs : TRUE, result |-> "nil"]

Upto2(n) == IF n < 2 THEN n + 1 ELSE n

(* A statement or a call fails.                                            *)
Fault == faults < MaxFaults /\ faults' = faults + 1

Stop(h) == handler' = [handler EXCEPT ![h] = IdleHandler]

Return(w, result) ==
    worker' = [worker EXCEPT ![w].pc = "finish", ![w].result = result]

Init ==
    /\ now = 1
    /\ sentAt = [m \in Messages |-> 0]
    /\ deliveries = {}
    /\ conv = [c \in Convs |-> [exists |-> FALSE, unread |-> 0, expires |-> 0,
                                greeted |-> FALSE]]
    /\ stored = [m \in Messages |-> 0]
    /\ handler = [h \in Handlers |-> IdleHandler]
    /\ Queue!SlotInit
    /\ enabled \in BOOLEAN
    /\ worker = [w \in Workers |-> IdleWorker]
    /\ faults = 0
    /\ firsts = [c \in Convs |-> 0]
    /\ greetings = [c \in Convs |-> 0]

-----------------------------------------------------------------------------
(* The customer, the operator and the clock.                               *)

CustomerWrites(m) ==
    /\ sentAt[m] = 0
    /\ sentAt' = [sentAt EXCEPT ![m] = now]
    /\ deliveries' = deliveries \cup {m}
    /\ UNCHANGED <<now, conv, stored, handler, slot, tries, enabled, worker,
                   faults, firsts, greetings>>

(* MarkThreadRead.                                                         *)
MarkThreadRead(c) ==
    /\ conv[c].unread > 0
    /\ conv' = [conv EXCEPT ![c].unread = 0]
    /\ UNCHANGED <<now, sentAt, deliveries, stored, handler, slot, tries, enabled,
                   worker, faults, firsts, greetings>>

(* SaveFirstContactAutoreply switches the greeting on and off.             *)
SaveFirstContactAutoreply ==
    /\ enabled' = ~enabled
    /\ UNCHANGED <<now, sentAt, deliveries, conv, stored, handler, slot, tries,
                   worker, faults, firsts, greetings>>

Tick ==
    /\ now < MaxTime
    /\ now' = now + 1
    /\ UNCHANGED <<sentAt, deliveries, conv, stored, handler, slot, tries, enabled,
                   worker, faults, firsts, greetings>>

-----------------------------------------------------------------------------
(* The webhook request of one inbound message; it is answered 200 however  *)
(* it ends.                                                                *)

(* Meta delivers, and may deliver the same message again.                  *)
Receive(h, m) ==
    /\ handler[h].pc = "idle"
    /\ m \in deliveries
    /\ deliveries' \in {deliveries, deliveries \ {m}}
    /\ handler' = [handler EXCEPT ![h] = [pc |-> "exists", message |-> m]]
    /\ UNCHANGED <<now, sentAt, conv, stored, slot, tries, enabled, worker, faults,
                   firsts, greetings>>

(* UpsertInbound looks the Meta id up before anything else.                *)
Exists(h) ==
    /\ handler[h].pc = "exists"
    /\ \/ /\ stored[handler[h].message] = 0
          /\ handler' = [handler EXCEPT ![h].pc = "commit"]
          /\ UNCHANGED faults
       \/ /\ stored[handler[h].message] > 0
          /\ Stop(h)
          /\ UNCHANGED faults
       \/ Fault /\ Stop(h)
    /\ UNCHANGED <<now, sentAt, deliveries, conv, stored, slot, tries, enabled,
                   worker, firsts, greetings>>

(* Mutated forms: a thread without unread messages counts as new; the      *)
(* message is stored even when the conversation could not be.              *)
CommitUnread(h) ==
    LET m == handler[h].message
        c == From(m)
        new == conv[c].unread = 0
    IN
    /\ handler[h].pc = "commit"
    /\ conv' = [conv EXCEPT ![c].exists = TRUE, ![c].unread = @ + 1,
                            ![c].expires = sentAt[m] + Window]
    /\ stored' = [stored EXCEPT ![m] = Upto2(@)]
    /\ firsts' = [firsts EXCEPT ![c] = IF new THEN Upto2(@) ELSE @]
    /\ IF new THEN handler' = [handler EXCEPT ![h].pc = "schedule"] ELSE Stop(h)
    /\ UNCHANGED <<now, sentAt, deliveries, slot, tries, enabled, worker, faults,
                   greetings>>

CommitApart(h) ==
    LET m == handler[h].message
        c == From(m)
    IN
    /\ handler[h].pc = "commit"
    /\ \/ /\ conv' = [conv EXCEPT ![c].exists = TRUE, ![c].unread = @ + 1,
                                  ![c].expires = sentAt[m] + Window]
          /\ UNCHANGED faults
       \/ Fault /\ UNCHANGED conv
    /\ stored' = [stored EXCEPT ![m] = Upto2(@)]
    /\ Stop(h)
    /\ UNCHANGED <<now, sentAt, deliveries, slot, tries, enabled, worker, firsts,
                   greetings>>

(* The transaction: the conversation is created or refreshed, the message  *)
(* inserted.  xmax = 0 tells a new conversation.                           *)
Commit(h) ==
    LET m == handler[h].message
        c == From(m)
        new == ~conv[c].exists
    IN
    /\ handler[h].pc = "commit"
    /\ \/ /\ conv' = [conv EXCEPT ![c].exists = TRUE, ![c].unread = @ + 1,
                                  ![c].expires = sentAt[m] + Window]
          /\ stored' = [stored EXCEPT ![m] = Upto2(@)]
          /\ firsts' = [firsts EXCEPT ![c] = IF new THEN Upto2(@) ELSE @]
          /\ IF new THEN handler' = [handler EXCEPT ![h].pc = "schedule"] ELSE Stop(h)
          /\ UNCHANGED faults
       \/ /\ Fault
          /\ Stop(h)
          /\ UNCHANGED <<conv, stored, firsts>>
    /\ UNCHANGED <<now, sentAt, deliveries, slot, tries, enabled, worker, greetings>>

(* ScheduleFirstContactReply: a failure is logged and forgotten.           *)
ScheduleFirstContactReply(h) ==
    LET c == From(handler[h].message) IN
    /\ handler[h].pc = "schedule"
    /\ \/ /\ IF enabled /\ slot[c] = "empty" THEN Queue!Add(c)
             ELSE UNCHANGED <<slot, tries>>
          /\ UNCHANGED faults
       \/ Fault /\ UNCHANGED <<slot, tries>>
    /\ Stop(h)
    /\ UNCHANGED <<now, sentAt, deliveries, conv, stored, enabled, worker, firsts,
                   greetings>>

-----------------------------------------------------------------------------
(* SendFirstContactReplyJob.                                               *)

TakeJob(w, c) ==
    /\ worker[w].pc = "idle"
    /\ Queue!Take({c})
    /\ worker' = [worker EXCEPT ![w] = [pc |-> "load", conv |-> c, result |-> "nil"]]
    /\ UNCHANGED <<now, sentAt, deliveries, conv, stored, handler, enabled, faults,
                   firsts, greetings>>

(* The greeting is loaded again: it may have been switched off since.      *)
LoadGreeting(w) ==
    /\ worker[w].pc = "load"
    /\ \/ /\ enabled
          /\ worker' = [worker EXCEPT ![w].pc = "claim"]
          /\ UNCHANGED faults
       \/ ~enabled /\ Return(w, "nil") /\ UNCHANGED faults
       \/ Fault /\ Return(w, "error")
    /\ UNCHANGED <<now, sentAt, deliveries, conv, stored, handler, slot, tries,
                   enabled, firsts, greetings>>

(* Mutated form: the flag is set, but nobody looks at it.                  *)
ClaimBlindly(w) ==
    /\ worker[w].pc = "claim"
    /\ conv' = [conv EXCEPT ![worker[w].conv].greeted = TRUE]
    /\ worker' = [worker EXCEPT ![w].pc = "window"]
    /\ UNCHANGED <<now, sentAt, deliveries, stored, handler, slot, tries, enabled,
                   faults, firsts, greetings>>

(* UPDATE ... WHERE first_contact_autoreplied_at IS NULL.                  *)
ClaimConversation(w) ==
    LET c == worker[w].conv IN
    /\ worker[w].pc = "claim"
    /\ \/ /\ ~conv[c].greeted
          /\ conv' = [conv EXCEPT ![c].greeted = TRUE]
          /\ worker' = [worker EXCEPT ![w].pc = "window"]
          /\ UNCHANGED faults
       \/ conv[c].greeted /\ Return(w, "nil") /\ UNCHANGED <<conv, faults>>
       \/ Fault /\ Return(w, "error") /\ UNCHANGED conv
    /\ UNCHANGED <<now, sentAt, deliveries, stored, handler, slot, tries, enabled,
                   firsts, greetings>>

(* SendReply up to the call: the media of the greeting may be gone, the    *)
(* service window closed, the shop not connected; the rate limit and the   *)
(* insert of the outbound bubble may fail.                                 *)
ReplyWindow(w) ==
    /\ worker[w].pc = "window"
    /\ \/ /\ conv[worker[w].conv].expires > now
          /\ worker' = [worker EXCEPT ![w].pc = "call"]
          /\ UNCHANGED faults
       \/ /\ conv[worker[w].conv].expires <= now
          /\ Return(w, "permanent")
          /\ UNCHANGED faults
       \/ Fault /\ \E result \in {"nil", "error", "permanent"} : Return(w, result)
    /\ UNCHANGED <<now, sentAt, deliveries, conv, stored, handler, slot, tries,
                   enabled, firsts, greetings>>

(* Meta accepts, after which the last statement of SendReply may still     *)
(* fail; or the call fails.                                                *)
CallMeta(w) ==
    LET c == worker[w].conv IN
    /\ worker[w].pc = "call"
    /\ \/ /\ greetings' = [greetings EXCEPT ![c] = Upto2(@)]
          /\ \/ Return(w, "nil") /\ UNCHANGED faults
             \/ Fault /\ Return(w, "error")
       \/ Fault /\ Return(w, "error") /\ UNCHANGED greetings
    /\ UNCHANGED <<now, sentAt, deliveries, conv, stored, handler, slot, tries,
                   enabled, firsts>>

FinishJob(w) ==
    LET c == worker[w].conv IN
    /\ worker[w].pc = "finish"
    /\ IF worker[w].result # "error" \/ tries[c] >= MaxAttempts
       THEN Queue!Finish(c) ELSE Queue!GiveBack(c)
    /\ worker' = [worker EXCEPT ![w] = IdleWorker]
    /\ UNCHANGED <<now, sentAt, deliveries, conv, stored, handler, enabled, faults,
                   firsts, greetings>>

(* The process of a handler or of a worker dies.                           *)
HandlerDies(h) ==
    /\ handler[h].pc # "idle"
    /\ Fault
    /\ Stop(h)
    /\ UNCHANGED <<now, sentAt, deliveries, conv, stored, slot, tries, enabled,
                   worker, firsts, greetings>>

WorkerDies(w) ==
    /\ worker[w].pc # "idle"
    /\ Fault
    /\ Queue!Lose({worker[w].conv})
    /\ worker' = [worker EXCEPT ![w] = IdleWorker]
    /\ UNCHANGED <<now, sentAt, deliveries, conv, stored, handler, enabled, firsts,
                   greetings>>

-----------------------------------------------------------------------------

Handle(h) == Exists(h) \/ Commit(h) \/ ScheduleFirstContactReply(h)

Greet(w) ==
    \/ LoadGreeting(w) \/ ClaimConversation(w) \/ ReplyWindow(w)
    \/ CallMeta(w) \/ FinishJob(w)

Next ==
    \/ \E m \in Messages : CustomerWrites(m)
    \/ \E c \in Convs : MarkThreadRead(c)
    \/ SaveFirstContactAutoreply
    \/ Tick
    \/ \E h \in Handlers, m \in Messages : Receive(h, m)
    \/ \E h \in Handlers : Handle(h) \/ HandlerDies(h)
    \/ \E w \in Workers, c \in Convs : TakeJob(w, c)
    \/ \E w \in Workers : Greet(w) \/ WorkerDies(w)

Spec == Init /\ [][Next]_inboxVars

(* A request and a job that have started go on to their end, and workers   *)
(* claim what is due.  Nothing makes a customer write or time run out.     *)
FairSpec ==
    /\ Spec
    /\ \A h \in Handlers : WF_inboxVars(Handle(h))
    /\ \A w \in Workers : WF_inboxVars(Greet(w))
    /\ \A c \in Convs : WF_inboxVars(\E w \in Workers : TakeJob(w, c))

-----------------------------------------------------------------------------

(* The shape of the tables and of the requests' memory.                    *)
TypeOK ==
    /\ now \in 1..(MaxTime + 1)
    /\ sentAt \in [Messages -> 0..(MaxTime + 1)]
    /\ deliveries \subseteq Messages
    /\ conv \in [Convs -> Conv]
    /\ stored \in [Messages -> 0..2]
    /\ handler \in [Handlers -> Handler]
    /\ slot \in [Convs -> Queue!SlotStates]
    /\ tries \in [Convs -> 0..MaxAttempts]
    /\ enabled \in BOOLEAN
    /\ worker \in [Workers -> Worker]
    /\ faults \in 0..MaxFaults
    /\ firsts \in [Convs -> 0..2]
    /\ greetings \in [Convs -> 0..2]

(* "Fire the shop's first-contact auto-reply exactly once", the half that  *)
(* holds: a customer is never greeted twice, however often the message is  *)
(* delivered, the job retried, or its run lost after Meta had accepted.    *)
GreetedAtMostOnce == \A c \in Convs : greetings[c] <= 1

(* A conversation is called new at most once, and is called new before it  *)
(* is greeted, although requests race to create it.                        *)
FirstContactOnce ==
    \A c \in Convs :
        /\ firsts[c] <= 1
        /\ conv[c].greeted \/ slot[c] # "empty" => firsts[c] = 1

(* The two tables agree: a conversation exists exactly when a message of   *)
(* it is stored, and counts no more unread messages than are stored.       *)
ThreadsMatchMessages ==
    \A c \in Convs :
        LET mine == {m \in Messages : From(m) = c /\ stored[m] > 0} IN
        /\ conv[c].exists <=> mine # {}
        /\ (\A m \in mine : stored[m] = 1) => conv[c].unread <= Cardinality(mine)

-----------------------------------------------------------------------------
(* Promises of comments and documents which the code does not keep: TLC    *)
(* finds a counterexample to each.                                         *)

(* "Re-deliveries of the same Meta message id are ignored": one row per    *)
(* message, although two requests may be at work on it at once.            *)
RedeliveriesIgnored == \A m \in Messages : stored[m] <= 1

(* A greeting whose run failed for a passing reason is given back to the   *)
(* queue so that another run sends it ("returning an error retries the     *)
(* job"), unless the greeting is switched off or the window closes.        *)
RetriedGreetingIsSent ==
    \A c \in Convs :
        slot[c] = "waiting" /\ tries[c] > 0 ~>
            greetings[c] > 0 \/ ~enabled \/ conv[c].expires <= now

(* The schema's comment on window_expires_at: replies are allowed until a  *)
(* window after the customer's last message.                               *)
WindowFollowsLastMessage ==
    \A c \in Convs, m \in Messages :
        From(m) = c /\ stored[m] > 0 => conv[c].expires >= sentAt[m] + Window

=============================================================================
