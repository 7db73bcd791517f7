---------------------------- MODULE SendPipeline ----------------------------
(***************************************************************************)
(* The sends of one automation to one customer, from the event (or the     *)
(* queued job, or the merchant's retry) to the WhatsApp message.           *)
(*                                                                         *)
(* A sender is a goroutine inside one of                                   *)
(*   - a queue worker running the send job of a key, behind the gate that  *)
(*     re-checks the automation (worker.go, send_job.go),                  *)
(*   - an event handler: a Converty webhook, the delivery poll or socket,  *)
(*     which sends inline or schedules (processor.go),                     *)
(*   - the retry of held-back events (suppressions.go),                    *)
(* and all of them end in SendTemplateMessage (send.go).  Each database    *)
(* statement and each call to Meta is a step of its own: any number of     *)
(* senders may be at work on the same idempotency key, and any of them may *)
(* die between two steps.  The queue is seen through JobSlots.             *)
(*                                                                         *)
(* Templates, the shop's state, variables and the rate limit appear only   *)
(* as reasons to refuse or to fail, which may strike any send.             *)
(***************************************************************************)
EXTENDS Naturals, FiniteSets

CONSTANTS
    Keys,          \* idempotency keys: one per event the automation matches
    Workers,       \* queue workers
    Callers,       \* event handlers and retries
    MaxAttempts,   \* runs one job is worth
    MaxFaults      \* bound: deaths of senders and lost writes

ASSUME PipelineAssumption ==
    /\ Keys # {}
    /\ Workers \cap Callers = {}
    /\ MaxAttempts \in Nat \ {0}
    /\ MaxFaults \in Nat

VARIABLES
    slot, tries,   \* the send jobs, one slot per key (see JobSlots)
    message,       \* messages.status of the key's row, "none" without a row
    held,          \* keys with a row in automation_suppressions
    enabled,       \* automations.enabled
    consent,       \* status of the newest whatsapp_consent row
    sender,        \* where each sender is, and with what
    faults,        \* faults so far
    accepted,      \* history: messages Meta accepted for the key
    scheduled,     \* history: keys a send job was enqueued for
    optedOut       \* history: the merchant revoked, and granted nothing since

pipelineVars == <<slot, tries, message, held, enabled, consent, sender, faults,
                  accepted, scheduled, optedOut>>

Queue == INSTANCE JobSlots WITH Work <- Keys

-----------------------------------------------------------------------------

Senders == Workers \cup Callers

Modes   == {"job", "event", "retry"}
Results == {"none", "nil", "rejected", "outage", "error"}
Steps   == {"idle", "gate", "match", "exists", "grant", "compose", "clear",
            "lookup", "rules", "reserve", "call", "marksent", "markfailed",
            "finish"}

Sender == [pc : Steps, key : Keys, mode : Modes, result : Results,
           muted : BOOLEAN]

At(s, step) == sender[s].pc = step
Key(s)      == sender[s].key

Idle == [pc |-> "idle", key |-> CHOOSE k \in Keys : TRUE, mode |-> "event",
         result |-> "none", muted |-> FALSE]

Goto(s, step) == sender' = [sender EXCEPT ![s].pc = step]
Stop(s)       == sender' = [sender EXCEPT ![s] = Idle]

(* SendTemplateMessage returns to its caller.  Every failure of the call   *)
(* to Meta, an outage like any other, comes back as a SendRejection.       *)
Return(s, result) ==
    sender' = [sender EXCEPT ![s].pc = "finish", ![s].result = result]

Begin(s, k, mode, step) ==
    sender' = [sender EXCEPT ![s] = [pc |-> step, key |-> k, mode |-> mode,
                                     result |-> "none", muted |-> ~enabled]]

Init ==
    /\ Queue!SlotInit
    /\ message = [k \in Keys |-> "none"]
    /\ held = {}
    /\ enabled = TRUE
    /\ consent = "none"
    /\ sender = [s \in Senders |-> Idle]
    /\ faults = 0
    /\ accepted = [k \in Keys |-> 0]
    /\ scheduled = {}
    /\ optedOut = FALSE

-----------------------------------------------------------------------------
(* The merchant.                                                           *)

SetEnabled(b) ==
    /\ enabled # b
    /\ enabled' = b
    /\ sender' = [s \in Senders |->
                    [sender[s] EXCEPT !.muted = @ /\ ~b]]
    /\ UNCHANGED <<slot, tries, message, held, consent, faults, accepted,
                   scheduled, optedOut>>

(* The API's grant and revoke: each one inserts the newest consent row.    *)
SetConsent(status) ==
    /\ consent # status
    /\ consent' = status
    /\ optedOut' = (status = "revoked")
    /\ UNCHANGED <<slot, tries, message, held, enabled, sender, faults,
                   accepted, scheduled>>

-----------------------------------------------------------------------------
(* The ways into SendTemplateMessage.                                      *)

(* A worker claims the job of a key.                                       *)
TakeJob(w, k) ==
    /\ At(w, "idle")
    /\ Queue!Take({k})
    /\ Begin(w, k, "job", "gate")
    /\ UNCHANGED <<message, held, enabled, consent, faults, accepted,
                   scheduled, optedOut>>

(* Mutated form: the job is sent without asking.                           *)
GateOpen(w) ==
    /\ At(w, "gate")
    /\ Goto(w, "lookup")
    /\ UNCHANGED <<slot, tries, message, held, enabled, consent, faults,
                   accepted, scheduled, optedOut>>

(* gateAutomation: a paused automation completes the job without sending;  *)
(* a failed lookup sends on.                                               *)
Gate(w) ==
    /\ At(w, "gate")
    /\ \/ enabled /\ Goto(w, "lookup")
       \/ ~enabled /\ Return(w, "nil")
       \/ \* the lookup fails
          /\ sender' = [sender EXCEPT ![w].pc = "lookup", ![w].muted = FALSE]
    /\ UNCHANGED <<slot, tries, message, held, enabled, consent, faults,
                   accepted, scheduled, optedOut>>

(* An order or delivery event arrives, for the first time or again.        *)
EventArrives(c, k) ==
    /\ At(c, "idle")
    /\ Begin(c, k, "event", "match")
    /\ UNCHANGED <<slot, tries, message, held, enabled, consent, faults,
                   accepted, scheduled, optedOut>>

(* match: only an enabled automation, and an approved template.            *)
Match(c) ==
    /\ At(c, "match")
    /\ \/ enabled /\ Goto(c, "grant")
       \/ Stop(c)
    /\ UNCHANGED <<slot, tries, message, held, enabled, consent, faults,
                   accepted, scheduled, optedOut>>

(* RetrySuppressions takes a pending event: a held-back row, or a parcel   *)
(* sitting in the trigger status, which needs no row.                      *)
RetryPending(c, k) ==
    /\ At(c, "idle")
    /\ Begin(c, k, "retry", "exists")
    /\ UNCHANGED <<slot, tries, message, held, enabled, consent, faults,
                   accepted, scheduled, optedOut>>

(* MessageExistsForIdempotencyKey: any row counts as already sent.         *)
Exists(c) ==
    /\ At(c, "exists")
    /\ \/ message[Key(c)] = "none" /\ Goto(c, "grant")
       \/ Stop(c)  \* a row exists, or the query fails
    /\ UNCHANGED <<slot, tries, message, held, enabled, consent, faults,
                   accepted, scheduled, optedOut>>

(* send: the template may be gone; otherwise the opt-in is recorded on the *)
(* customer's behalf (a failure to record it is only logged).              *)
Grant(c) ==
    /\ At(c, "grant")
    /\ \/ Goto(c, "compose") /\ consent' \in {"opt_in", consent}
       \/ Stop(c) /\ UNCHANGED consent
    /\ UNCHANGED <<slot, tries, message, held, enabled, faults, accepted,
                   scheduled, optedOut>>

(* buildVariables and scheduledFire: the event is held back, scheduled     *)
(* through EnqueueSendAt, or sent right here.  A retry is always instant.  *)
Compose(c) ==
    LET k == Key(c) IN
    /\ At(c, "compose")
    /\ \/ /\ \/ held' = held \cup {k}
             \/ UNCHANGED held  \* RecordSuppression fails, and is only logged
          /\ Stop(c)
          /\ UNCHANGED <<slot, tries, scheduled>>
       \/ /\ sender[c].mode = "event"
          /\ IF slot[k] = "empty" THEN Queue!Add(k) ELSE UNCHANGED <<slot, tries>>
          /\ scheduled' = scheduled \cup {k}
          /\ Goto(c, "clear")
          /\ UNCHANGED held
       \/ /\ sender[c].mode = "event"
          /\ Stop(c)  \* EnqueueSendAt fails: no inline fallback
          /\ UNCHANGED <<slot, tries, scheduled, held>>
       \/ /\ Goto(c, "lookup")
          /\ UNCHANGED <<slot, tries, scheduled, held>>
    /\ UNCHANGED <<message, enabled, consent, faults, accepted, optedOut>>

-----------------------------------------------------------------------------
(* SendTemplateMessage.                                                    *)

(* findMessageByIdempotency: a row of any status answers the request.      *)
Lookup(s) ==
    /\ At(s, "lookup")
    /\ \/ message[Key(s)] = "none" /\ Goto(s, "rules")
       \/ message[Key(s)] # "none" /\ Return(s, "nil")
       \/ Return(s, "error")
    /\ UNCHANGED <<slot, tries, message, held, enabled, consent, faults,
                   accepted, scheduled, optedOut>>

(* EvaluateSendRule, the rate limit and buildComponents.                   *)
Rules(s) ==
    /\ At(s, "rules")
    /\ \/ consent = "opt_in" /\ Goto(s, "reserve")
       \/ Return(s, "rejected")
       \/ Return(s, "error")  \* a query fails, or the rate limit is reached
    /\ UNCHANGED <<slot, tries, message, held, enabled, consent, faults,
                   accepted, scheduled, optedOut>>

(* Mutated form: the insert overwrites the row it conflicts with.          *)
ReserveUpsert(s) ==
    /\ At(s, "reserve")
    /\ \/ /\ message' = [message EXCEPT ![Key(s)] = "queued"]
          /\ Goto(s, "call")
       \/ Return(s, "error") /\ UNCHANGED message
    /\ UNCHANGED <<slot, tries, held, enabled, consent, faults, accepted,
                   scheduled, optedOut>>

(* createQueuedMessage: the unique index on (shop_id, idempotency_key)     *)
(* lets one insert through; the other gets a plain error.                  *)
Reserve(s) ==
    /\ At(s, "reserve")
    /\ \/ /\ message[Key(s)] = "none"
          /\ message' = [message EXCEPT ![Key(s)] = "queued"]
          /\ Goto(s, "call")
       \/ Return(s, "error") /\ UNCHANGED message
    /\ UNCHANGED <<slot, tries, held, enabled, consent, faults, accepted,
                   scheduled, optedOut>>

(* SendTemplate: Meta accepts; or refuses, or there is no connection; or   *)
(* the failure is an outage, where Meta may have accepted all the same.    *)
CallMeta(s) ==
    /\ At(s, "call")
    /\ \/ /\ accepted' = [accepted EXCEPT ![Key(s)] = @ + 1]
          /\ Goto(s, "marksent")
       \/ /\ UNCHANGED accepted
          /\ sender' = [sender EXCEPT ![s].pc = "markfailed",
                                      ![s].result = "rejected"]
       \/ /\ accepted' \in {accepted, [accepted EXCEPT ![Key(s)] = @ + 1]}
          /\ sender' = [sender EXCEPT ![s].pc = "markfailed",
                                      ![s].result = "outage"]
    /\ UNCHANGED <<slot, tries, message, held, enabled, consent, faults,
                   scheduled, optedOut>>

(* Mutated forms: the verdict is sent whatever Meta answered; a refusal    *)
(* leaves the row queued; a refusal is recorded with a status the table    *)
(* does not know.                                                          *)
MarkAs(s, verdict) ==
    /\ \/ At(s, "marksent") /\ Return(s, "nil")
       \/ At(s, "markfailed") /\ Goto(s, "finish")
    /\ \/ message' = [message EXCEPT ![Key(s)] = verdict] /\ UNCHANGED faults
       \/ faults < MaxFaults /\ faults' = faults + 1 /\ UNCHANGED message
    /\ UNCHANGED <<slot, tries, held, enabled, consent, accepted, scheduled,
                   optedOut>>

MarkSentAlways(s)   == MarkAs(s, "sent")
MarkSentOnly(s)     == MarkAs(s, IF At(s, "marksent") THEN "sent" ELSE "queued")
MarkUnknown(s)      == MarkAs(s, IF At(s, "marksent") THEN "sent" ELSE "rejected")

(* markMessageSent and markMessageFailed; a lost write is only logged.     *)
Mark(s) ==
    /\ \/ At(s, "marksent") /\ Return(s, "nil")
       \/ At(s, "markfailed") /\ Goto(s, "finish")
    /\ \/ /\ message' = [message EXCEPT
                            ![Key(s)] = IF At(s, "marksent") THEN "sent" ELSE "failed"]
          /\ UNCHANGED faults
       \/ /\ faults < MaxFaults
          /\ faults' = faults + 1
          /\ UNCHANGED message
    /\ UNCHANGED <<slot, tries, held, enabled, consent, accepted, scheduled,
                   optedOut>>

-----------------------------------------------------------------------------
(* What becomes of the result.                                             *)

(* HandleSendWhatsAppTemplate turns every SendRejection into success; the  *)
(* runner completes the job, gives it another try, or drops it.            *)
Completed(s) == sender[s].result \in {"nil", "rejected", "outage"}

FinishJob(w) ==
    LET k == Key(w) IN
    /\ w \in Workers
    /\ At(w, "finish")
    /\ IF Completed(w) \/ tries[k] >= MaxAttempts
       THEN Queue!Finish(k) ELSE Queue!GiveBack(k)
    /\ Stop(w)
    /\ UNCHANGED <<message, held, enabled, consent, faults, accepted,
                   scheduled, optedOut>>

(* Mutated form: whatever came of the send, the held-back row goes.        *)
FinishInlineAny(c) ==
    /\ c \in Callers
    /\ At(c, "finish")
    /\ Goto(c, "clear")
    /\ UNCHANGED <<slot, tries, message, held, enabled, consent, faults,
                   accepted, scheduled, optedOut>>

(* Back in send: an accepted send, and a scheduled one, go on to clear the *)
(* held-back row.                                                          *)
FinishInline(c) ==
    /\ c \in Callers
    /\ At(c, "finish")
    /\ IF sender[c].result = "nil" THEN Goto(c, "clear") ELSE Stop(c)
    /\ UNCHANGED <<slot, tries, message, held, enabled, consent, faults,
                   accepted, scheduled, optedOut>>

Clear(c) ==
    /\ At(c, "clear")
    /\ held' \in {held \ {Key(c)}, held}  \* the delete may fail: only logged
    /\ Stop(c)
    /\ UNCHANGED <<slot, tries, message, enabled, consent, faults, accepted,
                   scheduled, optedOut>>

(* The sender's process dies, or a worker cannot record the end of its     *)
(* job: what it held in memory is gone, a job it had stays leased.         *)
Die(s) ==
    /\ ~At(s, "idle")
    /\ faults < MaxFaults
    /\ faults' = faults + 1
    /\ IF s \in Workers THEN Queue!Lose({Key(s)}) ELSE UNCHANGED <<slot, tries>>
    /\ Stop(s)
    /\ UNCHANGED <<message, held, enabled, consent, accepted, scheduled, optedOut>>

-----------------------------------------------------------------------------

Work(s) ==
    \/ Gate(s) \/ Match(s) \/ Exists(s) \/ Grant(s) \/ Compose(s)
    \/ Lookup(s) \/ Rules(s) \/ Reserve(s) \/ CallMeta(s) \/ Mark(s)
    \/ FinishJob(s) \/ FinishInline(s) \/ Clear(s)

Next ==
    \/ \E b \in BOOLEAN : SetEnabled(b)
    \/ \E status \in {"opt_in", "revoked"} : SetConsent(status)
    \/ \E w \in Workers, k \in Keys : TakeJob(w, k)
    \/ \E c \in Callers, k \in Keys : EventArrives(c, k) \/ RetryPending(c, k)
    \/ \E s \in Senders : Work(s) \/ Die(s)

Spec == Init /\ [][Next]_pipelineVars

(* A goroutine that has started goes on to its end, and workers claim what *)
(* is due.                                                                 *)
FairSpec ==
    /\ Spec
    /\ \A s \in Senders : WF_pipelineVars(Work(s))
    /\ \A k \in Keys : WF_pipelineVars(\E w \in Workers : TakeJob(w, k))

-----------------------------------------------------------------------------

(* The shape of the tables and of the senders' memory.                     *)
TypeOK ==
    /\ slot \in [Keys -> Queue!SlotStates]
    /\ tries \in [Keys -> 0..MaxAttempts]
    /\ message \in [Keys -> {"none", "queued", "sent", "failed"}]
    /\ held \subseteq Keys
    /\ enabled \in BOOLEAN
    /\ consent \in {"none", "opt_in", "revoked"}
    /\ sender \in [Senders -> Sender]
    /\ faults \in 0..MaxFaults
    /\ accepted \in [Keys -> Nat]
    /\ scheduled \subseteq Keys
    /\ optedOut \in BOOLEAN

(* Meta accepts at most one message per idempotency key, whatever races    *)
(* (a queued job, the same event twice, a retry), dies or is tried again:  *)
(* the row is reserved "before the Meta call, so a crash between check and *)
(* send never double-sends".                                               *)
AtMostOneAccepted == \A k \in Keys : accepted[k] <= 1

(* The ledger is honest about what it claims: a row that says sent was     *)
(* accepted by Meta, and nothing was accepted without a row.               *)
LedgerHonest ==
    \A k \in Keys :
        /\ message[k] = "sent" => accepted[k] = 1
        /\ message[k] = "none" => accepted[k] = 0

(* The sender that reserved the row of k and has not recorded its fate.    *)
Owns(s, k) ==
    Key(s) = k /\ sender[s].pc \in {"call", "marksent", "markfailed"}

(* The inductive invariant behind the two: a row being worked on is queued *)
(* and has one owner, and Meta has accepted nothing for a key before its   *)
(* owner's call.                                                           *)
OneOwner ==
    \A s1, s2 \in Senders, k \in Keys : Owns(s1, k) /\ Owns(s2, k) => s1 = s2

OwnedIsQueued ==
    \A s \in Senders, k \in Keys : Owns(s, k) => message[k] = "queued"

AcceptedByItsOwner ==
    \A s \in Senders, k \in Keys :
        Owns(s, k) =>
            /\ At(s, "call") => accepted[k] = 0
            /\ At(s, "marksent") => accepted[k] = 1

(* Pausing an automation also stops what it already queued: a worker whose *)
(* automation has been paused since before it claimed the job never gets   *)
(* past the gate, unless the lookup itself failed.                         *)
PauseStopsQueuedSends ==
    \A w \in Workers :
        sender[w].muted => ~enabled /\ sender[w].pc \in {"gate", "finish"}

IInv ==
    /\ TypeOK
    /\ AtMostOneAccepted
    /\ LedgerHonest
    /\ OneOwner
    /\ OwnedIsQueued
    /\ AcceptedByItsOwner
    /\ PauseStopsQueuedSends

(* A held-back event is only forgotten when something else remembers it:   *)
(* the message row, or the job that was scheduled for it.                  *)
HeldBackNotForgotten ==
    [][\A k \in held \ held' : message[k] # "none" \/ k \in scheduled]_pipelineVars

(* A message left queued by a fault: nobody is going to record its fate.   *)
Abandoned(k) ==
    message[k] = "queued" /\ faults > 0 /\ \A s \in Senders : ~Owns(s, k)

(* Every reserved message gets its verdict, unless a fault abandoned it.   *)
ReservedIsResolved ==
    \A k \in Keys : message[k] = "queued" ~> message[k] # "queued" \/ Abandoned(k)

-----------------------------------------------------------------------------
(* Promises of comments and documents which the code does not keep: TLC    *)
(* finds a counterexample to each.                                         *)

(* The comments of HandleSendWhatsAppTemplate and retryBase: a transient   *)
(* failure, a Meta outage, is retried while the job has attempts left.     *)
OutageIsRetried ==
    [][\A w \in Workers :
          At(w, "finish") /\ sender[w].result = "outage" /\ tries[Key(w)] < MaxAttempts
            => slot'[Key(w)] # "empty"]_pipelineVars

(* The comment where send clears a held-back row: "the customer has the    *)
(* message now".                                                           *)
ClearedMeansDelivered ==
    [][\A k \in held \ held' : accepted[k] = 1 \/ k \in scheduled]_pipelineVars

(* The opt-out promise: once the customer's opt-in is revoked no send      *)
(* passes the gate until the merchant records a new one.                   *)
OptOutIsRespected ==
    [][\A s \in Senders :
          At(s, "rules") /\ sender'[s].pc = "reserve" => ~optedOut]_pipelineVars

=============================================================================
