-------------------------- MODULE TemplateLifecycle --------------------------
(***************************************************************************)
(* Message templates between the operator, Meta's review and the purge     *)
(* (templates.go, purge.go, templates_handlers.go).                        *)
(*                                                                         *)
(* A template is a name and a language: one row of the table templates and *)
(* one entry of the messaging account.  Meta reviews it at any time; the   *)
(* row learns of it when somebody synchronises.  A row in a negative state *)
(* (rejected, paused, or flagged as marketing) is in an episode: it may be *)
(* edited for a grace window and is removed after it, by a delayed job or  *)
(* by the next visit of the templates page.                                *)
(*                                                                         *)
(* A request is a goroutine: an operator's request, or a queue worker with *)
(* a purge job.  Each statement and each call to Meta is one step, so two  *)
(* requests interleave between any two of them, and either may die there.  *)
(* The queue is seen through JobSlots, with the episode as dedupe key.     *)
(*                                                                         *)
(* The sending number is connected throughout, and the texts, examples and *)
(* variables of a draft are in MessageText.                                *)
(***************************************************************************)
EXTENDS Naturals

CONSTANTS
    Templates,     \* (name, language) pairs of the shop
    Requests,      \* requests and workers that may be under way
    Grace,         \* cfg.TemplateNegativeGrace, in ticks
    MaxAttempts,   \* runs one purge job is worth
    MaxTime,       \* bound: the clock
    MaxFaults      \* bound: failed statements, lost answers, deaths

ASSUME LifecycleAssumption ==
    /\ Templates # {}
    /\ Grace \in Nat \ {0}
    /\ MaxAttempts \in Nat \ {0}
    /\ MaxTime \in Nat
    /\ MaxFaults \in Nat

VARIABLES
    row,           \* the table templates
    meta,          \* the messaging account
    now,           \* the clock
    slot, tries,   \* the purge jobs (JobSlots)
    req,           \* where each request is, and what it has in memory
    faults         \* faults so far

Times  == 0 .. MaxTime
Never  == MaxTime + 1          \* a timestamp that is NULL
Episodes == Templates \X Times \* template id and negative_at: the dedupe key

Queue == INSTANCE JobSlots WITH Work <- Episodes

lifecycleVars == <<row, meta, now, slot, tries, req, faults>>

-----------------------------------------------------------------------------

(* "rejected" stands for the negative reviews: rejected or paused.        *)
Negatives == {"rejected"}
Approvals == {"pending", "approved", "deleted"} \cup Negatives

(* "none" is a row that does not exist.                                    *)
Row == [approval  : Approvals \cup {"none"},
        flagged   : BOOLEAN,          \* marketing_flagged
        negAt     : Times \cup {Never},
        scheduled : BOOLEAN,          \* purge_scheduled_at IS NOT NULL
        metaId    : BOOLEAN]          \* meta_template_id <> ''

NoRow == [approval |-> "none", flagged |-> FALSE, negAt |-> Never,
          scheduled |-> FALSE, metaId |-> FALSE]

(* "none" is not listed; "marketing" is approved in that category.         *)
Reviewed  == {"approved", "marketing"} \cup Negatives
MetaState == {"none", "pending", "deleted"} \cup Reviewed

Modes == {"create", "edit", "sync", "page", "delete", "job"}
Steps == {"idle", "insert", "select", "enqueue", "mark", "editcall",
          "editwrite", "sync", "attached", "jobread", "erase", "bury", "close"}

Request == [pc      : Steps,
            mode    : Modes,
            t       : Templates,
            verdict : {"pending", "marketing", "rejected"},
            todo    : SUBSET Templates,        \* rows to sync or to purge
            owed    : SUBSET Episodes,         \* purges to enqueue
            listing : [Templates -> MetaState],
            episode : Episodes]

Idle == [pc |-> "idle", mode |-> "sync", t |-> CHOOSE t \in Templates : TRUE,
         verdict |-> "pending", todo |-> {}, owed |-> {},
         listing |-> [t \in Templates |-> "none"],
         episode |-> <<CHOOSE t \in Templates : TRUE, 0>>]

At(r, step) == req[r].pc = step

NegativeReview(approval, flagged) == flagged \/ approval \in Negatives

Exists(t)  == row[t].approval # "none"
Live(t)    == row[t].approval \notin {"none", "deleted"}

(* HandlePurgeNegativeTemplate's condition; the page's one is strict.      *)
Elapsed(t) == row[t].negAt + Grace <= now
Overdue(t) == row[t].negAt + Grace < now /\ Live(t)

(* TemplateGraceRemaining: a negative row without a timestamp (a deleted   *)
(* one that is flagged, too) has its full window open.                     *)
Editable(t) ==
    /\ Exists(t)
    /\ row[t].metaId
    /\ NegativeReview(row[t].approval, row[t].flagged)
    /\ row[t].negAt = Never \/ ~Elapsed(t)

Goto(r, step) == req' = [req EXCEPT ![r].pc = step]
Reset(r, step) == req' = [req EXCEPT ![r] = [Idle EXCEPT !.pc = step]]
Stop(r)       == req' = [req EXCEPT ![r] = Idle]

Begin(r, request) == At(r, "idle") /\ req' = [req EXCEPT ![r] = request]

Init ==
    /\ row = [t \in Templates |-> NoRow]
    /\ meta = [t \in Templates |-> "none"]
    /\ now = 0
    /\ Queue!SlotInit
    /\ req = [r \in Requests |-> Idle]
    /\ faults = 0

Fault == faults < MaxFaults /\ faults' = faults + 1

-----------------------------------------------------------------------------
(* Meta and the clock.                                                     *)

Review(t) ==
    /\ meta[t] \in {"pending"} \cup Reviewed
    /\ \E verdict \in Reviewed \ {meta[t]} :
          meta' = [meta EXCEPT ![t] = verdict]
    /\ UNCHANGED <<row, now, slot, tries, req, faults>>

Tick ==
    /\ now < MaxTime
    /\ now' = now + 1
    /\ UNCHANGED <<row, meta, slot, tries, req, faults>>

-----------------------------------------------------------------------------
(* CreateTemplate: the submission, then the row.  Meta refuses a name it   *)
(* has, and what it pleases; a lost answer reads like a refusal.           *)

Submit(r, t) ==
    /\ \E verdict \in {"pending", "marketing", "rejected"} :
          Begin(r, [Idle EXCEPT !.pc = "insert", !.mode = "create", !.t = t,
                                !.verdict = verdict])
    /\ IF req'[r].verdict = "rejected"
          THEN \/ UNCHANGED <<meta, faults>>
               \/ /\ meta[t] \in {"none", "deleted"}
                  /\ meta' = [meta EXCEPT ![t] = "pending"]
                  /\ Fault
          ELSE /\ meta[t] \in {"none", "deleted"}
               /\ meta' = [meta EXCEPT ![t] = "pending"]
               /\ UNCHANGED faults
    /\ UNCHANGED <<row, now, slot, tries>>

(* The upsert: a resubmission takes the existing row over.                 *)
Insert(r) ==
    LET t == req[r].t
        approval == IF req[r].verdict = "rejected" THEN "rejected" ELSE "pending"
        flagged  == req[r].verdict = "marketing"
        negative == NegativeReview(approval, flagged)
    IN  /\ At(r, "insert")
        /\ row' = [row EXCEPT ![t] =
                     [approval |-> approval, flagged |-> flagged,
                      negAt |-> IF negative THEN now ELSE Never,
                      scheduled |-> FALSE,
                      metaId |-> approval # "rejected"]]
        /\ IF negative THEN Reset(r, "select") ELSE Stop(r)
        /\ UNCHANGED <<meta, now, slot, tries, faults>>

-----------------------------------------------------------------------------
(* enqueueUnscheduledPurges: a select, then a job and a mark for each row. *)

Unscheduled == {t \in Templates :
                  Live(t) /\ row[t].negAt # Never /\ ~row[t].scheduled}

SelectUnscheduled(r) ==
    /\ At(r, "select")
    /\ IF Unscheduled = {} THEN Stop(r)
       ELSE req' = [req EXCEPT ![r].pc = "enqueue",
                               ![r].owed = {<<t, row[t].negAt>> : t \in Unscheduled}]
    /\ UNCHANGED <<row, meta, now, slot, tries, faults>>

(* What is left of the loop once e is dealt with.                          *)
NextOwed(r, e) ==
    IF req[r].owed = {e} THEN Stop(r)
    ELSE req' = [req EXCEPT ![r].pc = "enqueue", ![r].owed = @ \ {e}]

(* enqueuePurge: the dedupe key lets one waiting job in per episode.       *)
EnqueuePurge(r, e) ==
    /\ At(r, "enqueue")
    /\ e \in req[r].owed
    /\ \/ /\ \/ Queue!Add(e)
             \/ slot[e] # "empty" /\ UNCHANGED <<slot, tries>>
          /\ req' = [req EXCEPT ![r].pc = "mark", ![r].episode = e]
          /\ UNCHANGED faults
       \/ /\ Fault
          /\ NextOwed(r, e)
          /\ UNCHANGED <<slot, tries>>
    /\ UNCHANGED <<row, meta, now>>

(* The mark names the row, not the episode.                                *)
MarkScheduled(r) ==
    /\ At(r, "mark")
    /\ row' = [row EXCEPT ![req[r].episode[1]].scheduled = TRUE]
    /\ NextOwed(r, req[r].episode)
    /\ UNCHANGED <<meta, now, slot, tries, faults>>

-----------------------------------------------------------------------------
(* UpdateTemplate: the row, the edit at Meta, the row again.               *)

EditRead(r, t) ==
    /\ Editable(t)
    /\ Begin(r, [Idle EXCEPT !.pc = "editcall", !.mode = "edit", !.t = t])
    /\ UNCHANGED <<row, meta, now, slot, tries, faults>>

(* Meta edits what it has reviewed, or refuses; a lost answer reads like a *)
(* refusal.                                                                *)
EditCall(r) ==
    LET t == req[r].t IN
    /\ At(r, "editcall")
    /\ \/ /\ meta[t] \in Reviewed
          /\ meta' = [meta EXCEPT ![t] = "pending"]
          /\ req' = [req EXCEPT ![r].pc = "editwrite", ![r].verdict = "pending"]
          /\ UNCHANGED faults
       \/ /\ meta[t] \in Reviewed
          /\ meta' = [meta EXCEPT ![t] = "pending"]
          /\ req' = [req EXCEPT ![r].pc = "editwrite", ![r].verdict = "rejected"]
          /\ Fault
       \/ /\ req' = [req EXCEPT ![r].pc = "editwrite", ![r].verdict = "rejected"]
          /\ UNCHANGED <<meta, faults>>
    /\ UNCHANGED <<row, now, slot, tries>>

(* A refused edit restarts the window; an accepted one ends the episode.   *)
EditWrite(r) ==
    LET t == req[r].t IN
    /\ At(r, "editwrite")
    /\ row' = [row EXCEPT ![t] =
                 IF req[r].verdict = "rejected"
                 THEN [@ EXCEPT !.approval = "rejected", !.negAt = now,
                                !.scheduled = FALSE]
                 ELSE [@ EXCEPT !.approval = "pending", !.flagged = FALSE,
                                !.negAt = Never, !.scheduled = FALSE]]
    /\ Stop(r)
    /\ UNCHANGED <<meta, now, slot, tries, faults>>

-----------------------------------------------------------------------------
(* SyncTemplates: the list of Meta, then one update per listed template.   *)

ListTemplates(r) ==
    /\ LET listed == {t \in Templates : meta[t] # "none"}
       IN  Begin(r, IF listed = {} THEN [Idle EXCEPT !.pc = "select"]
                    ELSE [Idle EXCEPT !.pc = "sync", !.mode = "sync",
                                      !.todo = listed, !.listing = meta])
    /\ UNCHANGED <<row, meta, now, slot, tries, faults>>

(* NormalizeApproval and marketingSignal of a listed template.  (Mutated    *)
(* form: the status as Meta sends it.)                                     *)
ListedVerbatim(listed) == listed

ListedApproval(listed) == IF listed = "marketing" THEN "approved" ELSE listed
ListedFlag(listed)     == listed = "marketing"

(* Mutated forms: a review that leaves the timestamp alone; one that sets   *)
(* it every time.                                                          *)
SyncedWithoutClock(old, listed) ==
    [old EXCEPT !.approval = ListedApproval(listed), !.flagged = ListedFlag(listed)]

SyncedAfresh(old, listed) ==
    LET negative == NegativeReview(ListedApproval(listed), ListedFlag(listed))
    IN  [old EXCEPT !.approval = ListedApproval(listed),
                    !.flagged = ListedFlag(listed),
                    !.negAt = IF negative THEN now ELSE Never]

(* The update skips a row that shows all this already.  An episode that    *)
(* goes on keeps its timestamp and its mark.                               *)
Synced(old, listed) ==
    LET approval == ListedApproval(listed)
        flagged  == ListedFlag(listed)
        negative == NegativeReview(approval, flagged)
        same     == /\ old.approval = approval
                    /\ old.flagged = flagged
                    /\ (old.negAt # Never) = negative
                    /\ old.metaId
    IN  IF old.approval = "none" \/ same THEN old
        ELSE [approval |-> approval, flagged |-> flagged,
              negAt |-> IF ~negative THEN Never
                        ELSE IF old.negAt # Never THEN old.negAt ELSE now,
              scheduled |-> negative /\ old.scheduled,
              metaId |-> TRUE]

SyncRow(r, t) ==
    /\ At(r, "sync")
    /\ t \in req[r].todo
    /\ row' = [row EXCEPT ![t] = Synced(@, req[r].listing[t])]
    /\ IF req[r].todo = {t} THEN Reset(r, "select")
       ELSE req' = [req EXCEPT ![r].todo = @ \ {t}]
    /\ UNCHANGED <<meta, now, slot, tries, faults>>

-----------------------------------------------------------------------------
(* The ways into a deletion.                                               *)

(* handleTemplateDelete: the template is looked up, then the automations.  *)
DeleteRead(r, t) ==
    /\ Live(t)
    /\ Begin(r, [Idle EXCEPT !.pc = "attached", !.mode = "delete", !.t = t])
    /\ UNCHANGED <<row, meta, now, slot, tries, faults>>

CheckAttached(r, inUse) ==
    /\ At(r, "attached")
    /\ IF inUse THEN Stop(r) ELSE Goto(r, "erase")
    /\ UNCHANGED <<row, meta, now, slot, tries, faults>>

(* PurgeExpiredNegative, on the templates page.  (The refresh button does  *)
(* the same and then synchronises: a page and a sync, one after the other.) *)
SelectExpired(r) ==
    LET expired == {t \in Templates : Overdue(t)} IN
    /\ \E t \in expired :
          Begin(r, [Idle EXCEPT !.pc = "erase", !.mode = "page", !.t = t,
                                !.todo = expired \ {t}])
    /\ UNCHANGED <<row, meta, now, slot, tries, faults>>

(* HandlePurgeNegativeTemplate: a worker with the job of an episode.       *)
TakePurge(r, e) ==
    /\ now >= e[2] + Grace
    /\ Queue!Take({e})
    /\ Begin(r, [Idle EXCEPT !.pc = "jobread", !.mode = "job", !.t = e[1],
                             !.episode = e])
    /\ UNCHANGED <<row, meta, now, faults>>

(* Mutated form: the job trusts the episode it was enqueued for.           *)
JobReadUnchecked(r) ==
    /\ At(r, "jobread")
    /\ Goto(r, IF row[req[r].t].negAt # Never THEN "erase" ELSE "close")
    /\ UNCHANGED <<row, meta, now, slot, tries, faults>>

(* A select that fails ends the job, as a row that is gone does.           *)
JobRead(r) ==
    LET due == row[req[r].t].negAt # Never /\ Elapsed(req[r].t) IN
    /\ At(r, "jobread")
    /\ \/ Goto(r, IF due THEN "erase" ELSE "close") /\ UNCHANGED faults
       \/ Goto(r, "close") /\ Fault
    /\ UNCHANGED <<row, meta, now, slot, tries>>

-----------------------------------------------------------------------------
(* purgeTemplate and DeleteByMerchant: Meta, best effort, then the row.    *)

Erase(r) ==
    LET t == req[r].t IN
    /\ At(r, "erase")
    /\ \/ \E gone \in {"none", "deleted"} : meta' = [meta EXCEPT ![t] = gone]
       \/ UNCHANGED meta
    /\ Goto(r, "bury")
    /\ UNCHANGED <<row, now, slot, tries, faults>>

Buried(old) == IF old.approval \in {"none", "deleted"} THEN old
               ELSE [old EXCEPT !.approval = "deleted", !.scheduled = FALSE,
                                !.negAt = Never]

Bury(r) ==
    LET mine == req[r] IN
    /\ At(r, "bury")
    /\ row' = [row EXCEPT ![mine.t] = Buried(@)]
    /\ IF mine.mode = "job" THEN Goto(r, "close")
       ELSE IF mine.todo = {} THEN Stop(r)
       ELSE \E t \in mine.todo :
               req' = [req EXCEPT ![r].pc = "erase", ![r].t = t,
                                  ![r].todo = @ \ {t}]
    /\ UNCHANGED <<meta, now, slot, tries, faults>>

(* The worker ends its job; a failed statement gives it another try.       *)
ClosePurge(r) ==
    /\ At(r, "close")
    /\ Queue!Finish(req[r].episode)
    /\ Stop(r)
    /\ UNCHANGED <<row, meta, now, faults>>

StatementFails(r) ==
    /\ req[r].mode = "job" /\ At(r, "bury")
    /\ Fault
    /\ IF tries[req[r].episode] < MaxAttempts
         THEN Queue!GiveBack(req[r].episode) ELSE Queue!Finish(req[r].episode)
    /\ Stop(r)
    /\ UNCHANGED <<row, meta, now>>

(* The process dies, or an operator's statement fails: the request ends    *)
(* where it is, and a worker's job stays leased.                           *)
Die(r) ==
    /\ ~At(r, "idle")
    /\ Fault
    /\ Stop(r)
    /\ IF req[r].mode = "job" THEN Queue!Lose({req[r].episode})
       ELSE UNCHANGED <<slot, tries>>
    /\ UNCHANGED <<row, meta, now>>

=============================================================================
