------------------------------ MODULE Catalogue ------------------------------
(***************************************************************************)
(* The templates and the automations that use them.  The two tables are    *)
(* read and written by different requests: the deletion of a template asks *)
(* which automations use it, the save of an automation asks whether its    *)
(* template exists, and neither is in a transaction with its write.        *)
(***************************************************************************)
EXTENDS TemplateLifecycle

CONSTANTS RuleIds, Triggers, NoTemplate

ASSUME CatalogueAssumption == Triggers # {}

VARIABLES
    rule,          \* the table automations (AutomationRules)
    kept,          \* history: automations that have used the template ever
                   \* since a deletion of it began
    ripe           \* history: templates beyond their window at some moment
                   \* since a purge began

Rules == INSTANCE AutomationRules WITH Catalog <- Templates

catalogueVars == <<row, meta, now, slot, tries, req, faults, rule, kept, ripe>>

CatalogueInit ==
    /\ Init
    /\ Rules!RulesInit
    /\ kept = [r \in Requests |-> {}]
    /\ ripe = [r \in Requests |-> {}]

-----------------------------------------------------------------------------

(* The operator's requests about templates.                                *)
CreateTemplate == \E r \in Requests, t \in Templates : Submit(r, t)
UpdateTemplate == \E r \in Requests, t \in Templates : EditRead(r, t)
DeleteTemplate == \E r \in Requests, t \in Templates : DeleteRead(r, t)
RefreshTemplates == \E r \in Requests : ListTemplates(r)
VisitTemplates == \E r \in Requests : SelectExpired(r)

(* How a request goes on.                                                  *)
RequestStep(r) ==
    \/ Insert(r) \/ SelectUnscheduled(r) \/ MarkScheduled(r)
    \/ \E e \in Episodes : EnqueuePurge(r, e) \/ TakePurge(r, e)
    \/ \E t \in Templates : SyncRow(r, t)
    \/ EditCall(r) \/ EditWrite(r)
    \/ CheckAttached(r, Rules!AttachedTo(req[r].t) # {})
    \/ JobRead(r) \/ Erase(r) \/ Bury(r) \/ ClosePurge(r)
    \/ StatementFails(r) \/ Die(r)

TemplateStep ==
    \/ \E t \in Templates : Review(t)
    \/ Tick
    \/ CreateTemplate \/ UpdateTemplate \/ DeleteTemplate
    \/ RefreshTemplates \/ VisitTemplates
    \/ \E r \in Requests : RequestStep(r)

(* The operator's requests about automations.  A template is chosen from   *)
(* the catalogue, in whatever state (TemplatesAll).                        *)
ShopTemplates == {t \in Templates : Exists(t)}

CreateAutomation ==
    \E a \in RuleIds, g \in Triggers, t \in ShopTemplates : Rules!Create(a, g, t)
UpdateAutomation ==
    \E a \in RuleIds, g \in Triggers, t \in ShopTemplates : Rules!Update(a, g, t)
ToggleAutomation ==
    \E a \in RuleIds, enabled \in BOOLEAN : Rules!SetEnabled(a, enabled)
DeleteAutomation == \E a \in RuleIds : Rules!Delete(a)

RuleStep == CreateAutomation \/ UpdateAutomation \/ ToggleAutomation
              \/ DeleteAutomation

(* History.                                                                *)
Deleting(request) == request.mode = "delete"
Purging(request)  == request.mode \in {"page", "job"}

StillKept(r) ==
    IF Deleting(req'[r])
    THEN Rules!UsersOf(rule', req'[r].t) \cap
           (IF Deleting(req[r]) THEN kept[r] ELSE RuleIds)
    ELSE {}

RipeSince(r) ==
    IF Purging(req'[r])
    THEN {t \in Templates : row'[t].negAt + Grace <= now'} \cup ripe[r]
    ELSE {}

CatalogueNext ==
    /\ \/ TemplateStep /\ UNCHANGED rule
       \/ RuleStep /\ UNCHANGED lifecycleVars
    /\ kept' = [r \in Requests |-> StillKept(r)]
    /\ ripe' = [r \in Requests |-> RipeSince(r)]

CatalogueSpec == CatalogueInit /\ [][CatalogueNext]_catalogueVars

-----------------------------------------------------------------------------

TypeOK ==
    /\ row \in [Templates -> Row]
    /\ meta \in [Templates -> MetaState]
    /\ now \in Times
    /\ slot \in [Episodes -> Queue!SlotStates]
    /\ tries \in [Episodes -> 0 .. MaxAttempts]
    /\ req \in [Requests -> Request]
    /\ faults \in 0 .. MaxFaults
    /\ rule \in [RuleIds -> Rules!Rule]
    /\ kept \in [Requests -> SUBSET RuleIds]
    /\ ripe \in [Requests -> SUBSET Templates]

(* The purges look only at negative_at: every row in a negative state that *)
(* is not deleted has one, and no other row has, whoever wrote it last.    *)
NegativeHasClock ==
    \A t \in Templates :
        Live(t) => (row[t].negAt # Never
                      <=> NegativeReview(row[t].approval, row[t].flagged))

(* A purge deletes only what was beyond its window at some moment since it *)
(* began: a job of an earlier episode, or one that was enqueued twice,     *)
(* does not cut the window of the present episode short.                   *)
PurgeAfterWindow ==
    [][\A r \in Requests, t \in Templates :
          /\ At(r, "bury") /\ Purging(req[r]) /\ req[r].t = t
          /\ row[t].approval # "deleted" /\ row'[t].approval = "deleted"
         => t \in ripe[r]]_catalogueVars

(* The merchant's clock: only the merchant restarts the window of a        *)
(* template that stays negative; no review or synchronisation does.        *)
WindowKept ==
    [][\A t \in Templates :
          /\ row[t].negAt # Never /\ row'[t].negAt # Never
          /\ row'[t].negAt # row[t].negAt
         => \E r \in Requests :
               (At(r, "insert") \/ At(r, "editwrite")) /\ req[r].t = t]_catalogueVars

(* A template is not deleted under an automation that has used it ever     *)
(* since the operator asked for the deletion.                              *)
AttachedIsKept ==
    \A r \in Requests :
        Deleting(req[r]) /\ req[r].pc \in {"erase", "bury"} => kept[r] = {}

-----------------------------------------------------------------------------
(* Promises of comments that the code does not keep.                       *)

(* "The local row moves to the deleted lifecycle state so it can never be  *)
(* selected or sent": only a resubmission brings a template back.          *)
DeletedStaysDeleted ==
    [][\A t \in Templates :
          row[t].approval = "deleted" /\ row'[t].approval # "deleted"
            => \E r \in Requests : At(r, "insert") /\ req[r].t = t]_catalogueVars

(* A template that an automation uses is refused, so none is silently      *)
(* broken.                                                                 *)
NoRuleBroken ==
    \A t \in Templates : row[t].approval = "deleted" => Rules!AttachedTo(t) = {}

(* An accepted edit cancels the pending purge.                             *)
EditCancelsPurge ==
    [][\A r \in Requests, t \in Templates :
          At(r, "bury") /\ req[r].mode # "delete" /\ req[r].t = t /\ row' # row
            => NegativeReview(row[t].approval, row[t].flagged)]_catalogueVars

=============================================================================
