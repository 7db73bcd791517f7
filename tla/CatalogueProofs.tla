-------------------------- MODULE CatalogueProofs --------------------------
(***************************************************************************)
(* What a shop sets up: its templates, its automations, when they fire and *)
(* what they say.                                                          *)
(*                                                                         *)
(* The rows of the catalogue, for any number of templates, automations,    *)
(* requests, purge jobs and faults, keep their shape.                      *)
(*                                                                         *)
(* The clock of a template's grace window, for any number of templates,    *)
(* requests, purge jobs and faults: whoever wrote a row last, the          *)
(* timestamp is there exactly in the negative states, and no review,       *)
(* synchronisation or purge moves it.                                      *)
(*                                                                         *)
(* The schedule of a rule, for every form and every moment from the second *)
(* day on; and the text of a template, for every text of any length.  What *)
(* walks a text is a recursive function, so that an induction on the place *)
(* says what it has found (UpTo).                                          *)
(***************************************************************************)
EXTENDS Catalogue, MCPureRules, FiniteSetTheorems, WellFoundedInduction, TLAPS

(* The shape of the rows, and of what the requests remember.               *)
ShapeOK ==
    /\ row \in [Templates -> Row]
    /\ meta \in [Templates -> MetaState]
    /\ now \in Times
    /\ req \in [Requests -> Request]

ClockInv == ShapeOK /\ NegativeHasClock

-----------------------------------------------------------------------------

LEMMA IdleIsRequest == Idle \in Request /\ \A step \in Steps : [Idle EXCEPT !.pc = step] \in Request
<1>1. (CHOOSE t \in Templates : TRUE) \in Templates
  BY LifecycleAssumption
<1>2. 0 \in Times
  BY LifecycleAssumption DEF Times
<1>3. [t \in Templates |-> "none"] \in [Templates -> MetaState]
  BY DEF MetaState
<1> QED
  BY <1>1, <1>2, <1>3 DEF Idle, Request, Steps, Modes, Episodes

LEMMA NowIsSet == ASSUME now \in Times PROVE now # Never
  BY LifecycleAssumption DEF Times, Never

(* A synchronised row keeps its shape, has the timestamp exactly in a      *)
(* negative state, and keeps the one it had.                               *)
LEMMA SyncKeepsClock ==
    ASSUME NEW old \in Row, NEW listed \in MetaState, now \in Times,
           old.approval \notin {"none", "deleted"} =>
              (old.negAt # Never <=> NegativeReview(old.approval, old.flagged))
    PROVE  /\ Synced(old, listed) \in Row
           /\ LET new == Synced(old, listed) IN
              /\ new.approval \notin {"none", "deleted"} =>
                    (new.negAt # Never <=> NegativeReview(new.approval, new.flagged))
              /\ old.negAt # Never /\ new.negAt # Never => new.negAt = old.negAt
<1> DEFINE approval == ListedApproval(listed)
           flagged  == ListedFlag(listed)
           negative == NegativeReview(approval, flagged)
           new      == [approval |-> approval, flagged |-> flagged,
                        negAt |-> IF ~negative THEN Never
                                  ELSE IF old.negAt # Never THEN old.negAt ELSE now,
                        scheduled |-> negative /\ old.scheduled,
                        metaId |-> TRUE]
<1>1. approval \in Approvals \cup {"none"} /\ flagged \in BOOLEAN
  BY DEF ListedApproval, ListedFlag, MetaState, Reviewed, Approvals, Negatives
<1>2. negative \in BOOLEAN
  BY <1>1 DEF NegativeReview, Negatives
<1>3. old.negAt \in Times \cup {Never} /\ old.scheduled \in BOOLEAN
  BY DEF Row
<1>4. new \in Row
  <2>1. (negative /\ old.scheduled) \in BOOLEAN
    BY <1>2, <1>3
  <2>2. (IF ~negative THEN Never ELSE IF old.negAt # Never THEN old.negAt ELSE now) \in Times \cup {Never}
    BY <1>3
  <2> HIDE DEF approval, flagged, negative
  <2> QED
    BY <1>1, <2>1, <2>2 DEF Row
<1>5. new.negAt # Never <=> negative
  BY <1>3, NowIsSet
<1>6. Synced(old, listed) = old \/ Synced(old, listed) = new
  BY DEF Synced
<1>7. CASE Synced(old, listed) = old
  BY <1>7
<1>8. CASE Synced(old, listed) = new
  <2>1. old.negAt # Never /\ new.negAt # Never => new.negAt = old.negAt
    OBVIOUS
  <2> QED
    BY <1>4, <1>5, <1>8, <2>1
<1> QED
  BY <1>6, <1>7, <1>8

LEMMA InitClock == CatalogueInit => ClockInv
<1> SUFFICES ASSUME CatalogueInit PROVE ClockInv
  OBVIOUS
<1>1. ShapeOK
  BY IdleIsRequest, LifecycleAssumption
     DEF CatalogueInit, Init, ShapeOK, Row, NoRow, MetaState, Times
<1>2. NegativeHasClock
  BY DEF CatalogueInit, Init, NegativeHasClock, Live, NoRow
<1> QED
  BY <1>1, <1>2 DEF ClockInv

-----------------------------------------------------------------------------
(* A request stays one when fields are replaced.                           *)
LEMMA RequestFields ==
    /\ \A x \in Request, step \in Steps : [x EXCEPT !.pc = step] \in Request
    /\ \A x \in Request, mode \in Modes : [x EXCEPT !.mode = mode] \in Request
    /\ \A x \in Request, t \in Templates : [x EXCEPT !.t = t] \in Request
    /\ \A x \in Request, todo \in SUBSET Templates : [x EXCEPT !.todo = todo] \in Request
    /\ \A x \in Request, owed \in SUBSET Episodes : [x EXCEPT !.owed = owed] \in Request
    /\ \A x \in Request, e \in Episodes : [x EXCEPT !.episode = e] \in Request
    /\ \A x \in Request, listing \in [Templates -> MetaState] :
          [x EXCEPT !.listing = listing] \in Request
    /\ \A x \in Request, verdict \in {"pending", "marketing", "rejected"} :
          [x EXCEPT !.verdict = verdict] \in Request
<1>1. \A x \in Request, step \in Steps : [x EXCEPT !.pc = step] \in Request
  BY DEF Request
<1>2. \A x \in Request, mode \in Modes : [x EXCEPT !.mode = mode] \in Request
  BY DEF Request
<1>3. \A x \in Request, t \in Templates : [x EXCEPT !.t = t] \in Request
  BY DEF Request
<1>4. \A x \in Request, todo \in SUBSET Templates : [x EXCEPT !.todo = todo] \in Request
  BY DEF Request
<1>5. \A x \in Request, owed \in SUBSET Episodes : [x EXCEPT !.owed = owed] \in Request
  BY DEF Request
<1>6. \A x \in Request, e \in Episodes : [x EXCEPT !.episode = e] \in Request
  BY DEF Request
<1>7. \A x \in Request, listing \in [Templates -> MetaState] :
          [x EXCEPT !.listing = listing] \in Request
  BY DEF Request
<1>8. \A x \in Request, verdict \in {"pending", "marketing", "rejected"} :
          [x EXCEPT !.verdict = verdict] \in Request
  BY DEF Request
<1> QED
  BY <1>1, <1>2, <1>3, <1>4, <1>5, <1>6, <1>7, <1>8

(* What every kind of step does to the requests.                           *)

LEMMA TemplateStepsKeepRequests ==
    ASSUME ShapeOK, NEW r \in Requests,
           \/ \E t \in Templates : \/ Submit(r, t) \/ EditRead(r, t) \/ DeleteRead(r, t)
                                   \/ SyncRow(r, t)
           \/ ListTemplates(r) \/ SelectExpired(r) \/ RequestStep(r)
    PROVE  req' \in [Requests -> Request]
<1> USE DEF ShapeOK
<1>0. /\ Idle \in Request
      /\ \A step \in Steps : [Idle EXCEPT !.pc = step] \in Request
      /\ req[r] \in Request /\ req[r].t \in Templates
  BY IdleIsRequest DEF Request
<1>1. ASSUME NEW request \in Request, req' = [req EXCEPT ![r] = request]
      PROVE  req' \in [Requests -> Request]
  BY <1>1
<1>2. ASSUME Stop(r) PROVE req' \in [Requests -> Request]
  BY <1>0, <1>1, <1>2 DEF Stop
<1>3. ASSUME NEW step \in Steps, Goto(r, step) \/ Reset(r, step)
      PROVE  req' \in [Requests -> Request]
  <2>1. [req[r] EXCEPT !.pc = step] \in Request
    BY <1>0 DEF Request
  <2> QED
    BY <1>0, <1>1, <1>3, <2>1 DEF Goto, Reset
<1>4. ASSUME NEW t \in Templates, Submit(r, t) PROVE req' \in [Requests -> Request]
  <2>1. PICK verdict \in {"pending", "marketing", "rejected"} :
           req' = [req EXCEPT ![r] = [Idle EXCEPT !.pc = "insert", !.mode = "create", !.t = t,
                                                  !.verdict = verdict]]
    BY <1>4 DEF Submit, Begin
  <2>2. [Idle EXCEPT !.pc = "insert", !.mode = "create", !.t = t, !.verdict = verdict] \in Request
    BY <1>0, RequestFields DEF Steps, Modes
  <2> QED
    BY <1>1, <2>1, <2>2
<1>5. ASSUME NEW t \in Templates, EditRead(r, t) \/ DeleteRead(r, t)
      PROVE  req' \in [Requests -> Request]
  <2>1. /\ [Idle EXCEPT !.pc = "editcall", !.mode = "edit", !.t = t] \in Request
        /\ [Idle EXCEPT !.pc = "attached", !.mode = "delete", !.t = t] \in Request
    BY <1>0, RequestFields DEF Steps, Modes
  <2> QED
    BY <1>1, <1>5, <2>1 DEF EditRead, DeleteRead, Begin
<1>6. ASSUME NEW t \in Templates, SyncRow(r, t) PROVE req' \in [Requests -> Request]
  <2>1. [req[r] EXCEPT !.todo = @ \ {t}] \in Request
    BY <1>0 DEF Request
  <2> QED
    BY <1>1, <1>3, <1>6, <2>1 DEF SyncRow, Steps
<1>7. CASE ListTemplates(r)
  <2> DEFINE listed == {t \in Templates : meta[t] # "none"}
  <2>1. /\ [Idle EXCEPT !.pc = "select"] \in Request
        /\ [Idle EXCEPT !.pc = "sync", !.mode = "sync", !.todo = listed, !.listing = meta] \in Request
    BY <1>0, RequestFields DEF Steps, Modes
  <2> QED
    BY <1>1, <1>7, <2>1 DEF ListTemplates, Begin
<1>8. CASE SelectExpired(r)
  <2> DEFINE expired == {t \in Templates : Overdue(t)}
  <2>1. PICK t \in expired :
           req' = [req EXCEPT ![r] = [Idle EXCEPT !.pc = "erase", !.mode = "page", !.t = t,
                                                  !.todo = expired \ {t}]]
    BY <1>8 DEF SelectExpired, Begin
  <2>2. [Idle EXCEPT !.pc = "erase", !.mode = "page", !.t = t, !.todo = expired \ {t}] \in Request
    BY <1>0, RequestFields DEF Steps, Modes
  <2> QED
    BY <1>1, <2>1, <2>2
<1>9. CASE Insert(r)
  BY <1>2, <1>3, <1>9 DEF Insert, Steps
<1>10. CASE SelectUnscheduled(r)
  <2> DEFINE owed == {<<t, row[t].negAt>> : t \in Unscheduled}
  <2>1. owed \in SUBSET Episodes
    BY DEF Unscheduled, Episodes, Row
  <2>2. [req[r] EXCEPT !.pc = "enqueue", !.owed = owed] \in Request
    BY <1>0, <2>1, RequestFields DEF Steps
  <2> QED
    BY <1>1, <1>2, <1>10, <2>2 DEF SelectUnscheduled
<1>11. ASSUME NEW e, NextOwed(r, e) PROVE req' \in [Requests -> Request]
  <2>1. req[r].owed \ {e} \in SUBSET Episodes
    BY <1>0 DEF Request
  <2>2. [req[r] EXCEPT !.pc = "enqueue", !.owed = @ \ {e}] \in Request
    BY <1>0, <2>1, RequestFields DEF Steps
  <2> QED
    BY <1>1, <1>2, <1>11, <2>2 DEF NextOwed
<1>12. ASSUME NEW e \in Episodes, EnqueuePurge(r, e) PROVE req' \in [Requests -> Request]
  <2>1. [req[r] EXCEPT !.pc = "mark", !.episode = e] \in Request
    BY <1>0, RequestFields DEF Steps
  <2> QED
    BY <1>1, <1>11, <1>12, <2>1 DEF EnqueuePurge
<1>13. ASSUME NEW e \in Episodes, TakePurge(r, e) PROVE req' \in [Requests -> Request]
  <2>1. [Idle EXCEPT !.pc = "jobread", !.mode = "job", !.t = e[1], !.episode = e] \in Request
    BY <1>0, RequestFields DEF Steps, Modes, Episodes
  <2> QED
    BY <1>1, <1>13, <2>1 DEF TakePurge, Begin
<1>14. CASE EditCall(r)
  <2>1. /\ [req[r] EXCEPT !.pc = "editwrite", !.verdict = "pending"] \in Request
        /\ [req[r] EXCEPT !.pc = "editwrite", !.verdict = "rejected"] \in Request
    BY <1>0, RequestFields DEF Steps
  <2> QED
    BY <1>1, <1>14, <2>1 DEF EditCall
<1>15. CASE Bury(r)
  <2>1. ASSUME NEW t \in req[r].todo
        PROVE  [req[r] EXCEPT !.pc = "erase", !.t = t, !.todo = @ \ {t}] \in Request
    <3>1. req[r].todo \ {t} \in SUBSET Templates /\ t \in Templates
      BY <1>0 DEF Request
    <3> QED
      BY <1>0, <3>1, RequestFields DEF Steps
  <2> QED
    BY <1>1, <1>2, <1>3, <1>15, <2>1 DEF Bury, Steps
<1>16. CASE \E inUse \in BOOLEAN : CheckAttached(r, inUse)
  BY <1>2, <1>3, <1>16 DEF CheckAttached, Steps
<1>17. CASE JobRead(r) \/ Erase(r)
  BY <1>3, <1>17 DEF JobRead, Erase, Steps
<1>18. CASE MarkScheduled(r)
  BY <1>11, <1>18 DEF MarkScheduled
<1>19. CASE EditWrite(r) \/ ClosePurge(r) \/ StatementFails(r) \/ Die(r)
  BY <1>2, <1>19 DEF EditWrite, ClosePurge, StatementFails, Die
<1> QED
  BY <1>4, <1>5, <1>6, <1>7, <1>8, <1>9, <1>10, <1>12, <1>13, <1>14, <1>15, <1>16, <1>17, <1>18, <1>19
     DEF RequestStep

-----------------------------------------------------------------------------
(* What every kind of step does to the rows.                               *)

(* A row stays one when fields are replaced.                               *)
LEMMA RowFields ==
    /\ \A x \in Row, approval \in Approvals :
          /\ [x EXCEPT !.approval = approval] \in Row
          /\ [x EXCEPT !.approval = approval].flagged = x.flagged
          /\ [x EXCEPT !.approval = approval].approval = approval
    /\ \A x \in Row, flagged \in BOOLEAN :
          /\ [x EXCEPT !.flagged = flagged] \in Row
          /\ [x EXCEPT !.flagged = flagged].flagged = flagged
          /\ [x EXCEPT !.flagged = flagged].approval = x.approval
    /\ \A x \in Row, time \in Times \cup {Never} :
          /\ [x EXCEPT !.negAt = time] \in Row
          /\ [x EXCEPT !.negAt = time].approval = x.approval
          /\ [x EXCEPT !.negAt = time].flagged = x.flagged
          /\ [x EXCEPT !.negAt = time].negAt = time
    /\ \A x \in Row, scheduled \in BOOLEAN :
          /\ [x EXCEPT !.scheduled = scheduled] \in Row
          /\ [x EXCEPT !.scheduled = scheduled].approval = x.approval
          /\ [x EXCEPT !.scheduled = scheduled].flagged = x.flagged
          /\ [x EXCEPT !.scheduled = scheduled].negAt = x.negAt
  BY DEF Row

(* The timestamp of t goes from one value to another.                      *)
ClockMoves(t) ==
    row[t].negAt # Never /\ row'[t].negAt # Never /\ row'[t].negAt # row[t].negAt

ByTheMerchant(t) ==
    \E r \in Requests : (At(r, "insert") \/ At(r, "editwrite")) /\ req[r].t = t

Timed(r) == r.negAt # Never <=> NegativeReview(r.approval, r.flagged)
IsLive(r) == r.approval \notin {"none", "deleted"}

LEMMA OneRowChanges ==
    ASSUME ClockInv, NEW t \in Templates, NEW new \in Row,
           row' = [row EXCEPT ![t] = new],
           IsLive(new) => Timed(new),
           row[t].negAt # Never /\ new.negAt # Never /\ new.negAt # row[t].negAt
              => ByTheMerchant(t)
    PROVE  /\ row' \in [Templates -> Row] /\ NegativeHasClock'
           /\ \A u \in Templates : ClockMoves(u) => ByTheMerchant(u)
  BY DEF ClockInv, ShapeOK, NegativeHasClock, Live, IsLive, Timed, ClockMoves

LEMMA RowSteps ==
    ASSUME ClockInv, TemplateStep
    PROVE  /\ row' \in [Templates -> Row] /\ NegativeHasClock'
           /\ \A u \in Templates : ClockMoves(u) => ByTheMerchant(u)
<1> DEFINE Goal == /\ row' \in [Templates -> Row] /\ NegativeHasClock'
                   /\ \A u \in Templates : ClockMoves(u) => ByTheMerchant(u)
<1> USE DEF ClockInv
<1>0. /\ now \in Times /\ now # Never
      /\ \A t \in Templates : row[t] \in Row /\ (IsLive(row[t]) => Timed(row[t]))
      /\ \A r \in Requests : req[r] \in Request /\ req[r].t \in Templates
  BY NowIsSet DEF ShapeOK, Request, NegativeHasClock, Live, IsLive, Timed
<1>1. ASSUME row' = row PROVE Goal
  BY <1>1 DEF ShapeOK, NegativeHasClock, Live, ClockMoves
<1>2. ASSUME NEW r \in Requests, Insert(r) PROVE Goal
  <2> DEFINE t == req[r].t
             approval == IF req[r].verdict = "rejected" THEN "rejected" ELSE "pending"
             flagged  == req[r].verdict = "marketing"
             negative == NegativeReview(approval, flagged)
             new == [approval |-> approval, flagged |-> flagged,
                     negAt |-> IF negative THEN now ELSE Never,
                     scheduled |-> FALSE, metaId |-> approval # "rejected"]
  <2>1. row' = [row EXCEPT ![t] = new] /\ ByTheMerchant(t)
    BY <1>2 DEF Insert, ByTheMerchant
  <2>2. approval \in Approvals /\ flagged \in BOOLEAN /\ negative \in BOOLEAN
        /\ (approval # "rejected") \in BOOLEAN
    BY DEF Approvals, Negatives, NegativeReview
  <2>3. (IF negative THEN now ELSE Never) \in Times \cup {Never}
    BY <1>0
  <2>4. new \in Row
    <3> HIDE DEF approval, flagged, negative
    <3> QED
      BY <2>2, <2>3 DEF Row
  <2>5. Timed(new)
    <3>1. new.negAt # Never <=> negative
      BY <1>0, <2>2
    <3> QED
      BY <3>1 DEF Timed
  <2> QED
    BY <1>0, <2>1, <2>4, <2>5, OneRowChanges
<1>3. ASSUME NEW r \in Requests, MarkScheduled(r) PROVE Goal
  <2> DEFINE t == req[r].episode[1]
             new == [row[t] EXCEPT !.scheduled = TRUE]
  <2>1. t \in Templates
    BY <1>0 DEF Request, Episodes
  <2>2. row' = [row EXCEPT ![t] = new] /\ new \in Row
    BY <1>0, <1>3, <2>1 DEF MarkScheduled, Row
  <2>3. /\ new.approval = row[t].approval /\ new.flagged = row[t].flagged
        /\ new.negAt = row[t].negAt
    BY <1>0, <2>1 DEF Row
  <2>4. IsLive(new) => Timed(new)
    BY <1>0, <2>1, <2>3 DEF IsLive, Timed
  <2> QED
    BY <2>1, <2>2, <2>3, <2>4, OneRowChanges
<1>4. ASSUME NEW r \in Requests, EditWrite(r) PROVE Goal
  <2> DEFINE t == req[r].t
             new == IF req[r].verdict = "rejected"
                    THEN [row[t] EXCEPT !.approval = "rejected", !.negAt = now, !.scheduled = FALSE]
                    ELSE [row[t] EXCEPT !.approval = "pending", !.flagged = FALSE,
                                        !.negAt = Never, !.scheduled = FALSE]
  <2>1. row' = [row EXCEPT ![t] = new] /\ ByTheMerchant(t)
    BY <1>4 DEF EditWrite, ByTheMerchant
  <2>0. row[t] \in Row
    BY <1>0
  <2>2. new \in Row /\ Timed(new)
    <3>1. CASE req[r].verdict = "rejected"
      <4> DEFINE x == [row[t] EXCEPT !.approval = "rejected"]
                 y == [x EXCEPT !.negAt = now]
                 z == [y EXCEPT !.scheduled = FALSE]
      <4>0. "rejected" \in Approvals
        BY DEF Approvals, Negatives
      <4>1. x \in Row /\ x.approval = "rejected"
        BY <2>0, <4>0, RowFields
      <4>2. y \in Row /\ y.approval = "rejected" /\ y.negAt = now
        <5>1. now \in Times \cup {Never}
          BY <1>0
        <5> HIDE DEF x
        <5> QED
          BY <4>1, <5>1, RowFields
      <4>3. z \in Row /\ z.approval = "rejected" /\ z.negAt = now
        <5> HIDE DEF y
        <5> QED
          BY <4>2, RowFields
      <4>4. new = z
        BY <3>1
      <4> HIDE DEF new, z
      <4> QED
        BY <1>0, <4>3, <4>4 DEF Timed, NegativeReview, Negatives
    <3>2. CASE req[r].verdict # "rejected"
      <4> DEFINE w == [row[t] EXCEPT !.approval = "pending"]
                 x == [w EXCEPT !.flagged = FALSE]
                 y == [x EXCEPT !.negAt = Never]
                 z == [y EXCEPT !.scheduled = FALSE]
      <4>0. w \in Row /\ w.approval = "pending"
        <5>1. "pending" \in Approvals
          BY DEF Approvals
        <5> QED
          BY <2>0, <5>1, RowFields
      <4>1. x \in Row /\ x.approval = "pending" /\ x.flagged = FALSE
        <5> HIDE DEF w
        <5> QED
          BY <4>0, RowFields
      <4>2. y \in Row /\ y.approval = "pending" /\ y.flagged = FALSE /\ y.negAt = Never
        <5> HIDE DEF x
        <5> QED
          BY <4>1, RowFields
      <4>3. z \in Row /\ z.approval = "pending" /\ z.flagged = FALSE /\ z.negAt = Never
        <5> HIDE DEF y
        <5> QED
          BY <4>2, RowFields
      <4>4. new = z
        BY <3>2
      <4> HIDE DEF new, z
      <4> QED
        BY <4>3, <4>4 DEF Timed, NegativeReview, Negatives
    <3> QED
      BY <3>1, <3>2
  <2> HIDE DEF new
  <2> QED
    BY <1>0, <2>1, <2>2, OneRowChanges
<1>5. ASSUME NEW r \in Requests, NEW t \in Templates, SyncRow(r, t) PROVE Goal
  <2> DEFINE new == Synced(row[t], req[r].listing[t])
  <2>1. req[r].listing[t] \in MetaState
    BY <1>0 DEF Request
  <2>2. row[t].approval \notin {"none", "deleted"} =>
           (row[t].negAt # Never <=> NegativeReview(row[t].approval, row[t].flagged))
    BY <1>0 DEF IsLive, Timed
  <2>3. /\ new \in Row /\ (IsLive(new) => Timed(new))
        /\ row[t].negAt # Never /\ new.negAt # Never => new.negAt = row[t].negAt
    BY <1>0, <2>1, <2>2, SyncKeepsClock DEF IsLive, Timed
  <2>4. row' = [row EXCEPT ![t] = new]
    BY <1>5 DEF SyncRow
  <2> HIDE DEF new
  <2> QED
    BY <2>3, <2>4, OneRowChanges
<1>6. ASSUME NEW r \in Requests, Bury(r) PROVE Goal
  <2> DEFINE t == req[r].t
             new == Buried(row[t])
  <2>1. row' = [row EXCEPT ![t] = new]
    BY <1>6 DEF Bury
  <2>2. new \in Row /\ ~IsLive(new) /\ (new.negAt = row[t].negAt \/ new.negAt = Never)
    BY <1>0 DEF Buried, Row, Approvals, IsLive
  <2> HIDE DEF new
  <2> QED
    BY <1>0, <2>1, <2>2, OneRowChanges
<1>7. ASSUME NEW r \in Requests, RequestStep(r) PROVE Goal
  <2>1. ASSUME NEW e \in Episodes, EnqueuePurge(r, e) \/ TakePurge(r, e) PROVE row' = row
    BY <2>1 DEF EnqueuePurge, TakePurge
  <2>2. CASE \/ SelectUnscheduled(r) \/ EditCall(r) \/ JobRead(r) \/ Erase(r) \/ ClosePurge(r)
            \/ StatementFails(r) \/ Die(r) \/ CheckAttached(r, Rules!AttachedTo(req[r].t) # {})
    BY <1>1, <2>2 DEF SelectUnscheduled, EditCall, JobRead, Erase, ClosePurge, StatementFails, Die,
                      CheckAttached
  <2> QED
    BY <1>1, <1>2, <1>3, <1>4, <1>5, <1>6, <1>7, <2>1, <2>2 DEF RequestStep
<1>8. ASSUME NEW t \in Templates, Review(t) PROVE Goal
  BY <1>1, <1>8 DEF Review
<1>9. CASE Tick
  BY <1>1, <1>9 DEF Tick
<1>10. CASE \/ CreateTemplate \/ UpdateTemplate \/ DeleteTemplate
           \/ RefreshTemplates \/ VisitTemplates
  BY <1>1, <1>10 DEF CreateTemplate, Submit, UpdateTemplate, EditRead, DeleteTemplate, DeleteRead,
                     RefreshTemplates, ListTemplates, VisitTemplates, SelectExpired
<1> QED
  BY <1>7, <1>8, <1>9, <1>10 DEF TemplateStep

LEMMA MetaSteps == ASSUME ShapeOK, TemplateStep PROVE meta' \in [Templates -> MetaState] /\ now' \in Times
<1> DEFINE Goal == meta' \in [Templates -> MetaState] /\ now' \in Times
<1>0. /\ meta \in [Templates -> MetaState] /\ now \in Times
      /\ \A r \in Requests : req[r].t \in Templates
  BY DEF ShapeOK, Request
<1>1. ASSUME NEW t \in Templates, NEW state \in MetaState, meta' = [meta EXCEPT ![t] = state]
      PROVE  meta' \in [Templates -> MetaState]
  BY <1>0, <1>1
<1>2. {"pending", "none", "deleted"} \cup Reviewed \subseteq MetaState
  BY DEF MetaState
<1>3. ASSUME meta' = meta, now' = now PROVE Goal
  BY <1>0, <1>3
<1>4. ASSUME NEW t \in Templates, Review(t) PROVE Goal
  BY <1>0, <1>1, <1>2, <1>4 DEF Review
<1>5. CASE Tick
  BY <1>0, <1>5, LifecycleAssumption DEF Tick, Times
<1>6. CASE CreateTemplate
  BY <1>0, <1>1, <1>2, <1>6 DEF CreateTemplate, Submit
<1>7. CASE UpdateTemplate \/ DeleteTemplate \/ RefreshTemplates \/ VisitTemplates
  BY <1>3, <1>7 DEF UpdateTemplate, EditRead, DeleteTemplate, DeleteRead,
                    RefreshTemplates, ListTemplates, VisitTemplates, SelectExpired
<1>8. ASSUME NEW r \in Requests, RequestStep(r) PROVE Goal
  <2>1. CASE EditCall(r)
    BY <1>0, <1>1, <1>2, <2>1 DEF EditCall
  <2>2. CASE Erase(r)
    BY <1>0, <1>1, <1>2, <2>2 DEF Erase
  <2>3. CASE Insert(r) \/ SelectUnscheduled(r) \/ MarkScheduled(r)
    BY <1>3, <2>3 DEF Insert, SelectUnscheduled, MarkScheduled
  <2>4. ASSUME NEW e \in Episodes, EnqueuePurge(r, e) \/ TakePurge(r, e) PROVE Goal
    BY <1>3, <2>4 DEF EnqueuePurge, TakePurge
  <2>5. ASSUME NEW t \in Templates, SyncRow(r, t) PROVE Goal
    BY <1>3, <2>5 DEF SyncRow
  <2>6. CASE EditWrite(r) \/ CheckAttached(r, Rules!AttachedTo(req[r].t) # {})
    BY <1>3, <2>6 DEF EditWrite, CheckAttached
  <2>7. CASE JobRead(r) \/ Bury(r) \/ ClosePurge(r) \/ StatementFails(r) \/ Die(r)
    BY <1>3, <2>7 DEF JobRead, Bury, ClosePurge, StatementFails, Die
  <2> HIDE DEF Goal
  <2> QED
    BY <1>8, <2>1, <2>2, <2>3, <2>4, <2>5, <2>6, <2>7 DEF RequestStep
<1> QED
  BY <1>4, <1>5, <1>6, <1>7, <1>8 DEF TemplateStep

-----------------------------------------------------------------------------
(* The steps of the composition.                                           *)

LEMMA RequestsStayTyped ==
    ASSUME ShapeOK, TemplateStep PROVE req' \in [Requests -> Request]
<1>1. ASSUME NEW r \in Requests, NEW t \in Templates,
             Submit(r, t) \/ EditRead(r, t) \/ DeleteRead(r, t)
      PROVE  req' \in [Requests -> Request]
  BY <1>1, TemplateStepsKeepRequests
<1>2. ASSUME NEW r \in Requests, ListTemplates(r) \/ SelectExpired(r) \/ RequestStep(r)
      PROVE  req' \in [Requests -> Request]
  BY <1>2, TemplateStepsKeepRequests
<1>3. CASE Tick \/ \E t \in Templates : Review(t)
  BY <1>3 DEF ShapeOK, Tick, Review
<1> QED
  BY <1>1, <1>2, <1>3 DEF TemplateStep, CreateTemplate, UpdateTemplate, DeleteTemplate,
                          RefreshTemplates, VisitTemplates

LEMMA StepClock ==
    ClockInv /\ [CatalogueNext]_catalogueVars =>
        ClockInv' /\ \A u \in Templates : ClockMoves(u) => ByTheMerchant(u)
<1> SUFFICES ASSUME ClockInv, [CatalogueNext]_catalogueVars
             PROVE  ClockInv' /\ \A u \in Templates : ClockMoves(u) => ByTheMerchant(u)
  OBVIOUS
<1>1. CASE TemplateStep
  <2>1. ShapeOK'
    BY <1>1, RowSteps, MetaSteps, RequestsStayTyped DEF ClockInv, ShapeOK
  <2> QED
    BY <1>1, <2>1, RowSteps DEF ClockInv
<1>2. CASE UNCHANGED lifecycleVars
  BY <1>2 DEF ClockInv, ShapeOK, NegativeHasClock, Live, ClockMoves, lifecycleVars
<1> QED
  BY <1>1, <1>2 DEF CatalogueNext, catalogueVars, lifecycleVars

LEMMA ClockHolds == CatalogueSpec => []ClockInv
  BY InitClock, StepClock, PTL DEF CatalogueSpec

(* Whoever wrote the row last (a submission, a review, an edit, a purge),  *)
(* a template has its negative_at exactly while its review is negative,    *)
(* so the purges, which look at nothing else, see every negative template. *)
THEOREM ClockFollowsReview == CatalogueSpec => []NegativeHasClock
  BY ClockHolds, PTL DEF ClockInv

(* No synchronisation, review or purge restarts the grace window of a      *)
(* template that stays negative: only the merchant's own requests do.      *)
THEOREM OnlyTheMerchantRestarts == CatalogueSpec => WindowKept
<1>1. ClockInv /\ [CatalogueNext]_catalogueVars =>
        [\A t \in Templates :
          /\ row[t].negAt # Never /\ row'[t].negAt # Never
          /\ row'[t].negAt # row[t].negAt
         => \E r \in Requests :
               (At(r, "insert") \/ At(r, "editwrite")) /\ req[r].t = t]_catalogueVars
  BY StepClock DEF ClockMoves, ByTheMerchant
<1> QED
  BY <1>1, ClockHolds, PTL DEF CatalogueSpec, WindowKept

-----------------------------------------------------------------------------
(* The requests that delete a template.                                    *)

Removing(r) == req[r].pc \in {"erase", "bury"}

(* A request that deletes for the operator has found no automation that    *)
(* uses the template still; one that purges has seen every template on its *)
(* list beyond the window.                                                 *)
RemovalInv ==
    \A r \in Requests :
        /\ At(r, "attached") => req[r].mode = "delete"
        /\ At(r, "jobread") => req[r].mode = "job"
        /\ Removing(r) /\ Deleting(req[r]) => kept[r] = {}
        /\ Removing(r) /\ Purging(req[r])  => req[r].t \in ripe[r]
        /\ Removing(r) /\ req[r].mode = "page" => req[r].todo \subseteq ripe[r]

(* The steps of a request on its way to a deletion.                        *)
StartsPage(r) ==
    /\ req'[r].mode = "page" /\ row' = row /\ now' = now
    /\ req'[r].todo \subseteq {t \in Templates : Overdue(t)}
    /\ req'[r].t \in {t \in Templates : Overdue(t)}
    /\ req'[r].pc = "erase"

PassesCheck(r) ==
    /\ req'[r] = [req[r] EXCEPT !.pc = "erase"] /\ row' = row /\ now' = now
    /\ \/ At(r, "attached") /\ Rules!AttachedTo(req[r].t) = {}
       \/ At(r, "jobread") /\ Elapsed(req[r].t)

GoesOn(r) ==
    /\ Removing(r)
    /\ req'[r].mode = req[r].mode
    /\ \/ req'[r].t = req[r].t /\ req'[r].todo = req[r].todo
       \/ /\ req[r].mode # "job"
          /\ req'[r].t \in req[r].todo /\ req'[r].todo \subseteq req[r].todo

LEMMA RequestMoves ==
    ASSUME ShapeOK, TemplateStep, NEW r \in Requests,
           req'[r].pc \in {"attached", "jobread", "erase", "bury"}, req'[r] # req[r]
    PROVE  \/ req'[r].pc = "attached" /\ req'[r].mode = "delete"
           \/ req'[r].pc = "jobread" /\ req'[r].mode = "job"
           \/ req'[r].pc \in {"erase", "bury"} /\ (StartsPage(r) \/ PassesCheck(r) \/ GoesOn(r))
<1> DEFINE Goal == \/ req'[r].pc = "attached" /\ req'[r].mode = "delete"
                   \/ req'[r].pc = "jobread" /\ req'[r].mode = "job"
                   \/ /\ req'[r].pc \in {"erase", "bury"}
                      /\ StartsPage(r) \/ PassesCheck(r) \/ GoesOn(r)
<1>0. /\ req \in [Requests -> Request] /\ req[r] \in Request
      /\ \A x \in Requests : req[x] \in Request
  BY DEF ShapeOK
<1>1. ASSUME NEW x \in Requests, NEW value, req' = [req EXCEPT ![x] = value]
      PROVE  x = r /\ req'[r] = value
  BY <1>0, <1>1
<1>2. \A step \in Steps : [Idle EXCEPT !.pc = step].pc = step
  BY DEF Idle
<1>3. Idle.pc = "idle"
  BY DEF Idle
<1>4. ASSUME NEW x \in Requests, Stop(x) PROVE FALSE
  BY <1>1, <1>3, <1>4 DEF Stop
<1>5. ASSUME NEW x \in Requests, NEW step \in Steps \ {"attached", "jobread", "erase", "bury"},
             Goto(x, step) \/ Reset(x, step)
      PROVE  FALSE
  <2>1. [req[r] EXCEPT !.pc = step].pc = step
    BY <1>0 DEF Request
  <2> QED
    BY <1>0, <1>1, <1>2, <1>5, <2>1 DEF Goto, Reset
<1>6. ASSUME NEW x \in Requests, NEW e, NextOwed(x, e) PROVE FALSE
  <2>1. [req[x] EXCEPT !.pc = "enqueue", !.owed = @ \ {e}].pc = "enqueue"
    BY <1>0 DEF Request
  <2>2. CASE req' = [req EXCEPT ![x] = [req[x] EXCEPT !.pc = "enqueue", !.owed = @ \ {e}]]
    BY <1>1, <2>1, <2>2
  <2> QED
    BY <1>4, <1>6, <2>2 DEF NextOwed
<1>7. ASSUME NEW x \in Requests, NEW t \in Templates,
             Submit(x, t) \/ EditRead(x, t) \/ DeleteRead(x, t)
      PROVE  Goal
  <2>1. /\ \A v \in {"pending", "marketing", "rejected"} :
              [Idle EXCEPT !.pc = "insert", !.mode = "create", !.t = t, !.verdict = v].pc = "insert"
        /\ [Idle EXCEPT !.pc = "editcall", !.mode = "edit", !.t = t].pc = "editcall"
        /\ [Idle EXCEPT !.pc = "attached", !.mode = "delete", !.t = t].pc = "attached"
        /\ [Idle EXCEPT !.pc = "attached", !.mode = "delete", !.t = t].mode = "delete"
    BY DEF Idle
  <2>2. CASE Submit(x, t)
    BY <1>1, <2>1, <2>2 DEF Submit, Begin
  <2>3. CASE EditRead(x, t)
    BY <1>1, <2>1, <2>3 DEF EditRead, Begin
  <2>4. CASE DeleteRead(x, t)
    BY <1>1, <2>1, <2>4 DEF DeleteRead, Begin
  <2> QED
    BY <1>7, <2>2, <2>3, <2>4
<1>8. ASSUME NEW x \in Requests, ListTemplates(x) PROVE FALSE
  <2>1. \A todo : /\ [Idle EXCEPT !.pc = "sync", !.mode = "sync", !.todo = todo, !.listing = meta].pc = "sync"
                  /\ [Idle EXCEPT !.pc = "select"].pc = "select"
    BY DEF Idle
  <2> QED
    BY <1>1, <1>8, <2>1 DEF ListTemplates, Begin
<1>9. ASSUME NEW x \in Requests, SelectExpired(x) PROVE Goal
  <2> DEFINE expired == {t \in Templates : Overdue(t)}
  <2>1. PICK t \in expired :
           req' = [req EXCEPT ![x] = [Idle EXCEPT !.pc = "erase", !.mode = "page", !.t = t,
                                                  !.todo = expired \ {t}]]
    BY <1>9 DEF SelectExpired, Begin
  <2> DEFINE new == [Idle EXCEPT !.pc = "erase", !.mode = "page", !.t = t, !.todo = expired \ {t}]
  <2>2. /\ new.pc = "erase" /\ new.mode = "page" /\ new.t = t
        /\ new.todo = expired \ {t}
    BY DEF Idle
  <2>3. req'[r] = new
    BY <1>1, <2>1
  <2> HIDE DEF new, expired
  <2>4. StartsPage(r)
    <3>1. req'[r].todo \subseteq expired /\ req'[r].t \in expired
      BY <2>2, <2>3
    <3> QED
      BY <1>9, <2>2, <2>3, <3>1 DEF StartsPage, SelectExpired, expired
  <2> QED
    BY <2>2, <2>3, <2>4
<1>10. ASSUME NEW x \in Requests, RequestStep(x) PROVE Goal
  <2>1. CASE Insert(x)
    BY <1>4, <1>5, <2>1 DEF Insert, Steps
  <2>2. CASE SelectUnscheduled(x)
    <3> DEFINE owed == {<<t, row[t].negAt>> : t \in Unscheduled}
               new  == [req[x] EXCEPT !.pc = "enqueue", !.owed = owed]
    <3>1. new.pc = "enqueue"
      BY <1>0 DEF Request
    <3>2. CASE req' = [req EXCEPT ![x] = new]
      <4> HIDE DEF new
      <4> QED
        BY <1>1, <3>1, <3>2
    <3>3. Stop(x) \/ req' = [req EXCEPT ![x] = new]
      BY <2>2 DEF SelectUnscheduled
    <3> QED
      BY <1>4, <3>2, <3>3
  <2>3. CASE MarkScheduled(x)
    BY <1>6, <2>3 DEF MarkScheduled
  <2>4. ASSUME NEW e \in Episodes, EnqueuePurge(x, e) PROVE Goal
    <3> DEFINE new == [req[x] EXCEPT !.pc = "mark", !.episode = e]
    <3>1. new.pc = "mark"
      BY <1>0 DEF Request
    <3>2. CASE req' = [req EXCEPT ![x] = new]
      <4> HIDE DEF new
      <4> QED
        BY <1>1, <3>1, <3>2
    <3>3. NextOwed(x, e) \/ req' = [req EXCEPT ![x] = new]
      BY <2>4 DEF EnqueuePurge
    <3> QED
      BY <1>6, <3>2, <3>3
  <2>5. ASSUME NEW e \in Episodes, TakePurge(x, e) PROVE Goal
    <3> DEFINE new == [Idle EXCEPT !.pc = "jobread", !.mode = "job", !.t = e[1], !.episode = e]
    <3>1. new.pc = "jobread" /\ new.mode = "job"
      BY DEF Idle
    <3>2. req'[r] = new
      BY <1>1, <2>5 DEF TakePurge, Begin
    <3> HIDE DEF new
    <3> QED
      BY <3>1, <3>2
  <2>6. ASSUME NEW t \in Templates, SyncRow(x, t) PROVE Goal
    <3>1. CASE req' = [req EXCEPT ![x].todo = @ \ {t}]
      <4>1. [req[r] EXCEPT !.todo = @ \ {t}].pc = req[r].pc
        BY <1>0 DEF Request
      <4>2. req[r].pc = "sync"
        BY <1>1, <2>6, <3>1 DEF SyncRow, At
      <4> QED
        BY <1>1, <3>1, <4>1, <4>2
    <3>2. CASE Reset(x, "select")
      BY <1>5, <3>2 DEF Steps
    <3> QED
      BY <2>6, <3>1, <3>2 DEF SyncRow
  <2>7. CASE EditCall(x)
    <3>1. \A v : [req[x] EXCEPT !.pc = "editwrite", !.verdict = v].pc = "editwrite"
      BY <1>0 DEF Request
    <3>2. \E v : req' = [req EXCEPT ![x] = [req[x] EXCEPT !.pc = "editwrite", !.verdict = v]]
      BY <2>7 DEF EditCall
    <3> QED
      BY <1>1, <3>1, <3>2
  <2>8. CASE EditWrite(x) \/ ClosePurge(x) \/ StatementFails(x) \/ Die(x)
    BY <1>4, <2>8 DEF EditWrite, ClosePurge, StatementFails, Die
  <2>9. ASSUME Goto(x, "erase"), row' = row, now' = now,
               \/ At(x, "attached") /\ Rules!AttachedTo(req[x].t) = {}
               \/ At(x, "jobread") /\ Elapsed(req[x].t)
        PROVE  Goal
    <3>1. x = r /\ req'[r] = [req[r] EXCEPT !.pc = "erase"]
      BY <1>0, <1>1, <2>9 DEF Goto
    <3>2. req'[r].pc = "erase"
      BY <1>0, <3>1 DEF Request
    <3> QED
      BY <2>9, <3>1, <3>2 DEF PassesCheck
  <2>10. CASE CheckAttached(x, Rules!AttachedTo(req[x].t) # {})
    <3>1. CASE Stop(x)
      BY <1>4, <3>1
    <3>2. CASE Goto(x, "erase") /\ Rules!AttachedTo(req[x].t) = {}
      BY <2>9, <2>10, <3>2 DEF CheckAttached
    <3> QED
      BY <2>10, <3>1, <3>2 DEF CheckAttached
  <2>11. CASE JobRead(x)
    <3>1. CASE Goto(x, "close")
      BY <1>5, <3>1 DEF Steps
    <3>2. CASE Goto(x, "erase") /\ Elapsed(req[x].t)
      BY <2>9, <2>11, <3>2 DEF JobRead
    <3> QED
      BY <2>11, <3>1, <3>2 DEF JobRead
  <2>12. CASE Erase(x)
    <3>1. x = r /\ req'[r] = [req[r] EXCEPT !.pc = "bury"]
      BY <1>0, <1>1, <2>12 DEF Erase, Goto
    <3>2. /\ req'[r].pc = "bury" /\ req'[r].mode = req[r].mode
          /\ req'[r].t = req[r].t /\ req'[r].todo = req[r].todo
      BY <1>0, <3>1 DEF Request
    <3> QED
      BY <2>12, <3>1, <3>2 DEF Erase, GoesOn, Removing, At
  <2>13. CASE Bury(x)
    <3>1. CASE Goto(x, "close") \/ Stop(x)
      BY <1>4, <1>5, <3>1 DEF Steps
    <3>2. CASE req[x].mode # "job" /\ \E t \in req[x].todo :
                  req' = [req EXCEPT ![x].pc = "erase", ![x].t = t, ![x].todo = @ \ {t}]
      <4>1. PICK t \in req[x].todo :
               req' = [req EXCEPT ![x].pc = "erase", ![x].t = t, ![x].todo = @ \ {t}]
        BY <3>2
      <4>2. x = r /\ req'[r] = [req[r] EXCEPT !.pc = "erase", !.t = t, !.todo = @ \ {t}]
        BY <1>0, <1>1, <4>1
      <4>3. /\ req'[r].pc = "erase" /\ req'[r].mode = req[r].mode
            /\ req'[r].t = t /\ req'[r].todo = req[r].todo \ {t}
        BY <1>0, <4>2 DEF Request
      <4> QED
        BY <2>13, <3>2, <4>1, <4>2, <4>3 DEF Bury, GoesOn, Removing, At
    <3> QED
      <4>1. CASE req[x].mode = "job"
        BY <2>13, <3>1, <4>1 DEF Bury
      <4>2. CASE req[x].mode # "job" /\ req[x].todo # {}
        BY <2>13, <3>2, <4>2 DEF Bury
      <4>3. CASE req[x].mode # "job" /\ req[x].todo = {}
        BY <2>13, <3>1, <4>3 DEF Bury
      <4> QED
        BY <4>1, <4>2, <4>3
  <2> HIDE DEF Goal
  <2> QED
    BY <1>10, <2>1, <2>2, <2>3, <2>4, <2>5, <2>6, <2>7, <2>8, <2>10, <2>11, <2>12, <2>13
       DEF RequestStep
<1>11. CASE Tick \/ \E t \in Templates : Review(t)
  BY <1>11 DEF Tick, Review
<1> QED
  BY <1>7, <1>8, <1>9, <1>10, <1>11
     DEF TemplateStep, CreateTemplate, UpdateTemplate, DeleteTemplate, RefreshTemplates,
         VisitTemplates

LEMMA InitRemoval == CatalogueInit => RemovalInv
<1>1. Idle.pc = "idle"
  BY DEF Idle
<1> QED
  BY <1>1 DEF CatalogueInit, Init, RemovalInv, Removing, At

LEMMA StepRemoval ==
    ShapeOK /\ RemovalInv /\ [CatalogueNext]_catalogueVars => RemovalInv'
<1> SUFFICES ASSUME ShapeOK, RemovalInv, [CatalogueNext]_catalogueVars PROVE RemovalInv'
  OBVIOUS
<1>1. CASE UNCHANGED catalogueVars
  BY <1>1 DEF catalogueVars, RemovalInv, Removing, At, Deleting, Purging
<1>2. CASE CatalogueNext
  <2> SUFFICES ASSUME NEW r \in Requests
               PROVE  /\ req'[r].pc = "attached" => req'[r].mode = "delete"
                      /\ req'[r].pc = "jobread" => req'[r].mode = "job"
                      /\ req'[r].pc \in {"erase", "bury"} =>
                           /\ req'[r].mode = "delete" => kept'[r] = {}
                           /\ req'[r].mode \in {"page", "job"} => req'[r].t \in ripe'[r]
                           /\ req'[r].mode = "page" => req'[r].todo \subseteq ripe'[r]
    BY DEF RemovalInv, Removing, At, Deleting, Purging
  <2>0. req[r] \in Request
    BY DEF ShapeOK
  <2>1. /\ kept'[r] = StillKept(r) /\ ripe'[r] = RipeSince(r)
        /\ req[r].pc = "attached" => req[r].mode = "delete"
        /\ req[r].pc = "jobread" => req[r].mode = "job"
        /\ Removing(r) =>
             /\ req[r].mode = "delete" => kept[r] = {}
             /\ req[r].mode \in {"page", "job"} => req[r].t \in ripe[r]
             /\ req[r].mode = "page" => req[r].todo \subseteq ripe[r]
    BY <1>2 DEF CatalogueNext, RemovalInv, At, Deleting, Purging
  <2>2. /\ req'[r].mode = "delete" /\ req[r].mode = "delete" => kept'[r] \subseteq kept[r]
        /\ req'[r].mode \in {"page", "job"} => ripe[r] \subseteq ripe'[r]
    BY <2>1 DEF StillKept, RipeSince, Deleting, Purging
  <2>3. CASE req'[r] = req[r]
    BY <2>1, <2>2, <2>3 DEF Removing
  <2>4. CASE req'[r] # req[r] /\ req'[r].pc \in {"attached", "jobread", "erase", "bury"}
    <3>1. TemplateStep /\ rule' = rule
      BY <1>2, <2>4 DEF CatalogueNext, lifecycleVars
    <3>2. CASE \/ req'[r].pc = "attached" /\ req'[r].mode = "delete"
               \/ req'[r].pc = "jobread" /\ req'[r].mode = "job"
      BY <3>2
    <3>3. CASE req'[r].pc \in {"erase", "bury"} /\ GoesOn(r)
      BY <2>1, <2>2, <3>3 DEF GoesOn
    <3>4. CASE req'[r].pc \in {"erase", "bury"} /\ StartsPage(r)
      <4>1. {t \in Templates : Overdue(t)} \subseteq ripe'[r]
        <5>1. \A t \in Templates : row[t].negAt \in Nat
          BY LifecycleAssumption DEF ShapeOK, Row, Times, Never
        <5>2. Grace \in Nat /\ now \in Nat
          BY LifecycleAssumption DEF ShapeOK, Times
        <5>3. /\ \A t \in Templates : Overdue(t) => row'[t].negAt + Grace <= now'
              /\ Purging(req'[r])
          BY <3>4, <5>1, <5>2 DEF StartsPage, Overdue, Purging
        <5> QED
          BY <2>1, <5>3 DEF RipeSince
      <4> QED
        BY <3>4, <4>1 DEF StartsPage
    <3>5. CASE req'[r].pc \in {"erase", "bury"} /\ PassesCheck(r)
      <4>1. /\ req'[r].mode = req[r].mode /\ req'[r].t = req[r].t
            /\ req[r].t \in Templates
        BY <2>0, <3>5 DEF PassesCheck, Request
      <4>2. CASE At(r, "attached") /\ Rules!AttachedTo(req[r].t) = {}
        <5>1. Rules!UsersOf(rule', req'[r].t) = {}
          BY <3>1, <4>1, <4>2 DEF Rules!AttachedTo, Rules!UsersOf
        <5>2. kept'[r] = {} /\ req'[r].mode = "delete"
          BY <2>1, <4>1, <4>2, <5>1 DEF StillKept, At
        <5> QED
          BY <3>5, <5>2
      <4>3. CASE At(r, "jobread") /\ Elapsed(req[r].t)
        BY <2>1, <3>5, <4>1, <4>3 DEF RipeSince, Purging, Elapsed, At, PassesCheck
      <4> QED
        BY <3>5, <4>2, <4>3 DEF PassesCheck
    <3> QED
      BY <2>4, <3>1, <3>2, <3>3, <3>4, <3>5, RequestMoves
  <2> QED
    BY <2>3, <2>4
<1> QED
  BY <1>1, <1>2

LEMMA RemovalHolds == CatalogueSpec => [](ShapeOK /\ RemovalInv)
<1>1. ClockInv => ShapeOK
  BY DEF ClockInv
<1> QED
  BY <1>1, ClockHolds, InitRemoval, StepRemoval, PTL DEF CatalogueSpec

(* The operator's deletion never removes a template under an automation    *)
(* that has used it ever since the deletion was asked for.                 *)
THEOREM UsedTemplatesStay == CatalogueSpec => []AttachedIsKept
<1>1. RemovalInv => AttachedIsKept
  BY DEF RemovalInv, AttachedIsKept, Removing
<1> QED
  BY <1>1, RemovalHolds, PTL

(* A purge marks a template deleted only after it has seen it beyond its   *)
(* grace window, for any number of overlapping jobs and page visits.       *)
THEOREM PurgesRespectTheWindow == CatalogueSpec => PurgeAfterWindow
<1>1. ShapeOK /\ RemovalInv /\ [CatalogueNext]_catalogueVars =>
        [\A r \in Requests, t \in Templates :
          /\ At(r, "bury") /\ Purging(req[r]) /\ req[r].t = t
          /\ row[t].approval # "deleted" /\ row'[t].approval = "deleted"
         => t \in ripe[r]]_catalogueVars
  BY DEF RemovalInv, Removing, At
<1> QED
  BY <1>1, RemovalHolds, PTL DEF CatalogueSpec, PurgeAfterWindow

-----------------------------------------------------------------------------
(* The purge jobs, the automations and the histories keep their types.  A  *)
(* request asks the queue only about episodes it has (ShapeOK), and the    *)
(* queue counts no run beyond the last one (its guard in Take).            *)

QueueTyped == slot \in [Episodes -> Queue!SlotStates] /\ tries \in [Episodes -> 0 .. MaxAttempts]

RestTyped ==
    /\ QueueTyped
    /\ faults \in 0 .. MaxFaults
    /\ rule \in [RuleIds -> Rules!Rule]
    /\ kept \in [Requests -> SUBSET RuleIds]
    /\ ripe \in [Requests -> SUBSET Templates]

LEMMA QueueMoves ==
    ASSUME QueueTyped, NEW e \in Episodes,
           \/ Queue!Add(e) \/ Queue!Take({e}) \/ Queue!Finish(e) \/ Queue!GiveBack(e)
           \/ Queue!Lose({e})
    PROVE  QueueTyped'
<1> USE DEF QueueTyped, Queue!SlotStates
<1>1. CASE Queue!Add(e) \/ Queue!GiveBack(e)
  BY <1>1 DEF Queue!Add, Queue!GiveBack
<1>2. CASE Queue!Take({e})
  <2>1. tries[e] \in Nat /\ tries[e] < MaxAttempts /\ MaxAttempts \in Nat
    BY <1>2, LifecycleAssumption DEF Queue!Take
  <2>2. tries[e] + 1 \in 0 .. MaxAttempts
    BY <2>1
  <2>3. /\ slot' = [w \in Episodes |-> IF w \in {e} THEN "held" ELSE slot[w]]
        /\ tries' = [w \in Episodes |-> IF w \in {e} THEN tries[w] + 1 ELSE tries[w]]
    BY <1>2 DEF Queue!Take
  <2>4. \A w \in Episodes : (IF w \in {e} THEN tries[w] + 1 ELSE tries[w]) \in 0 .. MaxAttempts
    BY <2>2
  <2> QED
    BY <2>3, <2>4
<1>3. CASE Queue!Finish(e)
  <2>1. 0 \in 0 .. MaxAttempts
    BY LifecycleAssumption
  <2> QED
    BY <1>3, <2>1 DEF Queue!Finish
<1>4. CASE Queue!Lose({e})
  BY <1>4 DEF Queue!Lose
<1> QED
  BY <1>1, <1>2, <1>3, <1>4

LEMMA QueueSteps ==
    ASSUME ShapeOK, QueueTyped, faults \in 0 .. MaxFaults, TemplateStep
    PROVE  QueueTyped' /\ faults' \in 0 .. MaxFaults
<1> DEFINE Goal == QueueTyped' /\ faults' \in 0 .. MaxFaults
<1>0. \A r \in Requests : req[r].episode \in Episodes
  BY DEF ShapeOK, Request
<1>1. ASSUME UNCHANGED <<slot, tries>> PROVE QueueTyped'
  BY <1>1 DEF QueueTyped
<1>2. ASSUME UNCHANGED faults \/ Fault PROVE faults' \in 0 .. MaxFaults
  BY <1>2, LifecycleAssumption DEF Fault
<1>3. ASSUME NEW r \in Requests, NEW t \in Templates, Submit(r, t) PROVE Goal
  BY <1>1, <1>2, <1>3 DEF Submit
<1>4. ASSUME NEW r \in Requests,
             \/ ListTemplates(r) \/ SelectExpired(r)
             \/ \E t \in Templates : EditRead(r, t) \/ DeleteRead(r, t)
      PROVE  Goal
  BY <1>1, <1>2, <1>4 DEF EditRead, DeleteRead, ListTemplates, SelectExpired
<1>5. ASSUME NEW r \in Requests, RequestStep(r) PROVE Goal
  <2>1. ASSUME NEW e \in Episodes, EnqueuePurge(r, e) \/ TakePurge(r, e) PROVE Goal
    <3>1. QueueTyped'
      BY <1>1, <2>1, QueueMoves DEF EnqueuePurge, TakePurge
    <3>2. faults' \in 0 .. MaxFaults
      BY <1>2, <2>1 DEF EnqueuePurge, TakePurge
    <3> QED
      BY <3>1, <3>2
  <2>2. CASE ClosePurge(r) \/ StatementFails(r) \/ Die(r)
    <3>1. QueueTyped'
      BY <1>0, <1>1, <2>2, QueueMoves DEF ClosePurge, StatementFails, Die
    <3>2. faults' \in 0 .. MaxFaults
      BY <1>2, <2>2 DEF ClosePurge, StatementFails, Die
    <3> QED
      BY <3>1, <3>2
  <2>3. CASE Insert(r) \/ SelectUnscheduled(r) \/ MarkScheduled(r) \/ EditWrite(r) \/ Bury(r)
    BY <1>1, <1>2, <2>3 DEF Insert, SelectUnscheduled, MarkScheduled, EditWrite, Bury
  <2>4. CASE EditCall(r) \/ JobRead(r) \/ Erase(r)
             \/ CheckAttached(r, Rules!AttachedTo(req[r].t) # {})
    BY <1>1, <1>2, <2>4 DEF EditCall, JobRead, Erase, CheckAttached
  <2>5. ASSUME NEW t \in Templates, SyncRow(r, t) PROVE Goal
    BY <1>1, <1>2, <2>5 DEF SyncRow
  <2> HIDE DEF Goal
  <2> QED
    BY <1>5, <2>1, <2>2, <2>3, <2>4, <2>5 DEF RequestStep
<1>6. CASE Tick \/ \E t \in Templates : Review(t)
  BY <1>1, <1>2, <1>6 DEF Tick, Review
<1>7. CASE CreateTemplate \/ UpdateTemplate \/ DeleteTemplate \/ RefreshTemplates \/ VisitTemplates
  BY <1>3, <1>4, <1>7 DEF CreateTemplate, UpdateTemplate, DeleteTemplate, RefreshTemplates,
                          VisitTemplates
<1> QED
  BY <1>5, <1>6, <1>7 DEF TemplateStep

LEMMA BlankIsRule == Rules!Blank \in Rules!Rule
<1>1. (CHOOSE g \in Triggers : TRUE) \in Triggers
  BY CatalogueAssumption
<1> QED
  BY <1>1 DEF Rules!Blank, Rules!Rule

LEMMA RuleSteps ==
    ASSUME rule \in [RuleIds -> Rules!Rule], RuleStep
    PROVE  rule' \in [RuleIds -> Rules!Rule]
<1>1. ASSUME NEW a \in RuleIds, NEW new \in Rules!Rule, rule' = [rule EXCEPT ![a] = new]
      PROVE  rule' \in [RuleIds -> Rules!Rule]
  BY <1>1
<1>2. ASSUME NEW a \in RuleIds, NEW g \in Triggers, NEW t \in ShopTemplates, Rules!Create(a, g, t)
      PROVE  rule' \in [RuleIds -> Rules!Rule]
  <2>1. [state |-> "on", trigger |-> g, template |-> t] \in Rules!Rule
    BY DEF Rules!Rule, ShopTemplates
  <2> QED
    BY <1>1, <1>2, <2>1 DEF Rules!Create
<1>3. ASSUME NEW a \in RuleIds, NEW g \in Triggers, NEW t \in ShopTemplates, Rules!Update(a, g, t)
      PROVE  rule' \in [RuleIds -> Rules!Rule]
  <2>1. [rule[a] EXCEPT !.trigger = g, !.template = t] \in Rules!Rule
    BY DEF Rules!Rule, ShopTemplates
  <2> QED
    BY <1>1, <1>3, <2>1 DEF Rules!Update
<1>4. ASSUME NEW a \in RuleIds, NEW enabled \in BOOLEAN, Rules!SetEnabled(a, enabled)
      PROVE  rule' \in [RuleIds -> Rules!Rule]
  <2>1. [rule[a] EXCEPT !.state = IF enabled THEN "on" ELSE "off"] \in Rules!Rule
    BY DEF Rules!Rule
  <2> QED
    BY <1>1, <1>4, <2>1 DEF Rules!SetEnabled
<1>5. ASSUME NEW a \in RuleIds, Rules!Delete(a) PROVE rule' \in [RuleIds -> Rules!Rule]
  BY <1>1, <1>5, BlankIsRule DEF Rules!Delete
<1> QED
  BY <1>2, <1>3, <1>4, <1>5
     DEF RuleStep, CreateAutomation, UpdateAutomation, ToggleAutomation, DeleteAutomation

LEMMA InitTypes == CatalogueInit => RestTyped
<1> SUFFICES ASSUME CatalogueInit PROVE RestTyped
  OBVIOUS
<1>1. QueueTyped
  BY LifecycleAssumption DEF CatalogueInit, Init, Queue!SlotInit, Queue!SlotStates, QueueTyped
<1>2. rule \in [RuleIds -> Rules!Rule]
  BY BlankIsRule DEF CatalogueInit, Rules!RulesInit
<1>3. faults \in 0 .. MaxFaults
  BY LifecycleAssumption DEF CatalogueInit, Init
<1> QED
  BY <1>1, <1>2, <1>3 DEF CatalogueInit, RestTyped

LEMMA StepTypes ==
    ShapeOK /\ RestTyped /\ [CatalogueNext]_catalogueVars => RestTyped'
<1> SUFFICES ASSUME ShapeOK, RestTyped, [CatalogueNext]_catalogueVars PROVE RestTyped'
  OBVIOUS
<1> USE DEF RestTyped
<1>1. CASE UNCHANGED catalogueVars
  BY <1>1 DEF catalogueVars, QueueTyped
<1>2. CASE CatalogueNext
  <2>1. QueueTyped' /\ faults' \in 0 .. MaxFaults
    <3>1. CASE TemplateStep
      BY <3>1, QueueSteps
    <3>2. CASE UNCHANGED lifecycleVars
      BY <3>2 DEF lifecycleVars, QueueTyped
    <3> QED
      BY <1>2, <3>1, <3>2 DEF CatalogueNext
  <2>2. rule' \in [RuleIds -> Rules!Rule]
    BY <1>2, RuleSteps DEF CatalogueNext
  <2>3. \A r \in Requests : StillKept(r) \in SUBSET RuleIds /\ RipeSince(r) \in SUBSET Templates
    BY DEF StillKept, RipeSince, Rules!UsersOf
  <2>4. /\ kept' = [r \in Requests |-> StillKept(r)]
        /\ ripe' = [r \in Requests |-> RipeSince(r)]
    BY <1>2 DEF CatalogueNext
  <2>5. kept' \in [Requests -> SUBSET RuleIds] /\ ripe' \in [Requests -> SUBSET Templates]
    BY <2>3, <2>4
  <2> QED
    BY <2>1, <2>2, <2>5
<1> QED
  BY <1>1, <1>2

(* Every variable keeps its type, with any number of templates, requests,  *)
(* automations, attempts and faults: a job is never run more often than    *)
(* MaxAttempts, and a request only ever names an episode there may be.     *)
THEOREM CatalogueTypes == CatalogueSpec => []TypeOK
<1>1. ShapeOK /\ RestTyped => TypeOK
  BY DEF ShapeOK, RestTyped, QueueTyped, TypeOK
<1> QED
  BY <1>1, RemovalHolds, InitTypes, StepTypes, PTL DEF CatalogueSpec

-----------------------------------------------------------------------------
(* Days and minutes.                                                       *)

LEMMA DayIsPositive == MinutesPerDay \in Nat \ {0}
<1>1. \A a, b \in Nat \ {0} : a * b \in Nat \ {0}
  OBVIOUS
<1> QED
  BY <1>1, ScheduleAssumption DEF MinutesPerDay

(* A local time is a minute of a day, in one way.                          *)
LEMMA LocalTime ==
    ASSUME NEW local \in Int
    PROVE  /\ DayOf(local) \in Int /\ MinuteOf(local) \in Minutes
           /\ local = DayOf(local) * MinutesPerDay + MinuteOf(local)
<1>1. \A d \in Nat \ {0}, a \in Int :
         /\ a \div d \in Int /\ a % d \in 0 .. d - 1
         /\ a = (a \div d) * d + (a % d)
  OBVIOUS
<1> QED
  BY <1>1, DayIsPositive DEF DayOf, MinuteOf, Minutes

LEMMA TimeOfADay ==
    ASSUME NEW day \in Int, NEW minute \in Minutes
    PROVE  /\ day * MinutesPerDay + minute \in Int
           /\ DayOf(day * MinutesPerDay + minute) = day
           /\ MinuteOf(day * MinutesPerDay + minute) = minute
<1>1. \A d \in Nat \ {0}, q, r \in Int :
         0 <= r /\ r < d => /\ q * d + r \in Int
                            /\ (q * d + r) \div d = q /\ (q * d + r) % d = r
  OBVIOUS
<1>2. minute \in Int /\ 0 <= minute /\ minute < MinutesPerDay
  BY DayIsPositive DEF Minutes
<1> QED
  BY <1>1, <1>2, DayIsPositive DEF DayOf, MinuteOf

(* The ISO weekday of a day: 1 on Monday, 7 on Sunday.                     *)
IsoDay(day) == (day % 7) + 1

LEMMA WeekdayOfDay ==
    ASSUME NEW local \in Int
    PROVE  IsoWeekday(local) = IsoDay(DayOf(local))
<1>1. \A q \in Int : ((((q + 1) % 7) + 6) % 7) = q % 7
  OBVIOUS
<1> QED
  BY <1>1, LocalTime DEF IsoWeekday, Weekday, IsoDay

LEMMA DaysAhead ==
    ASSUME NEW local \in Int, NEW d \in Nat
    PROVE  IsoWeekday(local + d * MinutesPerDay) = IsoDay(DayOf(local) + d)
<1>1. \A q, e, m, k \in Int : (q * m + e) + k * m = (q + k) * m + e
  OBVIOUS
<1>2. /\ DayOf(local) \in Int /\ MinuteOf(local) \in Minutes /\ MinuteOf(local) \in Int
      /\ local = DayOf(local) * MinutesPerDay + MinuteOf(local)
      /\ MinutesPerDay \in Int
  BY LocalTime, DayIsPositive DEF Minutes
<1>3. local + d * MinutesPerDay = (DayOf(local) + d) * MinutesPerDay + MinuteOf(local)
  BY <1>1, <1>2
<1>4. DayOf(local + d * MinutesPerDay) = DayOf(local) + d
  BY <1>2, <1>3, TimeOfADay
<1>5. local + d * MinutesPerDay \in Int
  BY <1>2, <1>3, TimeOfADay
<1> QED
  BY <1>4, <1>5, WeekdayOfDay

(* A week has every weekday.                                               *)
LEMMA WeekIsComplete ==
    ASSUME NEW day \in Int, NEW w \in AllDays
    PROVE  \E d \in 1 .. 7 : IsoDay(day + d) = w
<1> DEFINE d == ((w + 12 - (day % 7)) % 7) + 1
<1>1. d \in 1 .. 7
  BY DEF AllDays
<1>2. (day + d) % 7 = w - 1
  BY DEF AllDays
<1> HIDE DEF d
<1>3. IsoDay(day + d) = w
  BY <1>1, <1>2 DEF IsoDay, AllDays
<1> QED
  BY <1>1, <1>3

(* A set of days ahead that has one of the coming week has a first one.    *)
LEMMA FirstDay ==
    ASSUME NEW ahead \in SUBSET Int, NEW d \in 1 .. 7, d \in ahead, \A e \in ahead : e >= 1
    PROVE  \E first \in ahead : first <= 7 /\ \A e \in ahead : first <= e
<1> DEFINE Before(n) == \E e \in ahead : e <= n
           First(n)  == n \in ahead /\ \A e \in ahead : n <= e
<1>1. /\ ~Before(0) /\ 1 \in ahead => First(1)
      /\ ~Before(1) /\ 2 \in ahead => First(2)
      /\ ~Before(2) /\ 3 \in ahead => First(3)
      /\ ~Before(3) /\ 4 \in ahead => First(4)
      /\ ~Before(4) /\ 5 \in ahead => First(5)
      /\ ~Before(5) /\ 6 \in ahead => First(6)
      /\ ~Before(6) /\ 7 \in ahead => First(7)
  OBVIOUS
<1>2. /\ Before(7) => Before(6) \/ 7 \in ahead
      /\ Before(6) => Before(5) \/ 6 \in ahead
      /\ Before(5) => Before(4) \/ 5 \in ahead
      /\ Before(4) => Before(3) \/ 4 \in ahead
      /\ Before(3) => Before(2) \/ 3 \in ahead
      /\ Before(2) => Before(1) \/ 2 \in ahead
      /\ Before(1) => Before(0) \/ 1 \in ahead
  OBVIOUS
<1>3. Before(7) /\ ~Before(0)
  OBVIOUS
<1> HIDE DEF Before, First
<1>4. First(1) \/ First(2) \/ First(3) \/ First(4) \/ First(5) \/ First(6) \/ First(7)
  BY <1>1, <1>2, <1>3
<1> QED
  BY <1>4 DEF First

-----------------------------------------------------------------------------
(* The search for the fixed time: from an event on, in local time, the     *)
(* first moment on an allowed weekday that is not before the time of day.  *)

Allowed(plan, local) == MinuteOf(local) >= plan.minute /\ IsoDay(DayOf(local)) \in plan.days

(* A day on which nothing is allowed, and the hours before the window.     *)
LEMMA NotBefore ==
    ASSUME NEW plan, plan.minute \in Minutes, NEW local \in Int, NEW day \in Int,
           NEW moment \in Int, local <= moment,
           moment < Window(plan, day),
           \A other \in Int : DayOf(local) <= other /\ other < day => IsoDay(other) \notin plan.days
    PROVE  ~Allowed(plan, moment)
<1>1. /\ DayOf(local) \in Int /\ DayOf(moment) \in Int
      /\ MinuteOf(local) \in Int /\ MinuteOf(moment) \in Int
      /\ 0 <= MinuteOf(moment) /\ MinuteOf(local) < MinutesPerDay
      /\ 0 <= plan.minute /\ plan.minute < MinutesPerDay /\ plan.minute \in Int
      /\ local = DayOf(local) * MinutesPerDay + MinuteOf(local)
      /\ moment = DayOf(moment) * MinutesPerDay + MinuteOf(moment)
      /\ MinutesPerDay \in Nat \ {0}
  <2>1. /\ DayOf(local) \in Int /\ MinuteOf(local) \in Minutes
        /\ local = DayOf(local) * MinutesPerDay + MinuteOf(local)
    BY LocalTime
  <2>2. /\ DayOf(moment) \in Int /\ MinuteOf(moment) \in Minutes
        /\ moment = DayOf(moment) * MinutesPerDay + MinuteOf(moment)
    BY LocalTime
  <2>3. \A n \in Minutes : n \in Int /\ 0 <= n /\ n < MinutesPerDay
    BY DayIsPositive DEF Minutes
  <2> QED
    BY <2>1, <2>2, <2>3, DayIsPositive
<1>2. DayOf(local) <= DayOf(moment)
  <2>1. \A a, b \in Int, m \in Nat \ {0} : a <= b => a \div m <= b \div m
    OBVIOUS
  <2> QED
    BY <2>1, <1>1 DEF DayOf
<1>3. DayOf(moment) <= day
  <2>1. \A p, q, r, n \in Int, m \in Nat \ {0} :
           0 <= r /\ n < m /\ p * m + r < q * m + n => p <= q
    <3>1. \A p, q, m \in Int : p > q /\ m > 0 => p * m >= q * m + m
      <4>1. \A k, m \in Int : k >= 1 /\ m > 0 => k * m >= m
        OBVIOUS
      <4>2. \A p, q, m \in Int : p * m = q * m + (p - q) * m
        OBVIOUS
      <4> QED
        BY <4>1, <4>2
    <3> QED
      BY <3>1
  <2> QED
    BY <1>1, <2>1 DEF Window
<1>4. CASE DayOf(moment) < day
  BY <1>1, <1>2, <1>4 DEF Allowed
<1>5. CASE DayOf(moment) = day
  <2>1. day * MinutesPerDay + MinuteOf(moment) < day * MinutesPerDay + plan.minute
    BY <1>1, <1>5 DEF Window
  <2>2. \A x, r, n \in Int : x + r < x + n => r < n
    OBVIOUS
  <2>3. day * MinutesPerDay \in Int
    BY <1>1
  <2>4. MinuteOf(moment) < plan.minute
    BY <1>1, <2>1, <2>2, <2>3
  <2> QED
    BY <1>1, <2>4 DEF Allowed
<1> QED
  BY <1>1, <1>3, <1>4, <1>5

LEMMA WindowIsAllowed ==
    ASSUME NEW plan, plan.minute \in Minutes, NEW day \in Int, IsoDay(day) \in plan.days
    PROVE  Allowed(plan, Window(plan, day)) /\ Window(plan, day) \in Int
<1>1. /\ Window(plan, day) \in Int /\ DayOf(Window(plan, day)) = day
      /\ MinuteOf(Window(plan, day)) = plan.minute
  BY TimeOfADay DEF Window
<1> QED
  BY <1>1 DEF Allowed, Minutes

(* What FixedFire answers, for every local time.                           *)
LEMMA FixedFireIsFirst ==
    ASSUME NEW plan, plan.minute \in Minutes, plan.days \subseteq AllDays, plan.days # {},
           NEW local \in Nat
    PROVE  \/ /\ FixedFire(plan, local) = Absent
              /\ Allowed(plan, local)
           \/ /\ FixedFire(plan, local) \in Int
              /\ local < FixedFire(plan, local)
              /\ FixedFire(plan, local) <= local + 8 * MinutesPerDay
              /\ Allowed(plan, FixedFire(plan, local))
              /\ \A moment \in Int : local <= moment /\ moment < FixedFire(plan, local)
                                       => ~Allowed(plan, moment)
<1> DEFINE today == DayOf(local)
<1>1. /\ today \in Int /\ MinuteOf(local) \in Int
      /\ 0 <= MinuteOf(local) /\ MinuteOf(local) < MinutesPerDay
      /\ local = today * MinutesPerDay + MinuteOf(local)
      /\ plan.minute \in Int /\ 0 <= plan.minute /\ plan.minute < MinutesPerDay
      /\ MinutesPerDay \in Nat \ {0} /\ MinutesPerDay \in Int
      /\ today * MinutesPerDay \in Int
  <2>1. /\ today \in Int /\ MinuteOf(local) \in Minutes
        /\ local = today * MinutesPerDay + MinuteOf(local)
    <3>1. local \in Int
      OBVIOUS
    <3> QED
      BY <3>1, LocalTime
  <2> HIDE DEF today
  <2>2. MinutesPerDay \in Nat \ {0} /\ MinutesPerDay \in Int
    BY DayIsPositive
  <2>3. \A m \in Minutes : m \in Int /\ 0 <= m /\ m < MinutesPerDay
    BY <2>2 DEF Minutes
  <2>4. \A a, b \in Int : a * b \in Int
    OBVIOUS
  <2>5. today * MinutesPerDay \in Int
    BY <2>1, <2>2, <2>4
  <2> QED
    BY <2>1, <2>2, <2>3, <2>5
<1>2. Allows(plan, IsoWeekday(local)) <=> IsoDay(today) \in plan.days
  BY WeekdayOfDay DEF Allows
<1> HIDE DEF today
<1>3. Window(plan, today) = today * MinutesPerDay + plan.minute
  BY DEF Window
<1>4. CASE ~Allows(plan, IsoWeekday(local))
  <2> DEFINE ahead == {d \in 1 .. 14 : Allows(plan, IsoWeekday(local + d * MinutesPerDay))}
  <2>1. \A d \in 1 .. 14 : d \in ahead <=> IsoDay(today + d) \in plan.days
    BY DaysAhead DEF Allows, today
  <2>2. ahead \in SUBSET Int /\ \A e \in ahead : e >= 1 /\ e \in 1 .. 14
    OBVIOUS
  <2>3. PICK w \in AllDays : w \in plan.days
    OBVIOUS
  <2>4. PICK d \in 1 .. 7 : IsoDay(today + d) = w
    BY <1>1, WeekIsComplete
  <2>5. d \in ahead
    <3>1. d \in 1 .. 14
      BY <2>4
    <3> QED
      BY <2>1, <2>3, <2>4, <3>1
  <2> HIDE DEF ahead
  <2>6. \E first \in ahead : first <= 7 /\ \A e \in ahead : first <= e
    BY <2>2, <2>5, FirstDay
  <2> DEFINE first == CHOOSE f \in ahead : \A e \in ahead : f <= e
  <2>7. first \in ahead /\ first <= 7 /\ \A e \in ahead : first <= e
    <3>1. first \in ahead /\ \A e \in ahead : first <= e
      BY <2>6
    <3>2. PICK f \in ahead : f <= 7
      BY <2>6
    <3>3. first <= f /\ first \in Int /\ f \in Int
      BY <2>2, <3>1, <3>2
    <3> QED
      BY <3>1, <3>2, <3>3
  <2>8. FixedFire(plan, local) = Window(plan, today + first)
    BY <1>4, <2>5 DEF FixedFire, NextAllowedDay, ahead, today
  <2> HIDE DEF first
  <2>9. first \in 1 .. 7 /\ IsoDay(today + first) \in plan.days
    BY <2>1, <2>2, <2>7
  <2>10. Window(plan, today + first) \in Int /\ Allowed(plan, Window(plan, today + first))
    BY <1>1, <2>9, WindowIsAllowed
  <2>11. /\ local < Window(plan, today + first)
         /\ Window(plan, today + first) <= local + 8 * MinutesPerDay
    <3>1. \A q, m, k \in Int : (q + k) * m = q * m + k * m
      OBVIOUS
    <3>2. \A m \in Nat, k \in 1 .. 7 : m <= k * m /\ k * m <= 7 * m
      OBVIOUS
    <3>3. Window(plan, today + first) = today * MinutesPerDay + first * MinutesPerDay + plan.minute
      BY <1>1, <2>9, <3>1 DEF Window
    <3>4. /\ MinutesPerDay <= first * MinutesPerDay /\ first * MinutesPerDay <= 7 * MinutesPerDay
          /\ first * MinutesPerDay \in Int
      BY <1>1, <2>9, <3>2
    <3> QED
      BY <1>1, <3>3, <3>4
  <2>12. \A other \in Int : today <= other /\ other < today + first => IsoDay(other) \notin plan.days
    <3> SUFFICES ASSUME NEW other \in Int, today <= other, other < today + first,
                        IsoDay(other) \in plan.days
                 PROVE  FALSE
      OBVIOUS
    <3>1. CASE other = today
      BY <1>2, <1>4, <3>1
    <3>2. CASE other # today
      <4>1. other - today \in 1 .. 14 /\ today + (other - today) = other /\ other - today < first
        BY <1>1, <2>9, <3>2
      <4>2. other - today \in ahead
        BY <2>1, <4>1
      <4>3. first <= other - today
        BY <2>7, <4>2
      <4> QED
        BY <1>1, <2>9, <4>1, <4>3
    <3> QED
      BY <3>1, <3>2
  <2>13. \A moment \in Int : local <= moment /\ moment < Window(plan, today + first)
                               => ~Allowed(plan, moment)
    <3>1. today + first \in Int
      BY <1>1, <2>9
    <3> QED
      BY <2>12, <3>1, NotBefore DEF today
  <2> QED
    BY <2>8, <2>10, <2>11, <2>13
<1>5. CASE Allows(plan, IsoWeekday(local)) /\ Window(plan, today) > local
  <2>1. FixedFire(plan, local) = Window(plan, today)
    BY <1>5 DEF FixedFire, today
  <2>2. Window(plan, today) \in Int /\ Allowed(plan, Window(plan, today))
    BY <1>1, <1>2, <1>5, WindowIsAllowed
  <2>3. Window(plan, today) <= local + 8 * MinutesPerDay /\ local < Window(plan, today)
    BY <1>1, <1>3, <1>5
  <2>4. \A moment \in Int : local <= moment /\ moment < Window(plan, today)
                              => ~Allowed(plan, moment)
    <3>1. \A other \in Int : ~(today <= other /\ other < today)
      BY <1>1
    <3> QED
      BY <1>1, <3>1, NotBefore DEF today
  <2> QED
    BY <2>1, <2>2, <2>3, <2>4
<1>6. CASE Allows(plan, IsoWeekday(local)) /\ ~(Window(plan, today) > local)
  <2>1. FixedFire(plan, local) = Absent
    BY <1>6 DEF FixedFire, today
  <2>2. MinuteOf(local) >= plan.minute
    BY <1>1, <1>3, <1>6
  <2>3. Allowed(plan, local)
    BY <1>2, <1>6, <2>2 DEF Allowed, today
  <2> QED
    BY <2>1, <2>3
<1> QED
  BY <1>4, <1>5, <1>6

-----------------------------------------------------------------------------
(* Through the columns and back.                                           *)

(* What the handler reads from a form.                                     *)
IsForm(form) ==
    /\ form.mode \in {"", "instant", "delayed", "fixed"}
    /\ form.mode = "fixed" => form.time \in Minutes \cup {Absent}
    /\ form.mode = "delayed" => form.delay \in Int

ZoneOf(form) == IF form.zone = "" THEN DefaultTimezone ELSE form.zone

Stored(form) == RuleFromSchedule(ScheduleOf(ScheduleToColumns(ParseSchedule(form))))

LEMMA TimeSurvives ==
    ASSUME NEW minute \in Minutes
    PROVE  /\ TimeOfDay(minute) # NullTime
           /\ TimeOfDay(minute).hour * MinutesPerHour + TimeOfDay(minute).minute = minute
<1>1. MinutesPerHour \in Nat \ {0} /\ minute \in Nat
  BY ScheduleAssumption, DayIsPositive DEF Minutes
<1>2. \A a \in Nat, d \in Nat \ {0} : (a \div d) * d + (a % d) = a /\ a % d >= 0
  OBVIOUS
<1>3. (minute % MinutesPerHour) # -1
  BY <1>1, <1>2
<1>4. TimeOfDay(minute).minute # NullTime.minute
  BY <1>3 DEF TimeOfDay, NullTime, Absent
<1> QED
  BY <1>1, <1>2, <1>4 DEF TimeOfDay

LEMMA FixedSurvives ==
    ASSUME NEW form, IsForm(form), form.mode = "fixed", ParseSchedule(form).kind # "refused"
    PROVE  /\ Stored(form) = [minute |-> form.time, delay |-> Absent, zone |-> ZoneOf(form),
                              days |-> form.days]
           /\ form.time \in Minutes /\ ZoneOf(form) \in Zones
           /\ form.days # {} /\ form.days \subseteq AllDays
<1> DEFINE plan == Schedule(form.time, Absent, ZoneOf(form), form.days)
<1>1. ParseSchedule(form) = FixedSchedule(form)
  BY DEF ParseSchedule
<1>2. Refused.kind = "refused"
  BY DEF Refused, Schedule
<1>3. /\ form.time \in Minutes /\ ZoneOf(form) \in Zones
      /\ form.days # {} /\ form.days \subseteq AllDays
      /\ FixedSchedule(form) = plan
  BY <1>1, <1>2 DEF FixedSchedule, ZoneOf, IsForm
<1>4. ZoneOf(form) # "" /\ form.time # Absent
  <2>1. form.time \in Nat
    BY <1>3, DayIsPositive DEF Minutes
  <2>2. \A n \in Nat : n # Absent
    BY DEF Absent
  <2>3. ZoneOf(form) # ""
    BY DEF ZoneOf, DefaultTimezone
  <2> QED
    BY <2>1, <2>2, <2>3
<1>5. ScheduleToColumns(plan) =
        [sendTime |-> TimeOfDay(form.time), timezone |-> ZoneOf(form), days |-> form.days,
         delay |-> Absent]
  BY <1>3, <1>4 DEF ScheduleToColumns, Schedule
<1>6. ScheduleOf(ScheduleToColumns(plan)) = plan
  <2> DEFINE cols == ScheduleToColumns(plan)
  <2>1. /\ cols.sendTime = TimeOfDay(form.time) /\ cols.timezone = ZoneOf(form)
        /\ cols.days = form.days /\ cols.delay = Absent
    BY <1>5
  <2> HIDE DEF cols
  <2>2. /\ TimeOfDay(form.time) # NullTime
        /\ TimeOfDay(form.time).hour * MinutesPerHour + TimeOfDay(form.time).minute = form.time
    BY <1>3, TimeSurvives
  <2>3. ScheduleOf(cols) = Schedule(form.time, cols.delay,
                                    IF cols.timezone = "" THEN "UTC" ELSE cols.timezone,
                                    IF cols.days = {} THEN AllDays ELSE cols.days)
    BY <1>4, <2>1, <2>2 DEF ScheduleOf
  <2> QED
    BY <1>3, <1>4, <2>1, <2>3 DEF cols
<1>7. RuleFromSchedule(plan) = [minute |-> form.time, delay |-> Absent, zone |-> ZoneOf(form),
                                days |-> form.days]
  BY <1>3, <1>4 DEF RuleFromSchedule, Schedule
<1> QED
  BY <1>1, <1>3, <1>6, <1>7 DEF Stored

LEMMA DelaySurvives ==
    ASSUME NEW form, IsForm(form), form.mode = "delayed", ParseSchedule(form).kind # "refused"
    PROVE  Stored(form).delay = form.delay /\ form.delay \in Int /\ form.delay > 0
<1>1. ParseSchedule(form) = DelayedSchedule(form)
  BY DEF ParseSchedule
<1>2. Refused.kind = "refused"
  BY DEF Refused, Schedule
<1>3. /\ form.delay \in Int /\ form.delay > 0 /\ form.delay # Absent
      /\ DelayedSchedule(form) = Schedule(Absent, form.delay, "", AllDays)
  <2>1. form.delay \in Int
    BY DEF IsForm
  <2>2. form.delay > 0
    BY <1>1, <1>2 DEF DelayedSchedule
  <2>3. form.delay # Absent
    BY <2>1, <2>2 DEF Absent
  <2> QED
    BY <2>1, <2>2, <2>3 DEF DelayedSchedule
<1>4. ScheduleOf(ScheduleToColumns(DelayedSchedule(form))).delay = form.delay
  <2> DEFINE plan == Schedule(Absent, form.delay, "", AllDays)
             cols == ScheduleToColumns(plan)
  <2>1. cols.delay = form.delay
    BY DEF ScheduleToColumns, Schedule
  <2> HIDE DEF cols
  <2>2. ScheduleOf(cols).delay = cols.delay
    BY <1>3, <2>1 DEF ScheduleOf, Schedule
  <2> QED
    BY <1>3, <2>1, <2>2 DEF cols
<1> QED
  BY <1>1, <1>3, <1>4 DEF Stored, RuleFromSchedule

LEMMA InstantSurvives ==
    ASSUME NEW form, IsForm(form), form.mode # "fixed", form.mode # "delayed"
    PROVE  Stored(form).delay = Absent /\ Stored(form).minute = Absent
<1>1. ParseSchedule(form) = Nil
  BY DEF ParseSchedule, IsForm
<1>2. Nil.minute = Absent /\ Nil.delay = Absent
  BY DEF Nil, Schedule
<1>3. ScheduleOf(ScheduleToColumns(Nil)) = Nil
  BY <1>2 DEF ScheduleOf, ScheduleToColumns
<1> QED
  BY <1>1, <1>2, <1>3 DEF Stored, RuleFromSchedule

-----------------------------------------------------------------------------
(* The moment of the send.                                                 *)

(* There is one first moment.                                              *)
LEMMA FirstMomentIsAsked ==
    ASSUME NEW form, form.mode = "fixed", NEW event \in Int,
           NEW u \in event .. event + 8 * MinutesPerDay,
           InWindow(form, u), \A v \in event .. u - 1 : ~InWindow(form, v)
    PROVE  Asked(form, event) = u
<1> DEFINE First(x) == InWindow(form, x) /\ \A v \in event .. x - 1 : ~InWindow(form, v)
           asked == CHOOSE x \in event .. event + 8 * MinutesPerDay : First(x)
<1>1. asked \in event .. event + 8 * MinutesPerDay /\ First(asked)
  OBVIOUS
<1>2. Asked(form, event) = asked
  BY DEF Asked
<1> HIDE DEF asked
<1>3. asked \in Int /\ u \in Int /\ event <= asked /\ event <= u
  BY <1>1, DayIsPositive
<1>4. ~(asked < u) /\ ~(u < asked)
  <2>1. asked < u => asked \in event .. u - 1
    BY <1>3
  <2>2. u < asked => u \in event .. asked - 1
    BY <1>3
  <2> QED
    BY <1>1, <2>1, <2>2
<1> QED
  BY <1>2, <1>3, <1>4

(* A form that is accepted sends when it says, whatever the form, for every*)
(* event after the first day of the calendar: what ScheduledFire computes  *)
(* from the stored columns is the first moment the form asks for.          *)
THEOREM SentAsAsked ==
    ASSUME NEW form, IsForm(form), ParseSchedule(form).kind # "refused",
           NEW event \in Nat, event >= MinutesPerDay
    PROVE  Sent(form, event) = Asked(form, event)
<1>0. Absent \notin Nat
  BY DEF Absent
<1>1. CASE form.mode = "delayed"
  <2>1. /\ Stored(form).delay = form.delay /\ form.delay \in Int /\ form.delay > 0
    BY <1>1, DelaySurvives
  <2>2. event + form.delay \in Nat /\ form.delay \in Nat
    BY <2>1
  <2>3. Sent(form, event) = event + form.delay
    BY <1>0, <2>1, <2>2 DEF Sent, ScheduledFire, Stored
  <2> QED
    BY <1>1, <2>3 DEF Asked
<1>2. CASE form.mode # "fixed" /\ form.mode # "delayed"
  <2>1. ScheduledFire(Stored(form), event) = Absent
    <3> DEFINE plan == Stored(form)
    <3>1. plan.delay = Absent /\ plan.minute = Absent
      BY <1>2, InstantSurvives
    <3> HIDE DEF plan
    <3>2. ScheduledFire(plan, event) = Absent
      BY <3>1 DEF ScheduledFire
    <3> QED
      BY <3>2 DEF plan
  <2>2. Sent(form, event) = event
    BY <2>1 DEF Sent, Stored
  <2>3. Asked(form, event) = event
    BY <1>2 DEF Asked
  <2> QED
    BY <2>2, <2>3
<1>3. CASE form.mode = "fixed"
  <2> DEFINE plan == Stored(form)
             offset == Offset[ZoneOf(form)]
             local == event + offset
             fire == FixedFire(plan, local)
  <2>1. /\ plan = [minute |-> form.time, delay |-> Absent, zone |-> ZoneOf(form),
                   days |-> form.days]
        /\ form.time \in Minutes /\ ZoneOf(form) \in Zones
        /\ form.days # {} /\ form.days \subseteq AllDays
    BY <1>3, FixedSurvives
  <2>2. /\ plan.minute = form.time /\ plan.delay = Absent /\ plan.days = form.days
        /\ plan.zone = ZoneOf(form)
    BY <2>1
  <2>3. Location(plan) = ZoneOf(form) /\ plan.minute # Absent
    BY <2>1, <2>2, DayIsPositive DEF Location, Minutes, Absent
  <2>4. ScheduledFire(plan, event) = IF fire = Absent THEN Absent ELSE fire - offset
    BY <2>2, <2>3 DEF ScheduledFire
  <2>5. Sent(form, event) = IF ScheduledFire(plan, event) = Absent THEN event
                            ELSE ScheduledFire(plan, event)
    BY DEF Sent, Stored
  <2>6. offset \in Int /\ local \in Nat /\ local \in Int
    <3>1. offset \in -MinutesPerDay .. MinutesPerDay
      BY <2>1, ScheduleAssumption
    <3> QED
      BY <3>1, DayIsPositive
  <2>7. \A v \in Int : InWindow(form, v) <=> Allowed(plan, v + offset)
    BY <2>2 DEF InWindow, Allowed, ZoneOf, IsoDay
  <2> HIDE DEF plan, offset
  <2>8. CASE fire = Absent /\ Allowed(plan, local)
    <3>1. event \in event .. event + 8 * MinutesPerDay /\ \A v \in event .. event - 1 : FALSE
      BY DayIsPositive
    <3>2. InWindow(form, event)
      BY <2>7, <2>8
    <3>3. Asked(form, event) = event
      BY <1>3, <3>1, <3>2, FirstMomentIsAsked
    <3> QED
      BY <2>4, <2>5, <2>8, <3>3
  <2>9. CASE /\ fire \in Int /\ local < fire
             /\ fire <= local + 8 * MinutesPerDay
             /\ Allowed(plan, fire)
             /\ \A moment \in Int : local <= moment /\ moment < fire => ~Allowed(plan, moment)
    <3> HIDE DEF fire
    <3>1. /\ fire - offset \in event .. event + 8 * MinutesPerDay
          /\ fire - offset \in Int /\ (fire - offset) + offset = fire
          /\ fire # Absent /\ fire - offset # Absent
      BY <2>6, <2>9, DayIsPositive DEF Absent
    <3>2. InWindow(form, fire - offset)
      BY <2>7, <2>9, <3>1
    <3>3. ASSUME NEW v \in event .. (fire - offset) - 1 PROVE ~InWindow(form, v)
      <4>1. /\ v \in Int /\ v + offset \in Int
            /\ local <= v + offset /\ v + offset < fire
        BY <2>6, <2>9, <3>1
      <4> QED
        BY <2>7, <2>9, <4>1
    <3>4. Asked(form, event) = fire - offset
      BY <1>3, <3>1, <3>2, <3>3, FirstMomentIsAsked
    <3> QED
      BY <2>4, <2>5, <3>1, <3>4
  <2> QED
    BY <2>1, <2>2, <2>6, <2>8, <2>9, FixedFireIsFirst
<1> QED
  BY <1>1, <1>2, <1>3

(* The variable holds an input, and every step replaces it by another.      *)
LEMMA ProbeIsAnInput == PureSpec => [](probe \in Inputs)
<1>1. PureInit => probe \in Inputs
  BY DEF PureInit
<1>2. probe \in Inputs /\ [PureNext]_probe => (probe \in Inputs)'
  BY DEF PureNext, Inputs, Forms, Events
<1> QED
  BY <1>1, <1>2, PTL DEF PureSpec

(* Whatever form the operator saves and whenever the event comes, the       *)
(* message goes out at the moment the form asks for, after its way through  *)
(* the columns of the database (ParseSchedule, ScheduleToColumns,           *)
(* RuleFromSchedule, FireTime).                                             *)
THEOREM SendsFireWhenAsked == PureSpec => []FiresWhenAsked
<1>1. ASSUME probe \in Inputs PROVE FiresWhenAsked
  <2> SUFFICES ASSUME probe.kind = "rule", ParseSchedule(probe.form).kind # "refused"
               PROVE  Sent(probe.form, probe.now) = Asked(probe.form, probe.now)
    BY DEF FiresWhenAsked
  <2>1. probe.form \in Forms /\ probe.now \in Events
    BY <1>1 DEF Inputs
  <2>2. IsForm(probe.form)
    <3>1. CASE probe.form.mode \in {"", "instant"}
      BY <3>1 DEF IsForm
    <3>2. CASE /\ probe.form.mode = "delayed"
               /\ probe.form.delay \in -1 .. 2 * MinutesPerDay
      BY <3>2, DayIsPositive DEF IsForm
    <3>3. CASE /\ probe.form.mode = "fixed"
               /\ probe.form.time \in {Absent} \cup Minutes
      BY <3>3 DEF IsForm
    <3> QED
      BY <2>1, <3>1, <3>2, <3>3 DEF Forms
  <2>3. probe.now \in Nat /\ probe.now >= MinutesPerDay
    BY <2>1, DayIsPositive DEF Events
  <2> QED
    BY <2>2, <2>3, SentAsAsked
<1>2. probe \in Inputs => FiresWhenAsked
  BY <1>1
<1> QED
  BY <1>2, ProbeIsAnInput, PTL

-----------------------------------------------------------------------------
(* The texts.                                                              *)

(* What holds at 0 and is handed on holds up to n.                         *)
LEMMA UpTo ==
    ASSUME NEW n \in Nat, NEW S, 0 \in S, \A k \in Nat : k < n /\ k \in S => k + 1 \in S
    PROVE  \A k \in 0..n : k \in S
<1> DEFINE Left == {k \in 0..n : k \notin S}
           R    == OpToRel(<, Nat)
<1> SUFFICES ASSUME Left # {} PROVE FALSE
  OBVIOUS
<1>1. \A x, y \in Nat : <<y, x>> \in R <=> y < x
  BY DEF OpToRel
<1>2. IsWellFoundedOn(R, Nat)
  BY NatLessThanWellFounded
<1>3. Left \subseteq Nat
  OBVIOUS
<1> HIDE DEF R, Left
<1>4. PICK k \in Left : \A j \in Left : ~(<<j, k>> \in R)
  BY <1>2, <1>3, WFMin
<1>5. \A j \in Left : k \in Nat /\ j \in Nat /\ ~(j < k)
  BY <1>1, <1>4, <1>3
<1> USE DEF Left
<1>6. k # 0 /\ k \in Nat /\ k - 1 \in Nat /\ k - 1 < n /\ k - 1 < k /\ k - 1 \in 0..n
  BY <1>4
<1>7. k - 1 \in S
  BY <1>5, <1>6
<1>8. (k - 1) + 1 = k
  BY <1>6
<1> QED
  BY <1>4, <1>6, <1>7, <1>8

(* A loop over n steps has its values: step k maps the value before it.    *)
LoopValues(n, zero, step, f) ==
    f = [k \in 0..n |-> IF k = 0 THEN zero ELSE step[k][f[k - 1]]]

LEMMA LoopExists ==
    ASSUME NEW n \in Nat, NEW S, NEW zero \in S, NEW step \in [1..n -> [S -> S]]
    PROVE  \E f \in [0..n -> S] : LoopValues(n, zero, step, f)
<1> DEFINE Part(m, f) ==
               /\ f \in [0..m -> S] /\ f[0] = zero
               /\ \A k \in 1..m : f[k] = step[k][f[k - 1]]
           Ok == {m \in 0..n : \E f : Part(m, f)}
<1>1. 0 \in Ok
  <2>1. Part(0, [k \in 0..0 |-> zero])
    OBVIOUS
  <2> HIDE DEF Part
  <2> QED
    BY <2>1
<1>2. ASSUME NEW m \in Nat, m < n, m \in Ok PROVE m + 1 \in Ok
  <2>1. PICK f : Part(m, f)
    BY <1>2
  <2> DEFINE g == [k \in 0..(m + 1) |-> IF k = m + 1 THEN step[m + 1][f[m]] ELSE f[k]]
  <2>2. m + 1 \in 1..n /\ f[m] \in S /\ step[m + 1] \in [S -> S]
    BY <1>2, <2>1
  <2>3. g \in [0..(m + 1) -> S]
    BY <2>1, <2>2
  <2>4. g[0] = zero
    BY <2>1
  <2>5. \A k \in 1..(m + 1) : g[k] = step[k][g[k - 1]]
    <3> SUFFICES ASSUME NEW k \in 1..(m + 1) PROVE g[k] = step[k][g[k - 1]]
      OBVIOUS
    <3>1. k - 1 \in 0..(m + 1) /\ k - 1 # m + 1 /\ k \in 0..(m + 1)
      BY <1>2
    <3>2. CASE k = m + 1
      <4>1. (m + 1) - 1 = m
        BY <1>2
      <4> QED
        BY <3>1, <3>2, <4>1
    <3>3. CASE k # m + 1
      <4>1. k \in 1..m
        BY <1>2, <3>3
      <4> QED
        BY <2>1, <3>1, <3>3, <4>1
    <3> QED
      BY <3>2, <3>3
  <2>6. Part(m + 1, g)
    <3> HIDE DEF g
    <3> QED
      BY <2>3, <2>4, <2>5
  <2>7. m + 1 \in 0..n
    BY <1>2
  <2> HIDE DEF Part, g
  <2> QED
    BY <2>6, <2>7
<1> HIDE DEF Ok
<1>3. n \in Ok
  <2>1. \A k \in 0..n : k \in Ok
    BY <1>1, <1>2, UpTo
  <2> QED
    BY <2>1
<1> USE DEF Ok
<1>4. PICK f : Part(n, f)
  BY <1>3
<1>5. LoopValues(n, zero, step, f)
  <2>1. f = [k \in 0..n |-> f[k]]
    BY <1>4
  <2>2. \A k \in 0..n : f[k] = IF k = 0 THEN zero ELSE step[k][f[k - 1]]
    <3>1. \A k \in 0..n : k # 0 => k \in 1..n
      OBVIOUS
    <3> QED
      BY <1>4, <3>1
  <2> QED
    BY <2>1, <2>2 DEF LoopValues
<1> QED
  BY <1>4, <1>5

-----------------------------------------------------------------------------
(* Texts of any length, with any chips and numbers.                        *)

Piece == {Text} \cup {Chip(k) : k \in Chips} \cup {Slot(n) : n \in Nat}

LEMMA PieceKinds ==
    /\ \A p \in Piece :
          /\ p.kind = "chip" => p.chip \in Chips /\ p = Chip(p.chip)
          /\ p.kind = "slot" => p.slot \in Nat /\ p = Slot(p.slot)
          /\ p.kind \notin {"chip", "slot"} => p = Text
    /\ \A n : Slot(n).kind = "slot" /\ Slot(n).slot = n
    /\ \A n \in Nat : Slot(n) \in Piece
  BY DEF Piece, Text, Chip, Slot

LEMMA SeqFacts ==
    ASSUME NEW S, NEW s \in Seq(S)
    PROVE  /\ Len(s) \in Nat /\ DOMAIN s = 1 .. Len(s)
           /\ \A i \in DOMAIN s : s[i] \in S
  OBVIOUS

LEMMA AppendFacts ==
    ASSUME NEW S, NEW s \in Seq(S), NEW e \in S
    PROVE  /\ Append(s, e) \in Seq(S) /\ Len(Append(s, e)) = Len(s) + 1
           /\ DOMAIN Append(s, e) = 1 .. Len(s) + 1
           /\ \A i \in DOMAIN s : Append(s, e)[i] = s[i]
           /\ Append(s, e)[Len(s) + 1] = e
  OBVIOUS

(* The chips among the first n pieces, each once.                          *)
FirstChips(text, n, tokens) ==
    /\ tokens \in Seq(Chips)
    /\ \A i, j \in DOMAIN tokens : tokens[i] = tokens[j] => i = j
    /\ \A k : (\E i \in DOMAIN tokens : tokens[i] = k) <=>
              (\E i \in 1 .. n : text[i].kind = "chip" /\ text[i].chip = k)

(* The chips gathered piece by piece.                                      *)
TokensLoop(text, seen) ==
    /\ seen[0] = <<>>
    /\ \A n \in 1 .. Len(text) :
          seen[n] = IF text[n].kind = "chip" /\ ~Contains(seen[n - 1], text[n].chip)
                    THEN Append(seen[n - 1], text[n].chip) ELSE seen[n - 1]
    /\ TokensOf(text) = seen[Len(text)]

LEMMA TokensByPiece ==
    ASSUME NEW text \in Seq(Piece)
    PROVE  \E seen : /\ TokensLoop(text, seen)
                     /\ \A n \in 0 .. Len(text) : FirstChips(text, n, seen[n])
<1> DEFINE len == Len(text)
           After(n, s) == IF text[n].kind = "chip" /\ ~Contains(s, text[n].chip)
                          THEN Append(s, text[n].chip) ELSE s
           step == [n \in 1 .. len |-> [s \in Seq(Chips) |-> After(n, s)]]
           seen[n \in 0 .. len] ==
             IF n = 0 THEN <<>>
             ELSE LET before == seen[n - 1]
                  IN  IF text[n].kind = "chip" /\ ~Contains(before, text[n].chip)
                      THEN Append(before, text[n].chip) ELSE before
<1>0. len \in Nat /\ \A n \in 1 .. len : text[n] \in Piece
  OBVIOUS
<1>1. TokensOf(text) = seen[len]
  BY DEF TokensOf
<1>2. \A n \in 1 .. len, s \in Seq(Chips) : After(n, s) \in Seq(Chips)
  BY <1>0, PieceKinds
<1>3. PICK f \in [0 .. len -> Seq(Chips)] : LoopValues(len, <<>>, step, f)
  <2>1. step \in [1 .. len -> [Seq(Chips) -> Seq(Chips)]]
    BY <1>2
  <2>2. <<>> \in Seq(Chips)
    OBVIOUS
  <2> HIDE DEF step, len
  <2> QED
    BY <1>0, <2>1, <2>2, LoopExists
<1>4. \A n \in 0 .. len : n # 0 => n \in 1 .. len /\ n - 1 \in 0 .. len
  BY <1>0
<1>5. f = [n \in 0 .. len |-> IF n = 0 THEN <<>> ELSE After(n, f[n - 1])]
  <2>1. f = [n \in 0 .. len |-> IF n = 0 THEN <<>> ELSE step[n][f[n - 1]]]
    BY <1>3 DEF LoopValues
  <2>2. \A n \in 1 .. len, s \in Seq(Chips) : step[n][s] = After(n, s)
    OBVIOUS
  <2> HIDE DEF step, After, len
  <2>3. \A n \in 0 .. len : n # 0 => step[n][f[n - 1]] = After(n, f[n - 1])
    BY <1>4, <2>2
  <2> QED
    BY <2>1, <2>3
<1>6. seen = [n \in 0 .. len |-> IF n = 0 THEN <<>> ELSE After(n, seen[n - 1])]
  BY <1>5, Zenon
<1> HIDE DEF seen
<1> DEFINE Good == {n \in 0 .. len : FirstChips(text, n, seen[n])}
<1>7. 0 \in Good
  BY <1>0, <1>6 DEF FirstChips
<1>8. ASSUME NEW n \in Nat, n < len, n \in Good PROVE n + 1 \in Good
  <2> DEFINE tokens == seen[n]
             more   == seen[n + 1]
             p      == text[n + 1]
  <2>1. n + 1 \in 0 .. len /\ n + 1 # 0 /\ (n + 1) - 1 = n /\ n + 1 \in 1 .. len
    BY <1>0, <1>8
  <2>2. more = After(n + 1, tokens)
    BY <1>6, <2>1
  <2>3. FirstChips(text, n, tokens)
    BY <1>8
  <2>4. p \in Piece
    BY <1>0, <2>1
  <2>5. tokens \in Seq(Chips) /\ Len(tokens) \in Nat /\ DOMAIN tokens = 1 .. Len(tokens)
    BY <2>3, SeqFacts DEF FirstChips
  <2>6. 1 .. n + 1 = 1 .. n \cup {n + 1}
    BY <1>8
  <2> HIDE DEF tokens, more, p
  <2>7. FirstChips(text, n + 1, more)
    <3>1. CASE p.kind = "chip" /\ ~Contains(tokens, p.chip)
      <4>1. p.chip \in Chips /\ more = Append(tokens, p.chip)
        BY <2>2, <2>4, <3>1, PieceKinds DEF p
      <4>2. /\ more \in Seq(Chips) /\ DOMAIN more = 1 .. Len(tokens) + 1
            /\ \A i \in DOMAIN tokens : more[i] = tokens[i]
            /\ more[Len(tokens) + 1] = p.chip
        BY <2>5, <4>1, AppendFacts
      <4>3. \A i \in DOMAIN tokens : tokens[i] # p.chip
        BY <2>5, <3>1 DEF Contains
      <4>4. DOMAIN more = DOMAIN tokens \cup {Len(tokens) + 1} /\ Len(tokens) + 1 \notin DOMAIN tokens
        BY <2>5, <4>2
      <4>5. \A i, j \in DOMAIN more : more[i] = more[j] => i = j
        BY <2>3, <4>2, <4>3, <4>4 DEF FirstChips
      <4>6. \A k : (\E i \in DOMAIN more : more[i] = k) <=>
                   (\E i \in 1 .. n + 1 : text[i].kind = "chip" /\ text[i].chip = k)
        <5>1. \A k : (\E i \in DOMAIN more : more[i] = k) <=>
                     (\E i \in DOMAIN tokens : tokens[i] = k) \/ k = p.chip
          BY <4>2, <4>4
        <5>2. \A k : (\E i \in 1 .. n + 1 : text[i].kind = "chip" /\ text[i].chip = k) <=>
                     (\E i \in 1 .. n : text[i].kind = "chip" /\ text[i].chip = k) \/ k = p.chip
          BY <2>6, <3>1 DEF p
        <5> QED
          BY <2>3, <5>1, <5>2 DEF FirstChips
      <4> QED
        BY <4>2, <4>5, <4>6 DEF FirstChips
    <3>2. CASE ~(p.kind = "chip" /\ ~Contains(tokens, p.chip))
      <4>1. more = tokens
        BY <2>2, <3>2 DEF p
      <4>2. p.kind = "chip" => \E i \in DOMAIN tokens : tokens[i] = p.chip
        BY <2>5, <3>2 DEF Contains
      <4>3. \A k : (\E i \in DOMAIN tokens : tokens[i] = k) <=>
                   (\E i \in 1 .. n + 1 : text[i].kind = "chip" /\ text[i].chip = k)
        <5>1. \A k : (\E i \in DOMAIN tokens : tokens[i] = k) <=>
                     (\E i \in 1 .. n : text[i].kind = "chip" /\ text[i].chip = k)
          BY <2>3 DEF FirstChips
        <5>2. \A k : (\E i \in 1 .. n + 1 : text[i].kind = "chip" /\ text[i].chip = k) <=>
                     \/ \E i \in 1 .. n : text[i].kind = "chip" /\ text[i].chip = k
                     \/ p.kind = "chip" /\ p.chip = k
          BY <2>6 DEF p
        <5> QED
          BY <4>2, <5>1, <5>2
      <4> QED
        BY <2>3, <4>1, <4>3 DEF FirstChips
    <3> QED
      BY <3>1, <3>2
  <2> QED
    BY <2>1, <2>7 DEF more
<1> HIDE DEF Good, len
<1>9. \A n \in 0 .. len : n \in Good
  BY <1>0, <1>7, <1>8, UpTo
<1>10. \A n \in 0 .. len : FirstChips(text, n, seen[n])
  BY <1>9 DEF Good
<1>11. seen[0] = <<>> /\ \A n \in 1 .. len : seen[n] = After(n, seen[n - 1])
  <2> HIDE DEF After
  <2>1. 0 \in 0 .. len /\ \A n \in 1 .. len : n \in 0 .. len /\ n # 0
    BY <1>0
  <2> QED
    BY <1>6, <2>1
<1>12. TokensLoop(text, seen)
  BY <1>1, <1>11 DEF TokensLoop, len
<1> QED
  BY <1>10, <1>12 DEF len

LEMMA TokensAreTheChips ==
    ASSUME NEW text \in Seq(Piece)
    PROVE  FirstChips(text, Len(text), TokensOf(text))
<1>1. PICK seen : TokensLoop(text, seen) /\ \A n \in 0 .. Len(text) : FirstChips(text, n, seen[n])
  BY TokensByPiece
<1>2. Len(text) \in 0 .. Len(text)
  OBVIOUS
<1> QED
  BY <1>1, <1>2 DEF TokensLoop

(* The numbers of the slots among the first n pieces.                      *)
FirstNumbers(body, n, numbers) ==
    /\ numbers \in Seq(Nat)
    /\ \A m : (\E i \in DOMAIN numbers : numbers[i] = m) <=>
              (\E i \in 1 .. n : body[i].kind = "slot" /\ body[i].slot = m)

(* The numbers gathered piece by piece.                                    *)
NumbersLoop(body, found) ==
    /\ found[0] = <<>>
    /\ \A n \in 1 .. Len(body) :
          found[n] = IF body[n].kind = "slot" THEN Append(found[n - 1], body[n].slot)
                     ELSE found[n - 1]
    /\ PlaceholderNumbers(body) = found[Len(body)]

LEMMA NumbersByPiece ==
    ASSUME NEW body \in Seq(Piece)
    PROVE  \E found : /\ NumbersLoop(body, found)
                      /\ \A n \in 0 .. Len(body) : FirstNumbers(body, n, found[n])
<1> DEFINE len == Len(body)
           After(n, s) == IF body[n].kind = "slot" THEN Append(s, body[n].slot) ELSE s
           step == [n \in 1 .. len |-> [s \in Seq(Nat) |-> After(n, s)]]
           found[n \in 0 .. len] ==
             IF n = 0 THEN <<>>
             ELSE IF body[n].kind = "slot" THEN Append(found[n - 1], body[n].slot)
             ELSE found[n - 1]
<1>0. len \in Nat /\ \A n \in 1 .. len : body[n] \in Piece
  OBVIOUS
<1>1. PlaceholderNumbers(body) = found[len]
  BY DEF PlaceholderNumbers
<1>2. \A n \in 1 .. len, s \in Seq(Nat) : After(n, s) \in Seq(Nat)
  BY <1>0, PieceKinds
<1>3. PICK f \in [0 .. len -> Seq(Nat)] : LoopValues(len, <<>>, step, f)
  <2>1. step \in [1 .. len -> [Seq(Nat) -> Seq(Nat)]]
    BY <1>2
  <2>2. <<>> \in Seq(Nat)
    OBVIOUS
  <2> HIDE DEF step, len
  <2> QED
    BY <1>0, <2>1, <2>2, LoopExists
<1>4. \A n \in 0 .. len : n # 0 => n \in 1 .. len /\ n - 1 \in 0 .. len
  BY <1>0
<1>5. f = [n \in 0 .. len |-> IF n = 0 THEN <<>> ELSE After(n, f[n - 1])]
  <2>1. f = [n \in 0 .. len |-> IF n = 0 THEN <<>> ELSE step[n][f[n - 1]]]
    BY <1>3 DEF LoopValues
  <2>2. \A n \in 1 .. len, s \in Seq(Nat) : step[n][s] = After(n, s)
    OBVIOUS
  <2> HIDE DEF step, After, len
  <2>3. \A n \in 0 .. len : n # 0 => step[n][f[n - 1]] = After(n, f[n - 1])
    BY <1>4, <2>2
  <2> QED
    BY <2>1, <2>3
<1>6. found = [n \in 0 .. len |-> IF n = 0 THEN <<>> ELSE After(n, found[n - 1])]
  BY <1>5, Zenon
<1> HIDE DEF found
<1> DEFINE Good == {n \in 0 .. len : FirstNumbers(body, n, found[n])}
<1>7. 0 \in Good
  BY <1>0, <1>6 DEF FirstNumbers
<1>8. ASSUME NEW n \in Nat, n < len, n \in Good PROVE n + 1 \in Good
  <2> DEFINE numbers == found[n]
             more    == found[n + 1]
             p       == body[n + 1]
  <2>1. n + 1 \in 0 .. len /\ n + 1 # 0 /\ (n + 1) - 1 = n /\ n + 1 \in 1 .. len
    BY <1>0, <1>8
  <2>2. more = After(n + 1, numbers)
    BY <1>6, <2>1
  <2>3. FirstNumbers(body, n, numbers)
    BY <1>8
  <2>4. p \in Piece
    BY <1>0, <2>1
  <2>5. numbers \in Seq(Nat) /\ Len(numbers) \in Nat /\ DOMAIN numbers = 1 .. Len(numbers)
    BY <2>3, SeqFacts DEF FirstNumbers
  <2>6. 1 .. n + 1 = 1 .. n \cup {n + 1}
    BY <1>8
  <2> HIDE DEF numbers, more, p
  <2>7. FirstNumbers(body, n + 1, more)
    <3>1. CASE p.kind = "slot"
      <4>1. p.slot \in Nat /\ more = Append(numbers, p.slot)
        BY <2>2, <2>4, <3>1, PieceKinds DEF p
      <4>2. /\ more \in Seq(Nat) /\ DOMAIN more = 1 .. Len(numbers) + 1
            /\ \A i \in DOMAIN numbers : more[i] = numbers[i]
            /\ more[Len(numbers) + 1] = p.slot
        BY <2>5, <4>1, AppendFacts
      <4>3. DOMAIN more = DOMAIN numbers \cup {Len(numbers) + 1}
        BY <2>5, <4>2
      <4>4. \A m : (\E i \in DOMAIN more : more[i] = m) <=>
                   (\E i \in DOMAIN numbers : numbers[i] = m) \/ m = p.slot
        BY <4>2, <4>3
      <4>5. \A m : (\E i \in 1 .. n + 1 : body[i].kind = "slot" /\ body[i].slot = m) <=>
                   (\E i \in 1 .. n : body[i].kind = "slot" /\ body[i].slot = m) \/ m = p.slot
        BY <2>6, <3>1 DEF p
      <4> QED
        BY <2>3, <4>2, <4>4, <4>5 DEF FirstNumbers
    <3>2. CASE p.kind # "slot"
      <4>1. more = numbers
        BY <2>2, <3>2 DEF p
      <4>2. \A m : (\E i \in 1 .. n + 1 : body[i].kind = "slot" /\ body[i].slot = m) <=>
                   (\E i \in 1 .. n : body[i].kind = "slot" /\ body[i].slot = m)
        BY <2>6, <3>2 DEF p
      <4> QED
        BY <2>3, <4>1, <4>2 DEF FirstNumbers
    <3> QED
      BY <3>1, <3>2
  <2> QED
    BY <2>1, <2>7 DEF more
<1> HIDE DEF Good, len
<1>9. \A n \in 0 .. len : n \in Good
  BY <1>0, <1>7, <1>8, UpTo
<1>10. \A n \in 0 .. len : FirstNumbers(body, n, found[n])
  BY <1>9 DEF Good
<1>11. found[0] = <<>> /\ \A n \in 1 .. len : found[n] = After(n, found[n - 1])
  <2> HIDE DEF After
  <2>1. 0 \in 0 .. len /\ \A n \in 1 .. len : n \in 0 .. len /\ n # 0
    BY <1>0
  <2> QED
    BY <1>6, <2>1
<1>12. NumbersLoop(body, found)
  BY <1>1, <1>11 DEF NumbersLoop, len
<1> QED
  BY <1>10, <1>12 DEF len

LEMMA NumbersAreTheSlots ==
    ASSUME NEW body \in Seq(Piece)
    PROVE  FirstNumbers(body, Len(body), PlaceholderNumbers(body))
<1>1. PICK found : NumbersLoop(body, found) /\ \A n \in 0 .. Len(body) : FirstNumbers(body, n, found[n])
  BY NumbersByPiece
<1>2. Len(body) \in 0 .. Len(body)
  OBVIOUS
<1> QED
  BY <1>1, <1>2 DEF NumbersLoop

(* Each chip becomes the slot of its place among the chips.                *)
LEMMA TokenizeIsPositional ==
    ASSUME NEW text \in Seq(Piece)
    PROVE  /\ Tokenize(text) \in Seq(Piece) /\ DOMAIN Tokenize(text) = DOMAIN text
           /\ \A i \in DOMAIN text :
                 /\ text[i].kind # "chip" => Tokenize(text)[i] = text[i]
                 /\ text[i].kind = "chip" =>
                      \E n \in DOMAIN TokensOf(text) :
                          /\ Tokenize(text)[i] = Slot(n)
                          /\ TokensOf(text)[n] = text[i].chip
<1> DEFINE tokens == TokensOf(text)
           body   == Tokenize(text)
<1>1. Len(text) \in Nat /\ DOMAIN text = 1 .. Len(text) /\ \A i \in DOMAIN text : text[i] \in Piece
  OBVIOUS
<1>2. /\ tokens \in Seq(Chips)
      /\ \A k : (\E n \in DOMAIN tokens : tokens[n] = k) <=>
                (\E i \in 1 .. Len(text) : text[i].kind = "chip" /\ text[i].chip = k)
  BY TokensAreTheChips DEF FirstChips
<1>3. DOMAIN tokens \subseteq Nat
  BY <1>2
<1>4. body = [i \in DOMAIN text |->
                IF text[i].kind = "chip" THEN Slot(PositionIn(tokens, text[i].chip)) ELSE text[i]]
  BY DEF Tokenize
<1> HIDE DEF tokens, body
<1>5. ASSUME NEW i \in DOMAIN text, text[i].kind = "chip"
      PROVE  \E n \in DOMAIN tokens : body[i] = Slot(n) /\ tokens[n] = text[i].chip
  <2> DEFINE n == PositionIn(tokens, text[i].chip)
  <2>1. \E m \in DOMAIN tokens : tokens[m] = text[i].chip
    BY <1>1, <1>2, <1>5
  <2>2. n \in DOMAIN tokens /\ tokens[n] = text[i].chip
    BY <2>1 DEF PositionIn
  <2>3. body[i] = Slot(n)
    BY <1>4, <1>5
  <2> QED
    BY <2>2, <2>3
<1>6. ASSUME NEW i \in DOMAIN text, text[i].kind # "chip" PROVE body[i] = text[i]
  BY <1>4, <1>6
<1>7. \A i \in DOMAIN text : body[i] \in Piece
  BY <1>1, <1>3, <1>5, <1>6, PieceKinds
<1>8. body \in [1 .. Len(text) -> Piece]
  BY <1>1, <1>4, <1>7
<1>9. body \in Seq(Piece)
  BY <1>1, <1>8
<1> QED
  BY <1>4, <1>5, <1>6, <1>9 DEF tokens, body

LEMMA ToSetIsRange == \A s : ToSet(s) = {s[i] : i \in DOMAIN s}
  BY DEF ToSet

(* The numbers of the stored text are those of its slots.                  *)
LEMMA SlotNumbers ==
    ASSUME NEW body \in Seq(Piece)
    PROVE  /\ ToSet(PlaceholderNumbers(body)) \subseteq Nat
           /\ \A m : m \in ToSet(PlaceholderNumbers(body)) <=>
                     (\E i \in DOMAIN body : body[i].kind = "slot" /\ body[i].slot = m)
<1> DEFINE numbers == PlaceholderNumbers(body)
<1>1. /\ numbers \in Seq(Nat)
      /\ \A m : (\E i \in DOMAIN numbers : numbers[i] = m) <=>
                (\E i \in 1 .. Len(body) : body[i].kind = "slot" /\ body[i].slot = m)
  BY NumbersAreTheSlots DEF FirstNumbers
<1>2. DOMAIN body = 1 .. Len(body) /\ \A i \in DOMAIN numbers : numbers[i] \in Nat
  BY <1>1
<1> HIDE DEF numbers
<1>3. \A m : m \in ToSet(numbers) <=> \E i \in DOMAIN numbers : numbers[i] = m
  BY DEF ToSet
<1> QED
  BY <1>1, <1>2, <1>3 DEF numbers

(* An edit that changes nothing changes nothing.                           *)
LEMMA EditsRoundTrip ==
    ASSUME NEW text \in Seq(Piece), NEW source, Semantic(text)
    PROVE  LET template == ParseTemplateForm(text, source)
           IN  /\ SemanticBodyForEdit(template) = text
               /\ \A k \in ToSet(template.variables) :
                     TemplateExamples(template, k) = <<"example", k>>
<1> DEFINE template == ParseTemplateForm(text, source)
           tokens == TokensOf(text)
           body   == Tokenize(text)
<1>1. /\ template.body = body /\ template.variables = tokens
      /\ template.examples = ExamplesFor(body, tokens)
  BY DEF ParseTemplateForm
<1>2. /\ tokens \in Seq(Chips)
      /\ \A i, j \in DOMAIN tokens : tokens[i] = tokens[j] => i = j
  BY TokensAreTheChips DEF FirstChips
<1>3. /\ DOMAIN body = DOMAIN text
      /\ \A i \in DOMAIN text :
            /\ text[i].kind # "chip" => body[i] = text[i]
            /\ text[i].kind = "chip" =>
                 \E n \in DOMAIN tokens : body[i] = Slot(n) /\ tokens[n] = text[i].chip
  BY TokenizeIsPositional
<1>4. \A i \in DOMAIN text : text[i] \in Piece /\ text[i].kind # "slot"
  BY DEF Semantic, ToSet
<1>5. text = [i \in DOMAIN text |-> text[i]]
  OBVIOUS
<1>6. \A n \in DOMAIN tokens : tokens[n] \in Chips /\ tokens[n] # NoChip
  BY <1>2, TextAssumption
<1> HIDE DEF template, tokens, body
<1>7. \A n \in DOMAIN tokens : TokenAtPosition(template, n) = tokens[n]
  BY <1>1 DEF TokenAtPosition
<1>8. ASSUME NEW i \in DOMAIN text
      PROVE  SemanticBodyForEdit(template)[i] = text[i]
  <2> DEFINE key == TokenAtPosition(template, body[i].slot)
  <2>1. SemanticBodyForEdit(template)[i] =
           IF body[i].kind = "slot" /\ key # NoChip THEN Chip(key) ELSE body[i]
    BY <1>1, <1>3 DEF SemanticBodyForEdit
  <2>2. CASE text[i].kind = "chip"
    <3>1. PICK n \in DOMAIN tokens : body[i] = Slot(n) /\ tokens[n] = text[i].chip
      BY <1>3, <2>2
    <3>2. body[i].kind = "slot" /\ body[i].slot = n
      BY <3>1, PieceKinds
    <3>3. key = text[i].chip /\ key # NoChip
      BY <1>6, <1>7, <3>1, <3>2
    <3>4. text[i] = Chip(text[i].chip)
      BY <1>4, <2>2, PieceKinds
    <3> QED
      BY <2>1, <3>2, <3>3, <3>4
  <2>3. CASE text[i].kind # "chip"
    BY <1>3, <1>4, <2>1, <2>3
  <2> QED
    BY <2>2, <2>3
<1>9. SemanticBodyForEdit(template) = text
  <2>1. SemanticBodyForEdit(template) = [i \in DOMAIN text |-> SemanticBodyForEdit(template)[i]]
    BY <1>1, <1>3 DEF SemanticBodyForEdit
  <2> QED
    BY <1>5, <1>8, <2>1
<1>10. ASSUME NEW k \in ToSet(tokens)
       PROVE  TemplateExamples(template, k) = <<"example", k>>
  <2> DEFINE slots == {i \in DOMAIN template.examples : TokenAtPosition(template, i) = k}
  <2>1. PICK n \in DOMAIN tokens : tokens[n] = k
    BY DEF ToSet
  <2>2. tokens # <<>>
    BY <1>2, <2>1
  <2>3. template.examples = [i \in DOMAIN tokens |-> <<"example", tokens[i]>>]
    BY <1>1, <2>2 DEF ExamplesFor
  <2>4. slots = {n}
    BY <1>2, <1>7, <2>1, <2>3
  <2>5. TemplateExamples(template, k) =
           template.examples[CHOOSE i \in slots : \A j \in slots : j <= i]
    BY DEF TemplateExamples
  <2> HIDE DEF slots
  <2>6. n \in Nat
    BY <1>2, <2>1
  <2>7. (CHOOSE i \in slots : \A j \in slots : j <= i) = n
    BY <2>4, <2>6
  <2> QED
    BY <2>1, <2>3, <2>5, <2>7
<1>11. /\ SemanticBodyForEdit(template) = text
       /\ \A k \in ToSet(template.variables) : TemplateExamples(template, k) = <<"example", k>>
  BY <1>1, <1>9, <1>10
<1> QED
  BY <1>11 DEF template

(* In a text of chips the slots are the places of the chips.               *)
LEMMA SlotsAreThePlaces ==
    ASSUME NEW text \in Seq(Piece), Semantic(text)
    PROVE  /\ ToSet(PlaceholderNumbers(Tokenize(text))) = 1 .. Len(TokensOf(text))
           /\ CountVariables(Tokenize(text)) = Len(TokensOf(text))
<1> DEFINE tokens == TokensOf(text)
           body   == Tokenize(text)
           found  == ToSet(PlaceholderNumbers(body))
<1>1. /\ tokens \in Seq(Chips)
      /\ \A i, j \in DOMAIN tokens : tokens[i] = tokens[j] => i = j
      /\ \A k : (\E i \in DOMAIN tokens : tokens[i] = k) <=>
                (\E i \in 1 .. Len(text) : text[i].kind = "chip" /\ text[i].chip = k)
  BY TokensAreTheChips DEF FirstChips
<1>2. /\ body \in Seq(Piece) /\ DOMAIN body = DOMAIN text
      /\ \A i \in DOMAIN text :
            /\ text[i].kind # "chip" => body[i] = text[i]
            /\ text[i].kind = "chip" =>
                 \E n \in DOMAIN tokens : body[i] = Slot(n) /\ tokens[n] = text[i].chip
  BY TokenizeIsPositional
<1>3. /\ DOMAIN text = 1 .. Len(text) /\ \A i \in DOMAIN text : text[i].kind # "slot"
  BY DEF Semantic, ToSet
<1>4. Len(tokens) \in Nat /\ DOMAIN tokens = 1 .. Len(tokens)
  BY <1>1
<1>5. \A m : m \in found <=> (\E i \in DOMAIN body : body[i].kind = "slot" /\ body[i].slot = m)
  BY <1>2, SlotNumbers
<1> HIDE DEF tokens, body, found
<1>6. ASSUME NEW m \in found PROVE m \in DOMAIN tokens
  <2>1. PICK i \in DOMAIN text : body[i].kind = "slot" /\ body[i].slot = m
    BY <1>2, <1>5
  <2>2. text[i].kind = "chip"
    BY <1>2, <1>3, <2>1
  <2>3. PICK n \in DOMAIN tokens : body[i] = Slot(n)
    BY <1>2, <2>2
  <2> QED
    BY <2>1, <2>3, PieceKinds
<1>7. ASSUME NEW m \in DOMAIN tokens PROVE m \in found
  <2>1. PICK i \in DOMAIN text : text[i].kind = "chip" /\ text[i].chip = tokens[m]
    BY <1>1, <1>3
  <2>2. PICK n \in DOMAIN tokens : body[i] = Slot(n) /\ tokens[n] = tokens[m]
    BY <1>2, <2>1
  <2>3. n = m
    BY <1>1, <2>2
  <2>4. body[i].kind = "slot" /\ body[i].slot = m
    BY <2>2, <2>3, PieceKinds
  <2> QED
    BY <1>2, <1>5, <2>4
<1>8. found = 1 .. Len(tokens)
  BY <1>4, <1>6, <1>7
<1>9. Cardinality(1 .. Len(tokens)) = Len(tokens)
  <2>1. \A n \in Nat : Cardinality(1 .. n) = IF 1 > n THEN 0 ELSE n - 1 + 1
    BY FS_Interval
  <2> QED
    BY <1>4, <2>1
<1> QED
  BY <1>8, <1>9 DEF CountVariables, tokens, body, found

(* A sequence that only grows at its end.                                  *)
Extends(s, t) == DOMAIN s \subseteq DOMAIN t /\ \A i \in DOMAIN s : t[i] = s[i]

LEMMA LoopsOnlyGrow ==
    ASSUME NEW S, NEW len \in Nat, NEW f,
           \A n \in 0 .. len : f[n] \in Seq(S),
           \A n \in 1 .. len : f[n] = f[n - 1] \/ \E e \in S : f[n] = Append(f[n - 1], e)
    PROVE  \A n \in 0 .. len : \A m \in 0 .. n : Extends(f[m], f[n])
<1> DEFINE Good == {n \in 0 .. len : \A m \in 0 .. n : Extends(f[m], f[n])}
<1>1. 0 \in Good
  BY DEF Extends
<1>2. ASSUME NEW n \in Nat, n < len, n \in Good PROVE n + 1 \in Good
  <2>1. n + 1 \in 1 .. len /\ n + 1 \in 0 .. len /\ (n + 1) - 1 = n /\ n \in 0 .. len
    BY <1>2
  <2>2. Extends(f[n], f[n + 1])
    <3>1. f[n] \in Seq(S) /\ (f[n + 1] = f[n] \/ \E e \in S : f[n + 1] = Append(f[n], e))
      BY <2>1
    <3>2. CASE f[n + 1] = f[n]
      BY <3>2 DEF Extends
    <3>3. ASSUME NEW e \in S, f[n + 1] = Append(f[n], e) PROVE Extends(f[n], f[n + 1])
      <4>1. DOMAIN f[n] = 1 .. Len(f[n]) /\ Len(f[n]) \in Nat
        BY <3>1
      <4> QED
        BY <3>1, <3>3, <4>1, AppendFacts DEF Extends
    <3> QED
      BY <3>1, <3>2, <3>3
  <2>3. ASSUME NEW m \in 0 .. n + 1 PROVE Extends(f[m], f[n + 1])
    <3>1. CASE m = n + 1
      BY <3>1 DEF Extends
    <3>2. CASE m # n + 1
      <4>1. m \in 0 .. n
        BY <1>2, <3>2
      <4>2. Extends(f[m], f[n])
        BY <1>2, <4>1
      <4> QED
        BY <2>2, <4>2 DEF Extends
    <3> QED
      BY <3>1, <3>2
  <2> QED
    BY <2>1, <2>3
<1> HIDE DEF Good
<1>3. \A n \in 0 .. len : n \in Good
  BY <1>1, <1>2, UpTo
<1> QED
  BY <1>3 DEF Good

LEMMA TokensGrow ==
    ASSUME NEW text \in Seq(Piece), NEW seen, TokensLoop(text, seen),
           \A n \in 0 .. Len(text) : FirstChips(text, n, seen[n])
    PROVE  \A n \in 0 .. Len(text) : Extends(seen[n], TokensOf(text))
<1>1. Len(text) \in Nat /\ \A n \in 1 .. Len(text) : text[n] \in Piece
  OBVIOUS
<1>2. ASSUME NEW n \in 1 .. Len(text)
      PROVE  seen[n] = seen[n - 1] \/ \E e \in Chips : seen[n] = Append(seen[n - 1], e)
  BY <1>1, PieceKinds DEF TokensLoop
<1>3. \A n \in 0 .. Len(text) : \A m \in 0 .. n : Extends(seen[m], seen[n])
  BY <1>1, <1>2, LoopsOnlyGrow DEF FirstChips
<1>4. Len(text) \in 0 .. Len(text)
  BY <1>1
<1> QED
  BY <1>3, <1>4 DEF TokensLoop

LEMMA NumbersGrow ==
    ASSUME NEW body \in Seq(Piece), NEW found, NumbersLoop(body, found),
           \A n \in 0 .. Len(body) : FirstNumbers(body, n, found[n])
    PROVE  \A n \in 0 .. Len(body) : Extends(found[n], PlaceholderNumbers(body))
<1>1. Len(body) \in Nat /\ \A n \in 1 .. Len(body) : body[n] \in Piece
  OBVIOUS
<1>2. ASSUME NEW n \in 1 .. Len(body)
      PROVE  found[n] = found[n - 1] \/ \E e \in Nat : found[n] = Append(found[n - 1], e)
  BY <1>1, PieceKinds DEF NumbersLoop
<1>3. \A n \in 0 .. Len(body) : \A m \in 0 .. n : Extends(found[m], found[n])
  BY <1>1, <1>2, LoopsOnlyGrow DEF FirstNumbers
<1>4. Len(body) \in 0 .. Len(body)
  BY <1>1
<1> QED
  BY <1>3, <1>4 DEF NumbersLoop

(* Among the first n pieces: a number more than chips is a repetition, and *)
(* without one before the last new chip the numbers start 1, 2, 3, ...     *)
Counted(text, n, tokens, numbers) ==
    /\ Len(tokens) <= Len(numbers)
    /\ Len(tokens) < Len(numbers) <=> \E i \in 1 .. n : Repeats(text, i)
    /\ \A i \in DOMAIN numbers : numbers[i] \in DOMAIN tokens
    /\ NewChipsFirst(text) => \A i \in DOMAIN tokens : numbers[i] = i

LEMMA RepetitionsAreCounted ==
    ASSUME NEW text \in Seq(Piece), Semantic(text), NEW seen, NEW found,
           TokensLoop(text, seen), NumbersLoop(Tokenize(text), found),
           \A n \in 0 .. Len(text) : FirstChips(text, n, seen[n]),
           \A n \in 0 .. Len(text) : FirstNumbers(Tokenize(text), n, found[n])
    PROVE  \A n \in 0 .. Len(text) : Counted(text, n, seen[n], found[n])
<1> DEFINE len    == Len(text)
           body   == Tokenize(text)
           tokens == TokensOf(text)
<1>1. /\ len \in Nat /\ DOMAIN text = 1 .. len /\ DOMAIN body = DOMAIN text /\ Len(body) = len
      /\ \A i \in DOMAIN text :
            /\ text[i] \in Piece /\ text[i].kind # "slot"
            /\ text[i].kind # "chip" => body[i] = text[i]
            /\ text[i].kind = "chip" =>
                 \E n \in DOMAIN tokens : body[i] = Slot(n) /\ tokens[n] = text[i].chip
  <2>1. Len(body) = len
    BY TokenizeIsPositional DEF Tokenize
  <2> QED
    BY <2>1, TokenizeIsPositional DEF Semantic, ToSet
<1>2. \A i, j \in DOMAIN tokens : tokens[i] = tokens[j] => i = j
  BY TokensAreTheChips DEF FirstChips
<1>3. \A n \in 0 .. len : seen[n] \in Seq(Chips) /\ found[n] \in Seq(Nat)
  BY <1>1 DEF FirstChips, FirstNumbers
<1>4. \A n \in 0 .. len : Extends(seen[n], tokens)
  BY TokensGrow
<1>5. /\ seen[0] = <<>> /\ found[0] = <<>>
      /\ \A n \in 1 .. len :
            /\ seen[n] = IF text[n].kind = "chip" /\ ~Contains(seen[n - 1], text[n].chip)
                         THEN Append(seen[n - 1], text[n].chip) ELSE seen[n - 1]
            /\ found[n] = IF body[n].kind = "slot" THEN Append(found[n - 1], body[n].slot)
                          ELSE found[n - 1]
  BY <1>1 DEF TokensLoop, NumbersLoop
<1>6. \A n \in 0 .. len : \A k :
         (\E i \in DOMAIN seen[n] : seen[n][i] = k) <=>
         (\E i \in 1 .. n : text[i].kind = "chip" /\ text[i].chip = k)
  BY DEF FirstChips
<1> HIDE DEF len, body, tokens
<1> DEFINE Good == {n \in 0 .. len : Counted(text, n, seen[n], found[n])}
<1>7. 0 \in Good
  BY <1>1, <1>5 DEF Counted
<1>8. ASSUME NEW n \in Nat, n < len, n \in Good PROVE n + 1 \in Good
  <2> DEFINE s  == seen[n]
             u  == found[n]
             s1 == seen[n + 1]
             u1 == found[n + 1]
             p  == text[n + 1]
  <2>1. /\ n + 1 \in 1 .. len /\ n + 1 \in 0 .. len /\ (n + 1) - 1 = n /\ n \in 0 .. len
        /\ 1 .. n + 1 = 1 .. n \cup {n + 1} /\ n + 1 \in DOMAIN text
        /\ \A i \in 1 .. n : i \in DOMAIN text
    BY <1>1, <1>8
  <2>2. Counted(text, n, s, u)
    BY <1>8
  <2>3. /\ s1 = IF p.kind = "chip" /\ ~Contains(s, p.chip) THEN Append(s, p.chip) ELSE s
        /\ u1 = IF body[n + 1].kind = "slot" THEN Append(u, body[n + 1].slot) ELSE u
    BY <1>5, <2>1
  <2>4. /\ s \in Seq(Chips) /\ Len(s) \in Nat /\ DOMAIN s = 1 .. Len(s)
        /\ u \in Seq(Nat) /\ Len(u) \in Nat /\ DOMAIN u = 1 .. Len(u)
        /\ s1 \in Seq(Chips) /\ u1 \in Seq(Nat)
    <3>1. s \in Seq(Chips) /\ u \in Seq(Nat) /\ s1 \in Seq(Chips) /\ u1 \in Seq(Nat)
      BY <1>3, <2>1
    <3> HIDE DEF s, u, s1, u1
    <3> QED
      BY <3>1
  <2>5. Extends(s, tokens) /\ Extends(s1, tokens)
    BY <1>4, <2>1
  <2>6. p.kind = "chip" => (Repeats(text, n + 1) <=> \E i \in DOMAIN s : s[i] = p.chip)
    <3>1. \A i \in 1 .. n : text[i].kind = "chip" => text[i] = Chip(text[i].chip)
      BY <1>1, <2>1, PieceKinds
    <3>2. p.kind = "chip" => p = Chip(p.chip)
      BY <1>1, <2>1, PieceKinds
    <3>3. p.kind = "chip" =>
            ((\E h \in 1 .. n : text[h] = p) <=> \E h \in 1 .. n : text[h].kind = "chip" /\ text[h].chip = p.chip)
      BY <3>1, <3>2 DEF Chip
    <3> QED
      BY <1>6, <2>1, <3>3 DEF Repeats
  <2>7. (\E i \in 1 .. n + 1 : Repeats(text, i)) <=>
           (\E i \in 1 .. n : Repeats(text, i)) \/ Repeats(text, n + 1)
    BY <2>1
  <2> HIDE DEF s, u, s1, u1, p
  <2>8. Counted(text, n + 1, s1, u1)
    <3>1. CASE p.kind # "chip"
      <4>1. s1 = s /\ u1 = u
        BY <1>1, <2>1, <2>3, <3>1 DEF p
      <4>2. ~Repeats(text, n + 1)
        BY <3>1 DEF Repeats, p
      <4> QED
        BY <2>2, <2>7, <4>1, <4>2 DEF Counted
    <3>2. CASE p.kind = "chip"
      <4>1. PICK m \in DOMAIN tokens : body[n + 1] = Slot(m) /\ tokens[m] = p.chip
        BY <1>1, <2>1, <3>2 DEF p
      <4>2. u1 = Append(u, m)
        BY <2>3, <4>1, PieceKinds
      <4>3. m \in Nat
        <5>1. tokens \in Seq(Chips)
          BY TokensAreTheChips DEF FirstChips, tokens
        <5> QED
          BY <4>1, <5>1
      <4>4. /\ Len(u1) = Len(u) + 1 /\ DOMAIN u1 = 1 .. Len(u) + 1
            /\ \A i \in DOMAIN u : u1[i] = u[i]
            /\ u1[Len(u) + 1] = m
        BY <2>4, <4>2, <4>3, AppendFacts
      <4>5. DOMAIN u1 = DOMAIN u \cup {Len(u) + 1}
        BY <2>4, <4>4
      <4>6. CASE Contains(s, p.chip)
        <5>1. s1 = s
          BY <2>3, <4>6
        <5>2. PICK i \in DOMAIN s : s[i] = p.chip
          BY <2>4, <4>6 DEF Contains
        <5>3. m = i /\ m \in DOMAIN s
          BY <1>2, <2>5, <4>1, <5>2 DEF Extends
        <5>4. Repeats(text, n + 1)
          BY <2>6, <3>2, <5>2
        <5>5. Len(s1) <= Len(u1) /\ Len(s1) < Len(u1)
          BY <2>2, <2>4, <4>4, <5>1 DEF Counted
        <5>6. \A j \in DOMAIN u1 : u1[j] \in DOMAIN s1
          BY <2>2, <4>4, <4>5, <5>1, <5>3 DEF Counted
        <5>7. NewChipsFirst(text) => \A j \in DOMAIN s1 : u1[j] = j
          <6>1. \A j \in DOMAIN s : j \in DOMAIN u
            BY <2>2, <2>4 DEF Counted
          <6> QED
            BY <2>2, <4>4, <5>1, <6>1 DEF Counted
        <5> QED
          BY <2>7, <5>4, <5>5, <5>6, <5>7 DEF Counted
      <4>7. CASE ~Contains(s, p.chip)
        <5>1. s1 = Append(s, p.chip) /\ p.chip \in Chips
          BY <1>1, <2>1, <2>3, <3>2, <4>7, PieceKinds DEF p
        <5>2. /\ Len(s1) = Len(s) + 1 /\ DOMAIN s1 = 1 .. Len(s) + 1
              /\ s1[Len(s) + 1] = p.chip
          BY <2>4, <5>1, AppendFacts
        <5>3. DOMAIN s1 = DOMAIN s \cup {Len(s) + 1}
          BY <2>4, <5>2
        <5>4. m = Len(s) + 1
          BY <1>2, <2>5, <4>1, <5>2, <5>3 DEF Extends
        <5>5. ~Repeats(text, n + 1)
          BY <2>4, <2>6, <3>2, <4>7 DEF Contains
        <5>6. /\ Len(s1) <= Len(u1)
              /\ Len(s1) < Len(u1) <=> \E i \in 1 .. n + 1 : Repeats(text, i)
          BY <2>2, <2>4, <2>7, <4>4, <5>2, <5>5 DEF Counted
        <5>7. \A j \in DOMAIN u1 : u1[j] \in DOMAIN s1
          BY <2>2, <4>4, <4>5, <5>3, <5>4 DEF Counted
        <5>8. ASSUME NewChipsFirst(text) PROVE \A j \in DOMAIN s1 : u1[j] = j
          <6>1. \A i \in 1 .. n : ~Repeats(text, i)
            BY <2>1, <3>2, <5>5, <5>8 DEF NewChipsFirst, p
          <6>2. Len(u) = Len(s)
            <7>1. Len(s) <= Len(u) /\ ~(Len(s) < Len(u))
              BY <2>2, <6>1 DEF Counted
            <7>2. \A a, b \in Nat : a <= b /\ ~(a < b) => b = a
              OBVIOUS
            <7>3. Len(s) \in Nat /\ Len(u) \in Nat
              BY <2>4
            <7> QED
              BY <7>1, <7>2, <7>3, Zenon
          <6>3. DOMAIN u = DOMAIN s
            BY <2>4, <6>2
          <6>4. \A j \in DOMAIN s : u1[j] = j
            BY <2>2, <4>4, <5>8, <6>3 DEF Counted
          <6> QED
            BY <4>4, <5>3, <5>4, <6>2, <6>4
        <5> QED
          BY <5>6, <5>7, <5>8 DEF Counted
      <4> QED
        BY <4>6, <4>7
    <3> QED
      BY <3>1, <3>2
  <2> QED
    BY <2>1, <2>8 DEF s1, u1
<1> HIDE DEF Good
<1>9. \A n \in 0 .. len : n \in Good
  BY <1>1, <1>7, <1>8, UpTo
<1> QED
  BY <1>9 DEF Good, len

(* Nothing missing: the message goes out, and shows each chip its value    *)
(* exactly when no chip is repeated before the last new one.               *)
LEMMA ChipsShowTheirValues ==
    ASSUME NEW text \in Seq(Piece), NEW source, NEW event \in SUBSET Chips,
           Semantic(text)
    PROVE  LET template == ParseTemplateForm(text, source)
               vars     == BuildVariables(template, event)
               shown    == ShownByMeta(template, BuildComponents(template, vars))
           IN  Missing(template, event) = {} =>
                  /\ GateOpen(template, vars)
                  /\ Buildable(template, vars)
                  /\ (\A i \in DOMAIN text :
                        text[i].kind = "chip" => shown[i] = text[i].chip)
                       <=> NewChipsFirst(text)
<1> DEFINE template == ParseTemplateForm(text, source)
           vars    == BuildVariables(template, event)
           params  == BuildComponents(template, vars)
           shown   == ShownByMeta(template, params)
           tokens  == TokensOf(text)
           body    == Tokenize(text)
           numbers == PlaceholderNumbers(body)
           len     == Len(tokens)
<1>1. template.body = body /\ template.variables = tokens
  BY DEF ParseTemplateForm
<1>2. /\ tokens \in Seq(Chips) /\ len \in Nat /\ DOMAIN tokens = 1 .. len
      /\ \A i, j \in DOMAIN tokens : tokens[i] = tokens[j] => i = j
  BY TokensAreTheChips DEF FirstChips
<1>3. /\ body \in Seq(Piece) /\ DOMAIN body = DOMAIN text
      /\ \A i \in DOMAIN text :
            text[i].kind = "chip" =>
                 \E n \in DOMAIN tokens : body[i] = Slot(n) /\ tokens[n] = text[i].chip
  BY TokenizeIsPositional
<1>4. ToSet(numbers) = 1 .. len /\ CountVariables(body) = len
  BY SlotsAreThePlaces
<1>5. numbers \in Seq(Nat) /\ Len(numbers) \in Nat /\ DOMAIN numbers = 1 .. Len(numbers)
  BY <1>3, NumbersAreTheSlots DEF FirstNumbers
<1>6. Len(text) \in Nat /\ DOMAIN text = 1 .. Len(text) /\ Len(body) = Len(text)
  BY <1>3 DEF Tokenize
<1>7. PICK seen : /\ TokensLoop(text, seen)
                  /\ \A n \in 0 .. Len(text) : FirstChips(text, n, seen[n])
  BY TokensByPiece
<1>8. PICK found : /\ NumbersLoop(body, found)
                   /\ \A n \in 0 .. Len(text) : FirstNumbers(body, n, found[n])
  BY <1>3, <1>6, NumbersByPiece
<1>9. \A n \in 0 .. Len(text) : Counted(text, n, seen[n], found[n])
  BY <1>7, <1>8, RepetitionsAreCounted
<1>10. Counted(text, Len(text), tokens, numbers)
  <2>1. Len(text) \in 0 .. Len(text)
    BY <1>6
  <2> QED
    BY <1>6, <1>7, <1>8, <1>9, <2>1 DEF TokensLoop, NumbersLoop
<1> HIDE DEF template, vars, params, shown, tokens, body, numbers, len
<1>11. vars = [n \in 1 .. len |-> ValueAt(template, event, n)]
  BY <1>1, <1>4 DEF BuildVariables, vars
<1>12. GateOpen(template, vars) /\ Buildable(template, vars)
  <2>1. Cardinality(1 .. len) = len
    <3>1. \A n \in Nat : Cardinality(1 .. n) = IF 1 > n THEN 0 ELSE n - 1 + 1
      BY FS_Interval
    <3> QED
      BY <1>2, <3>1
  <2>2. DOMAIN vars = 1 .. len
    BY <1>11
  <2> QED
    BY <1>1, <1>4, <2>1, <2>2 DEF GateOpen, Buildable, numbers
<1>13. ASSUME Missing(template, event) = {}
       PROVE  (\A i \in DOMAIN text : text[i].kind = "chip" => shown[i] = text[i].chip)
                <=> NewChipsFirst(text)
  <2>1. ASSUME NEW n \in DOMAIN tokens PROVE vars[n] = tokens[n]
    <3>1. n \in 1 .. len /\ tokens # <<>>
      BY <1>2
    <3>2. vars[n] = ValueAt(template, event, n)
      BY <1>11, <3>1
    <3>3. ValueAt(template, event, n) = IF tokens[n] \in event THEN tokens[n] ELSE Dash
      BY <1>1, <2>1 DEF ValueAt
    <3>4. ValueAt(template, event, n) # Dash
      BY <1>1, <1>4, <1>13, <3>1 DEF Missing
    <3> QED
      BY <3>2, <3>3, <3>4
  <2>2. /\ \A i \in DOMAIN numbers : numbers[i] \in DOMAIN tokens /\ params[i] = tokens[numbers[i]]
        /\ \A n \in DOMAIN tokens : n \in DOMAIN numbers
    <3>1. \A i \in DOMAIN numbers : params[i] = vars[numbers[i]]
      BY <1>1 DEF params, BuildComponents, numbers
    <3>2. \A i \in DOMAIN numbers : numbers[i] \in DOMAIN tokens
      BY <1>10 DEF Counted
    <3>3. len <= Len(numbers)
      BY <1>10 DEF Counted, len
    <3> QED
      BY <1>2, <1>5, <2>1, <3>1, <3>2, <3>3
  <2>3. ASSUME NEW i \in DOMAIN text, text[i].kind = "chip",
               NEW n \in DOMAIN tokens, tokens[n] = text[i].chip
        PROVE  shown[i] = tokens[numbers[n]]
    <3>1. PICK m \in DOMAIN tokens : body[i] = Slot(m) /\ tokens[m] = text[i].chip
      BY <1>3, <2>3
    <3>2. m = n
      BY <1>2, <2>3, <3>1
    <3>3. body[i].kind = "slot" /\ body[i].slot = n
      BY <3>1, <3>2, PieceKinds
    <3>4. shown[i] = params[n]
      BY <1>1, <1>3, <3>3 DEF shown, ShownByMeta
    <3> QED
      BY <2>2, <3>4
  <2>4. ASSUME NewChipsFirst(text), NEW i \in DOMAIN text, text[i].kind = "chip"
        PROVE  shown[i] = text[i].chip
    <3>1. PICK n \in DOMAIN tokens : tokens[n] = text[i].chip
      BY <1>3, <2>4
    <3>2. numbers[n] = n
      BY <1>10, <2>4 DEF Counted
    <3> QED
      BY <2>3, <2>4, <3>1, <3>2
  <2>5. ASSUME ~NewChipsFirst(text)
        PROVE  \E j \in DOMAIN text : text[j].kind = "chip" /\ shown[j] # text[j].chip
    <3>1. PICK j \in DOMAIN text : /\ text[j].kind = "chip" /\ ~Repeats(text, j)
                                   /\ \E i \in 1 .. j - 1 : Repeats(text, i)
      BY <2>5 DEF NewChipsFirst
    <3> DEFINE s == seen[j - 1]
               k == text[j].chip
    <3>2. /\ j \in 1 .. Len(text) /\ j \in 0 .. Len(text) /\ j - 1 \in 0 .. Len(text)
          /\ \A h \in 1 .. j - 1 : h \in DOMAIN text
      BY <1>6, <3>1
    <3>3. Counted(text, j - 1, s, found[j - 1])
      BY <1>9, <3>2
    <3>4. s \in Seq(Chips) /\ seen[j] \in Seq(Chips) /\ found[j - 1] \in Seq(Nat)
      BY <1>7, <1>8, <3>2 DEF FirstChips, FirstNumbers
    <3>5. Len(s) \in Nat /\ DOMAIN s = 1 .. Len(s)
      BY <3>4
    <3>6. \A i \in DOMAIN s : s[i] # k
      <4>1. (\E i \in DOMAIN s : s[i] = k) => \E h \in 1 .. j - 1 : text[h].kind = "chip" /\ text[h].chip = k
        BY <1>7, <3>2 DEF FirstChips
      <4>2. \A h \in DOMAIN text : text[h].kind = "chip" => text[h] = Chip(text[h].chip)
        BY PieceKinds
      <4>3. \A h \in 1 .. j - 1 : ~(text[h].kind = "chip" /\ text[h].chip = k)
        BY <3>1, <3>2, <4>2 DEF Repeats
      <4> QED
        BY <4>1, <4>3
    <3>7. seen[j] = Append(s, k)
      <4>1. ~Contains(s, k)
        BY <3>5, <3>6 DEF Contains
      <4> QED
        BY <1>7, <3>1, <3>2, <4>1 DEF TokensLoop
    <3>8. k \in Chips
      BY <3>1, PieceKinds
    <3> HIDE DEF s, k
    <3>9. DOMAIN seen[j] = 1 .. Len(s) + 1 /\ seen[j][Len(s) + 1] = k
      BY <3>4, <3>7, <3>8, AppendFacts
    <3>10. Extends(seen[j], tokens) /\ Extends(s, tokens)
      BY <3>2, TokensGrow, <1>7 DEF s, tokens
    <3>11. Len(s) + 1 \in DOMAIN tokens /\ tokens[Len(s) + 1] = k
      BY <3>5, <3>9, <3>10 DEF Extends
    <3>12. Len(s) + 1 \in DOMAIN found[j - 1]
      <4>1. Len(s) < Len(found[j - 1])
        BY <3>1, <3>3 DEF Counted
      <4> QED
        BY <3>4, <3>5, <4>1
    <3>13. numbers[Len(s) + 1] = found[j - 1][Len(s) + 1]
      BY <1>3, <1>6, <1>8, <3>2, <3>12, NumbersGrow DEF numbers, Extends
    <3>14. numbers[Len(s) + 1] \in DOMAIN s
      BY <3>3, <3>12, <3>13 DEF Counted
    <3>15. tokens[numbers[Len(s) + 1]] # k
      BY <3>6, <3>10, <3>14 DEF Extends
    <3>16. shown[j] = tokens[numbers[Len(s) + 1]]
      BY <2>3, <3>1, <3>11 DEF k
    <3> QED
      BY <3>1, <3>15, <3>16 DEF k
  <2> QED
    BY <2>4, <2>5
<1>14. Missing(template, event) = {} =>
         /\ GateOpen(template, vars) /\ Buildable(template, vars)
         /\ (\A i \in DOMAIN text : text[i].kind = "chip" => shown[i] = text[i].chip)
              <=> NewChipsFirst(text)
  BY <1>12, <1>13
<1> QED
  BY <1>14 DEF template, vars, params, shown

(* The texts among the inputs are texts.                                    *)
LEMMA InputTexts ==
    ASSUME probe \in Inputs, probe.kind = "text"
    PROVE  probe.text \in Seq(Piece) /\ probe.event \in SUBSET Chips
<1>1. probe.text \in BoundedSeq(Pieces, MaxPieces) /\ probe.event \in SUBSET Chips
  BY DEF Inputs
<1>2. PICK m \in 0 .. MaxPieces : probe.text \in [1 .. m -> Pieces]
  BY <1>1 DEF BoundedSeq, SeqOf
<1>3. Pieces \subseteq Piece
  BY DEF Pieces, Piece
<1>4. m \in Nat
  BY <1>2, BoundAssumption
<1> QED
  BY <1>1, <1>2, <1>3, <1>4

(* Opening a template in the form and saving it unchanged stores the same   *)
(* text and the same examples: what SemanticBodyForEdit shows is what       *)
(* parseTemplateForm was given.                                             *)
THEOREM EditsChangeNothing == PureSpec => []EditRoundTrip
<1>1. probe \in Inputs => EditRoundTrip
  BY InputTexts, EditsRoundTrip DEF EditRoundTrip
<1> QED
  BY <1>1, ProbeIsAnInput, PTL

(* A send whose event has a value for every chip is not held back, and the  *)
(* customer reads at each chip the value of its own key exactly when the    *)
(* text repeats no chip before the last new one: for any other text,        *)
(* however long, buildComponents moves a value to a slot it is not of.      *)
THEOREM ChipsHaveValues == PureSpec => []MessageShowsChips
<1>1. probe \in Inputs => MessageShowsChips
  BY InputTexts, ChipsShowTheirValues DEF MessageShowsChips
<1> QED
  BY <1>1, ProbeIsAnInput, PTL

=============================================================================
