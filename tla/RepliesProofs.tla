---------------------------- MODULE RepliesProofs ----------------------------
(***************************************************************************)
(* Outbound messages, for any number of messages, callers, shops, windows, *)
(* webhook requests at a time and faults: the send budget holds, a status  *)
(* goes back only when two requests about the message race, and what Meta  *)
(* reports, in whatever order and however often, ends up in the row, in    *)
(* its time stamps even after a race.                                      *)
(***************************************************************************)
EXTENDS OperatorReplies, TLAPS

-----------------------------------------------------------------------------
(* The budget.                                                             *)

WithinCeiling ==
    \A scope \in Scopes, w \in Windows : counted[scope][w] <= Ceiling(scope)

AdmittedAreCounted ==
    \A scope \in Scopes, w \in Windows :
        ~Stale(w) => admitted[scope][w] <= counted[scope][w]

CountedAreAdmitted ==
    \A w \in Windows :
        ~Stale(w) => counted[Platform][w] <= admitted[Platform][w] + lost

QuotaInv == QuotaTypeOK /\ WithinCeiling /\ AdmittedAreCounted /\ CountedAreAdmitted

-----------------------------------------------------------------------------

(* The statement counts a row only while there is room in it, and at most  *)
(* one send in each.                                                       *)
LEMMA StatementKeepsCeilings ==
    ASSUME QuotaTypeOK, WithinCeiling, NEW c \in Callers, call[c].pc = "counting"
    PROVE  /\ Counted(c) \in [Scopes -> [Windows -> Nat]]
           /\ \A scope \in Scopes, w \in Windows :
                 /\ Counted(c)[scope][w] =
                       IF scope \in ScopesCounted(c) /\ w = call[c].window
                       THEN counted[scope][w] + 1 ELSE counted[scope][w]
                 /\ Counted(c)[scope][w] <= Ceiling(scope)
<1> DEFINE u == call[c].window
<1>1. u \in Windows
  BY DEF QuotaTypeOK, Call
<1>2. Counted(c) \in [Scopes -> [Windows -> Nat]]
  BY <1>1 DEF QuotaTypeOK, Counted
<1>3. ASSUME NEW scope \in Scopes, NEW w \in Windows
      PROVE  /\ Counted(c)[scope][w] =
                   IF scope \in ScopesCounted(c) /\ w = call[c].window
                   THEN counted[scope][w] + 1 ELSE counted[scope][w]
             /\ Counted(c)[scope][w] <= Ceiling(scope)
  <2>1. Counted(c)[scope][w] =
           IF scope \in ScopesCounted(c) /\ w = call[c].window
           THEN counted[scope][w] + 1 ELSE counted[scope][w]
    BY <1>1 DEF QuotaTypeOK, Counted
  <2>2. counted[scope][w] \in Nat /\ Ceiling(scope) \in Nat
    BY QuotaAssumption DEF QuotaTypeOK, Ceiling
  <2>3. scope \in ScopesCounted(c) => counted[scope][u] < Ceiling(scope)
    BY DEF ScopesCounted
  <2>4. counted[scope][w] <= Ceiling(scope)
    BY DEF WithinCeiling
  <2> QED
    BY <2>1, <2>2, <2>3, <2>4
<1> QED
  BY <1>2, <1>3

LEMMA InitQuota == QuotaInit => QuotaInv
<1> SUFFICES ASSUME QuotaInit PROVE QuotaInv
  OBVIOUS
<1> USE QuotaAssumption
<1>1. 0 \in Windows /\ 0 \in 0..MaxCalls /\ 0 \in 0..MaxLost
  BY DEF Windows
<1>2. QuotaTypeOK
  BY <1>1 DEF QuotaInit, QuotaTypeOK, Call, Answers, Resting
<1>3. WithinCeiling
  BY DEF QuotaInit, WithinCeiling, Ceiling
<1>4. AdmittedAreCounted
  BY DEF QuotaInit, AdmittedAreCounted
<1>5. CountedAreAdmitted
  BY DEF QuotaInit, CountedAreAdmitted, Scopes
<1> QED
  BY <1>2, <1>3, <1>4, <1>5 DEF QuotaInv

(* A call that has only begun, and one that has ended without a prune,     *)
(* leave the rows alone.                                                   *)
LEMMA StepQuota == QuotaInv /\ [QuotaNext]_quotaVars => QuotaInv'
<1> SUFFICES ASSUME QuotaInv, [QuotaNext]_quotaVars PROVE QuotaInv'
  OBVIOUS
<1> USE QuotaAssumption
<1>0. now \in Nat /\ lost \in Nat /\ MaxWindow \in Nat
  BY DEF QuotaInv, QuotaTypeOK, Windows
<1>c. Platform \in Scopes /\ \A c \in Callers : ShopOf[c] \in Scopes
  BY DEF Scopes
<1>1. ASSUME NEW c \in Callers, Ask(c) PROVE QuotaInv'
  <2>1. QuotaTypeOK'
    BY <1>1 DEF QuotaInv, QuotaTypeOK, Ask, Call, Answers
  <2> QED
    BY <2>1, <1>1 DEF QuotaInv, Ask, WithinCeiling, AdmittedAreCounted, CountedAreAdmitted, Stale, Ceiling
<1>2. ASSUME NEW c \in Callers, Count(c) PROVE QuotaInv'
  <2> DEFINE u == call[c].window
             allowed == Verdict(c) = "allowed"
  <2>1. u \in Windows
    BY DEF QuotaInv, QuotaTypeOK, Call
  <2>2. /\ counted' \in [Scopes -> [Windows -> Nat]]
        /\ \A scope \in Scopes, w \in Windows :
              /\ counted'[scope][w] =
                    IF scope \in ScopesCounted(c) /\ w = u
                    THEN counted[scope][w] + 1 ELSE counted[scope][w]
              /\ counted'[scope][w] <= Ceiling(scope)
    BY <1>2, StatementKeepsCeilings DEF QuotaInv, Count
  <2>3. Verdict(c) \in Answers
    BY DEF Verdict, Answers
  <2>4. allowed <=> Platform \in ScopesCounted(c)
    BY DEF Verdict, ScopesCounted
  <2>5. allowed => ShopOf[c] \in ScopesCounted(c)
    BY DEF Verdict
  <2>6. /\ admitted' \in [Scopes -> [Windows -> Nat]]
        /\ \A scope \in Scopes, w \in Windows :
              admitted'[scope][w] =
                 IF allowed /\ scope \in {ShopOf[c], Platform} /\ w = u
                 THEN admitted[scope][w] + 1 ELSE admitted[scope][w]
    <3>1. CASE allowed
      BY <1>2, <2>1, <3>1 DEF QuotaInv, QuotaTypeOK, Count
    <3>2. CASE ~allowed
      BY <1>2, <3>2 DEF QuotaInv, QuotaTypeOK, Count
    <3> QED
      BY <3>1, <3>2
  <2>7. QuotaTypeOK'
    <3> DEFINE next == [call[c] EXCEPT !.pc = "counted", !.answer = Verdict(c)]
    <3>1. call[c] \in Call
      BY DEF QuotaInv, QuotaTypeOK
    <3>2. next \in Call
      BY <2>3, <3>1 DEF Call
    <3>3. call' = [call EXCEPT ![c] = next]
      BY <1>2 DEF Count
    <3>4. call' \in [Callers -> Call]
      BY <3>2, <3>3 DEF QuotaInv, QuotaTypeOK
    <3> QED
      BY <1>2, <2>2, <2>6, <3>4 DEF QuotaInv, QuotaTypeOK, Count
  <2>8. WithinCeiling'
    BY <2>2 DEF WithinCeiling, Ceiling
  <2>9. AdmittedAreCounted'
    <3> SUFFICES ASSUME NEW scope \in Scopes, NEW w \in Windows, ~Stale(w)'
                 PROVE  admitted'[scope][w] <= counted'[scope][w]
      BY DEF AdmittedAreCounted
    <3>1. ~Stale(w)
      BY <1>2 DEF Count, Stale
    <3>2. admitted[scope][w] <= counted[scope][w]
      BY <3>1 DEF QuotaInv, AdmittedAreCounted
    <3>3. admitted[scope][w] \in Nat /\ counted[scope][w] \in Nat
      BY DEF QuotaInv, QuotaTypeOK
    <3> QED
      BY <2>2, <2>4, <2>5, <2>6, <3>2, <3>3
  <2>10. CountedAreAdmitted'
    <3> SUFFICES ASSUME NEW w \in Windows, ~Stale(w)'
                 PROVE  counted'[Platform][w] <= admitted'[Platform][w] + lost'
      BY DEF CountedAreAdmitted
    <3>1. ~Stale(w) /\ lost' = lost
      BY <1>2 DEF Count, Stale
    <3>2. counted[Platform][w] <= admitted[Platform][w] + lost
      BY <3>1 DEF QuotaInv, CountedAreAdmitted
    <3>3. admitted[Platform][w] \in Nat /\ counted[Platform][w] \in Nat
      BY <1>c DEF QuotaInv, QuotaTypeOK
    <3> QED
      BY <1>0, <1>c, <2>2, <2>4, <2>6, <3>1, <3>2, <3>3
  <2> QED
    BY <2>7, <2>8, <2>9, <2>10 DEF QuotaInv
<1>3. ASSUME NEW c \in Callers, CountFails(c) PROVE QuotaInv'
  <2> DEFINE u == call[c].window
  <2>1. /\ counted' \in [Scopes -> [Windows -> Nat]]
        /\ \A scope \in Scopes, w \in Windows :
              /\ counted'[scope][w] \in {counted[scope][w], counted[scope][w] + 1}
              /\ counted'[scope][w] <= Ceiling(scope)
    <3>1. CASE counted' = counted
      BY <3>1 DEF QuotaInv, QuotaTypeOK, WithinCeiling
    <3>2. CASE counted' = Counted(c)
      BY <1>3, <3>2, StatementKeepsCeilings DEF QuotaInv, CountFails
    <3> QED
      BY <1>3, <3>1, <3>2 DEF CountFails
  <2>2. lost' = lost + 1 /\ lost' \in 0..MaxLost
    BY <1>0, <1>3 DEF CountFails
  <2>3. QuotaTypeOK'
    BY <1>3, <2>1, <2>2 DEF QuotaInv, QuotaTypeOK, CountFails, Call, Answers
  <2>4. WithinCeiling'
    BY <2>1 DEF WithinCeiling, Ceiling
  <2>5. AdmittedAreCounted'
    <3> SUFFICES ASSUME NEW scope \in Scopes, NEW w \in Windows, ~Stale(w)'
                 PROVE  admitted'[scope][w] <= counted'[scope][w]
      BY DEF AdmittedAreCounted
    <3>1. admitted[scope][w] <= counted[scope][w] /\ admitted' = admitted
      BY <1>3 DEF CountFails, Stale, QuotaInv, AdmittedAreCounted
    <3>2. admitted[scope][w] \in Nat /\ counted[scope][w] \in Nat
      BY DEF QuotaInv, QuotaTypeOK
    <3> QED
      BY <2>1, <3>1, <3>2
  <2>6. CountedAreAdmitted'
    <3> SUFFICES ASSUME NEW w \in Windows, ~Stale(w)'
                 PROVE  counted'[Platform][w] <= admitted'[Platform][w] + lost'
      BY DEF CountedAreAdmitted
    <3>1. /\ counted[Platform][w] <= admitted[Platform][w] + lost
          /\ admitted' = admitted
      BY <1>3 DEF CountFails, Stale, QuotaInv, CountedAreAdmitted
    <3>2. admitted[Platform][w] \in Nat /\ counted[Platform][w] \in Nat
      BY <1>c DEF QuotaInv, QuotaTypeOK
    <3> QED
      BY <1>0, <1>c, <2>1, <2>2, <3>1, <3>2
  <2> QED
    BY <2>3, <2>4, <2>5, <2>6 DEF QuotaInv
<1>4. ASSUME NEW c \in Callers, Return(c) PROVE QuotaInv'
  <2>1. /\ counted' \in [Scopes -> [Windows -> Nat]]
        /\ \A scope \in Scopes, w \in Windows :
              /\ counted'[scope][w] <= counted[scope][w]
              /\ ~Stale(w) => counted'[scope][w] = counted[scope][w]
    <3>1. CASE counted' = counted
      BY <3>1 DEF QuotaInv, QuotaTypeOK
    <3>2. CASE counted' = Pruned
      BY <3>2 DEF QuotaInv, QuotaTypeOK, Pruned
    <3> QED
      BY <1>4, <3>1, <3>2 DEF Return
  <2>2. QuotaTypeOK'
    BY <1>4, <2>1 DEF QuotaInv, QuotaTypeOK, Return, Call, Answers, Resting, Windows
  <2>3. WithinCeiling'
    <3> SUFFICES ASSUME NEW scope \in Scopes, NEW w \in Windows
                 PROVE  counted'[scope][w] <= Ceiling(scope)
      BY DEF WithinCeiling, Ceiling
    <3>1. /\ counted'[scope][w] \in Nat /\ counted[scope][w] \in Nat
          /\ Ceiling(scope) \in Nat
      BY <2>1 DEF QuotaInv, QuotaTypeOK, Ceiling
    <3> QED
      BY <2>1, <3>1 DEF QuotaInv, WithinCeiling
  <2>4. AdmittedAreCounted' /\ CountedAreAdmitted'
    BY <1>4, <1>c, <2>1 DEF Return, Stale, QuotaInv, AdmittedAreCounted, CountedAreAdmitted
  <2> QED
    BY <2>2, <2>3, <2>4 DEF QuotaInv
<1>5. ASSUME Tick PROVE QuotaInv'
  <2>1. QuotaTypeOK'
    BY <1>0, <1>5 DEF QuotaInv, QuotaTypeOK, Tick, Windows
  <2>2. \A w \in Windows : ~Stale(w)' => ~Stale(w)
    BY <1>0, <1>5 DEF Tick, Stale, Windows
  <2> QED
    BY <1>5, <2>1, <2>2 DEF QuotaInv, Tick, WithinCeiling, AdmittedAreCounted, CountedAreAdmitted, Ceiling
<1>6. CASE UNCHANGED quotaVars
  BY <1>6 DEF QuotaInv, QuotaTypeOK, quotaVars, WithinCeiling, AdmittedAreCounted,
              CountedAreAdmitted, Stale, Ceiling
<1> QED
  BY <1>1, <1>2, <1>3, <1>4, <1>5, <1>6 DEF QuotaNext

(* The inductive invariant of the budget.                                  *)
THEOREM QuotaInvariant == QuotaSpec => []QuotaInv
<1> QED
  BY InitQuota, StepQuota, PTL DEF QuotaSpec

(* The ceilings of shops and of the platform hold: see QuotaHolds.         *)
THEOREM BudgetHolds == QuotaSpec => []QuotaHolds
<1>1. QuotaInv => QuotaHolds
  <2> SUFFICES ASSUME QuotaInv, NEW scope \in Scopes, NEW w \in Windows, ~Stale(w)
               PROVE  admitted[scope][w] <= Ceiling(scope)
    BY DEF QuotaHolds
  <2>1. /\ admitted[scope][w] \in Nat /\ counted[scope][w] \in Nat
        /\ Ceiling(scope) \in Nat
    BY QuotaAssumption DEF QuotaInv, QuotaTypeOK, Ceiling
  <2> QED
    BY <2>1 DEF QuotaInv, WithinCeiling, AdmittedAreCounted
<1> QED
  BY <1>1, QuotaInvariant, PTL

(* The platform's row counts what is sent: see PlatformCountsSends.        *)
THEOREM PlatformIsHonest == QuotaSpec => []PlatformCountsSends
<1>1. QuotaInv => PlatformCountsSends
  BY DEF QuotaInv, PlatformCountsSends, AdmittedAreCounted, CountedAreAdmitted, Scopes
<1> QED
  BY <1>1, QuotaInvariant, PTL

-----------------------------------------------------------------------------

(* Replies and templates use the budget as its module describes.           *)
THEOREM RepliesShareTheBudget == RepliesSpec => QuotaSpec
<1>1. RepliesInit => QuotaInit
  BY DEF RepliesInit
<1>2. [RepliesNext]_vars => [QuotaNext]_quotaVars
  <2> SUFFICES ASSUME [RepliesNext]_vars PROVE [QuotaNext]_quotaVars
    OBVIOUS
  <2>1. ASSUME NEW m \in Messages, Request(m) \/ Admitted(m) \/ Refused(m)
        PROVE  QuotaNext
    BY <2>1, RepliesAssumption DEF Request, Admitted, Refused, QuotaNext
  <2>2. ASSUME NEW m \in Messages, Working(m) \/ Announce(m)
        PROVE  UNCHANGED quotaVars
    BY <2>2 DEF Working, Announce, quotaVars
  <2>3. ASSUME NEW c \in Callers, Counting(c) \/ OtherSend(c)
        PROVE  QuotaNext
    BY <2>3 DEF Counting, OtherSend, QuotaNext
  <2>4. CASE Webhook \/ CustomerWrites
    BY <2>4 DEF Webhook, CustomerWrites, quotaVars
  <2>5. CASE Time
    BY <2>5 DEF Time, QuotaNext, quotaVars
  <2>6. CASE UNCHANGED vars
    BY <2>6 DEF vars, quotaVars
  <2> QED
    BY <2>1, <2>2, <2>3, <2>4, <2>5, <2>6 DEF RepliesNext
<1> QED
  BY <1>1, <1>2, PTL DEF RepliesSpec, QuotaSpec

-----------------------------------------------------------------------------
(* The rows and the webhook.                                               *)

Pending == {"uploading", "calling", "accepted"}

(* Until its sender has recorded an answer, a row is queued and its id is  *)
(* not known, so that no request finds it.                                 *)
PendingIsQueued ==
    \A m \in Messages :
        /\ sender[m] \in Pending => row[m].status = "queued" /\ ~row[m].known
        /\ row[m].status = "none" => sender[m] = "idle" /\ ~row[m].known

(* A request that is about to write found its row.                         *)
FoundIsKnown ==
    \A h \in Handlers : handler[h].pc = "write" => row[handler[h].notice.message].known

(* Two requests about to write the same row have raced.                    *)
AloneUnlessRaced ==
    \A m \in Messages \ raced : \A g, h \in Handlers :
        Writing(g, m) /\ Writing(h, m) => g = h

(* Otherwise what a request has found out still holds when it writes.      *)
CheckIsFresh ==
    \A m \in Messages \ raced : \A h \in Handlers :
        Writing(h, m) => ShouldAdvanceStatus(row[m].status, handler[h].notice.status)

RowsInv   == TypeOK /\ PendingIsQueued /\ FoundIsKnown
StatusInv == RowsInv /\ AloneUnlessRaced /\ CheckIsFresh

(* The steps of the replies that only concern the budget or a              *)
(* conversation, as the rows see them.                                     *)
Beside ==
    /\ UNCHANGED <<row, meta, notices, handler, early, raced>>
    /\ faults' \in faults..MaxFaults
    /\ sender' \in [Messages -> {"idle", "uploading", "calling", "accepted", "marked", "done"}]
    /\ \A m \in Messages : \/ sender'[m] = sender[m]
                           \/ sender[m] = "marked" /\ sender'[m] = "done"

-----------------------------------------------------------------------------

LEMMA NoNoticeIsNotice == NoNotice \in Notice
<1>1. \E n \in Notice : TRUE
  <2>1. PICK m \in Messages : TRUE
    BY StatusAssumption
  <2>2. [message |-> m, status |-> "sent"] \in Notice
    BY DEF Notice, Verdicts
  <2> QED
    BY <2>2
<1> QED
  BY <1>1 DEF NoNotice

LEMMA InitStatus == Init => StatusInv
<1> SUFFICES ASSUME Init PROVE StatusInv
  OBVIOUS
<1>1. TypeOK
  BY StatusAssumption, NoNoticeIsNotice DEF Init, TypeOK, Row, Stored, Verdicts, Handler
<1>2. PendingIsQueued
  BY DEF Init, PendingIsQueued, Pending
<1>3. CheckIsFresh /\ AloneUnlessRaced /\ FoundIsKnown
  BY DEF Init, CheckIsFresh, AloneUnlessRaced, FoundIsKnown, Writing
<1> QED
  BY <1>1, <1>2, <1>3 DEF StatusInv, RowsInv

(* A sender's step leaves every row that has an id as it is, and gives no  *)
(* row a lower status.                                                     *)
LEMMA SenderKeepsKnown ==
    ASSUME RowsInv, NEW m \in Messages, Reserve(m) \/ SenderStep(m)
    PROVE  /\ RowsInv'
           /\ handler' = handler /\ meta' = meta /\ notices' = notices
           /\ early' = early /\ raced' = raced
           /\ faults' >= faults
           /\ \A x \in Messages : row[x].known => row'[x] = row[x]
           /\ \A x \in Messages : /\ Rank(row'[x].status) >= Rank(row[x].status)
                                  /\ row[x].stamps \subseteq row'[x].stamps
<1> USE DEF RowsInv
<1> DEFINE Kept == /\ TypeOK' /\ PendingIsQueued' /\ handler' = handler
                   /\ \A x \in Messages : row[x].known => row'[x] = row[x]
                   /\ \A x \in Messages : /\ Rank(row'[x].status) >= Rank(row[x].status)
                                          /\ row[x].stamps \subseteq row'[x].stamps
<1>0. row[m] \in Row /\ (\A x \in Messages : Rank(row[x].status) \in Nat)
  BY DEF TypeOK, Rank
<1>a. faults \in Nat /\ faults' >= faults /\ early' = early /\ raced' = raced /\ meta' = meta /\ notices' = notices
  BY StatusAssumption DEF TypeOK, Reserve, SenderStep, Upload, Accepted, MarkSent, MarkFailed, AnswerLost
<1>b. ASSUME handler' = handler, \A x \in Messages : row[x].known => row'[x] = row[x]
      PROVE  FoundIsKnown'
  BY <1>b DEF FoundIsKnown, TypeOK, Handler, Notice
<1>1. ASSUME Reserve(m) PROVE Kept
  <2>1. sender[m] = "idle" /\ ~row[m].known /\ row[m].status = "none"
    BY <1>1 DEF Reserve, PendingIsQueued
  <2>2. row' = [row EXCEPT ![m] = [@ EXCEPT !.status = "queued"]]
    BY <1>1 DEF Reserve
  <2>3. [row[m] EXCEPT !.status = "queued"] \in Row
    BY <1>0 DEF Row, Stored
  <2>4. row' \in [Messages -> Row]
    BY <2>2, <2>3 DEF TypeOK
  <2>5. TypeOK'
    BY <1>1, <2>4 DEF TypeOK, Reserve
  <2>6. PendingIsQueued'
    BY <1>0, <1>1, <2>1, <2>2 DEF PendingIsQueued, Reserve, TypeOK, Row
  <2>7. \A x \in Messages : /\ Rank(row'[x].status) >= Rank(row[x].status)
                             /\ row[x].stamps \subseteq row'[x].stamps
    BY <1>0, <2>1, <2>2 DEF Rank, TypeOK, Row
  <2> QED
    BY <1>1, <2>1, <2>2, <2>5, <2>6, <2>7 DEF Reserve, TypeOK
<1>2. ASSUME Upload(m) \/ Accepted(m) PROVE Kept
  BY <1>0, <1>2 DEF Upload, Accepted, TypeOK, PendingIsQueued, Pending
<1>3. ASSUME NEW status \in {"sent", "failed"}, NEW stamps \in SUBSET Verdicts, NEW known \in BOOLEAN,
             sender[m] \in Pending, row[m].stamps \subseteq stamps,
             \/ row' = [row EXCEPT ![m] = [status |-> status, known |-> known, stamps |-> stamps]]
             \/ row' = row,
             sender' = [sender EXCEPT ![m] = "done"]
               \/ sender' = [sender EXCEPT ![m] = "marked"],
             faults' \in 0..MaxFaults,
             UNCHANGED <<meta, notices, handler>>
      PROVE  /\ TypeOK' /\ PendingIsQueued'
             /\ \A x \in Messages : row[x].known => row'[x] = row[x]
             /\ \A x \in Messages : /\ Rank(row'[x].status) >= Rank(row[x].status)
                                    /\ row[x].stamps \subseteq row'[x].stamps
  <2>1. row[m].status = "queued" /\ ~row[m].known
    BY <1>3 DEF PendingIsQueued
  <2>2. [status |-> status, known |-> known, stamps |-> stamps] \in Row
    BY DEF Row, Stored, Verdicts
  <2>3. TypeOK'
    BY <1>3, <2>2 DEF TypeOK
  <2>4. PendingIsQueued'
    BY <1>3, <2>1 DEF PendingIsQueued, TypeOK, Pending
  <2> QED
    BY <1>0, <1>3, <2>1, <2>3, <2>4 DEF TypeOK, Rank
<1>4. ASSUME MarkSent(m) PROVE Kept
  <2>1. sender[m] \in Pending /\ row[m].stamps \cup {"sent"} \in SUBSET Verdicts
    BY <1>0, <1>4 DEF MarkSent, Pending, Row, Verdicts
  <2>2. \/ row' = [row EXCEPT ![m] = [status |-> "sent", known |-> TRUE, stamps |-> row[m].stamps \cup {"sent"}]]
        \/ row' = row
    BY <1>0, <1>4 DEF MarkSent, TypeOK, Row
  <2>3. faults' \in 0..MaxFaults
    BY <1>4, StatusAssumption DEF MarkSent, TypeOK
  <2>4. /\ sender' = [sender EXCEPT ![m] = "done"] \/ sender' = [sender EXCEPT ![m] = "marked"]
        /\ UNCHANGED <<meta, notices, handler>>
    BY <1>4 DEF MarkSent
  <2> QED
    BY <1>3, <2>1, <2>2, <2>3, <2>4
<1>5. ASSUME MarkFailed(m) \/ AnswerLost(m) PROVE Kept
  <2> DEFINE stamps == row[m].stamps \cup FailureStamp(m)
  <2>1. sender[m] \in Pending /\ stamps \in SUBSET Verdicts /\ row[m].known \in BOOLEAN
    BY <1>0, <1>5 DEF MarkFailed, AnswerLost, Pending, Row, Verdicts, FailureStamp
  <2>2. \/ row' = [row EXCEPT ![m] = [status |-> "failed", known |-> row[m].known, stamps |-> stamps]]
        \/ row' = row
    BY <1>0, <1>5 DEF MarkFailed, AnswerLost, TypeOK, Row
  <2>3. faults' \in 0..MaxFaults
    BY <1>5, StatusAssumption DEF MarkFailed, AnswerLost, TypeOK
  <2>4. sender' = [sender EXCEPT ![m] = "done"] /\ UNCHANGED <<meta, notices, handler>>
    BY <1>5 DEF MarkFailed, AnswerLost
  <2> QED
    BY <1>3, <2>1, <2>2, <2>3, <2>4
<1>6. Kept
  BY <1>1, <1>2, <1>4, <1>5 DEF SenderStep, Upload, Accepted, MarkSent, MarkFailed, AnswerLost
<1> QED
  BY <1>6, <1>a, <1>b

(* A webhook step only touches rows whose id is known.                     *)
LEMMA WebhookKeepsRows ==
    ASSUME RowsInv, WebhookNext
    PROVE  /\ RowsInv'
           /\ sender' = sender
           /\ raced \subseteq raced'
           /\ \A x \in Messages : /\ row'[x].known = row[x].known
                                  /\ ~row[x].known => row'[x] = row[x]
                                  /\ row[x].stamps \subseteq row'[x].stamps
<1> USE DEF RowsInv
<1>0. \A x \in Messages : row[x] \in Row
  BY DEF TypeOK
<1>1. ASSUME NEW m \in Messages, NEW status \in Verdicts, MetaReports(m, status)
      PROVE  RowsInv' /\ sender' = sender /\ row' = row /\ raced \subseteq raced'
  BY <1>1 DEF MetaReports, TypeOK, PendingIsQueued, FoundIsKnown, Notice
<1>2. ASSUME NEW h \in Handlers, NEW n \in notices, Receive(h, n)
      PROVE  RowsInv' /\ sender' = sender /\ row' = row /\ raced \subseteq raced'
  BY <1>2 DEF Receive, TypeOK, PendingIsQueued, FoundIsKnown, Handler
<1>3. ASSUME NEW h \in Handlers, ReadStatus(h)
      PROVE  RowsInv' /\ sender' = sender /\ row' = row /\ raced \subseteq raced'
  <2>1. TypeOK'
    BY <1>3, NoNoticeIsNotice, StatusAssumption DEF ReadStatus, Stop, TypeOK, Handler
  <2>2. FoundIsKnown'
    BY <1>3 DEF ReadStatus, Stop, TypeOK, FoundIsKnown, Handler
  <2> QED
    BY <1>3, <2>1, <2>2 DEF ReadStatus, PendingIsQueued
<1>4. ASSUME NEW h \in Handlers, WriteStatus(h)
      PROVE  /\ RowsInv' /\ sender' = sender /\ raced' = raced
             /\ \A x \in Messages : /\ row'[x].known = row[x].known
                                    /\ ~row[x].known => row'[x] = row[x]
                                    /\ row[x].stamps \subseteq row'[x].stamps
  <2> DEFINE n == handler[h].notice
             m == n.message
             next == [status |-> n.status, known |-> row[m].known,
                      stamps |-> row[m].stamps \cup WebhookStamp(n)]
  <2>1. n \in Notice /\ m \in Messages /\ n.status \in Verdicts
    BY DEF TypeOK, Handler, Notice
  <2>2. row[m].known
    BY <1>4 DEF WriteStatus, FoundIsKnown
  <2>3. row' = [row EXCEPT ![m] = next] \/ row' = row
    BY <1>0, <1>4, <2>1 DEF WriteStatus, TypeOK, Row
  <2>4. next \in Row
    BY <1>0, <2>1 DEF Row, Stored, WebhookStamp, Verdicts
  <2>5. handler' = [handler EXCEPT ![h] = [pc |-> "idle", notice |-> NoNotice]]
    BY <1>4 DEF WriteStatus, Stop
  <2>6. faults' \in 0..MaxFaults /\ UNCHANGED <<sender, meta, notices, raced>>
    BY <1>4, StatusAssumption DEF WriteStatus, TypeOK
  <2>7. row' \in [Messages -> Row]
    BY <2>3, <2>4 DEF TypeOK
  <2>8. TypeOK'
    BY <2>5, <2>6, <2>7, NoNoticeIsNotice DEF TypeOK, Handler
  <2>9. PendingIsQueued'
    BY <2>1, <2>2, <2>3, <2>6 DEF PendingIsQueued, TypeOK, Pending, Verdicts
  <2>10. \A x \in Messages : /\ row'[x].known = row[x].known
                             /\ ~row[x].known => row'[x] = row[x]
                             /\ row[x].stamps \subseteq row'[x].stamps
    <3>1. CASE row' = row
      BY <3>1
    <3>2. CASE row' = [row EXCEPT ![m] = next]
      <4>1. /\ row'[m].known = row[m].known
            /\ row[m].stamps \subseteq row'[m].stamps
            /\ \A x \in Messages : x # m => row'[x] = row[x]
        BY <2>1, <3>2 DEF TypeOK
      <4> QED
        BY <2>2, <4>1
    <3> QED
      BY <2>3, <3>1, <3>2
  <2>11. FoundIsKnown'
    BY <2>5, <2>10 DEF FoundIsKnown, TypeOK, Handler, Notice
  <2> QED
    BY <2>6, <2>8, <2>9, <2>10, <2>11
<1> QED
  BY <1>1, <1>2, <1>3, <1>4 DEF WebhookNext

(* Nor does it move a status back, unless requests have raced.             *)
LEMMA WebhookMovesForward ==
    ASSUME StatusInv, WebhookNext
    PROVE  /\ AloneUnlessRaced' /\ CheckIsFresh'
           /\ \A x \in Messages \ raced : Rank(row'[x].status) >= Rank(row[x].status)
<1> USE DEF StatusInv, RowsInv
<1> DEFINE Goal == /\ AloneUnlessRaced' /\ CheckIsFresh'
                   /\ \A x \in Messages \ raced : Rank(row'[x].status) >= Rank(row[x].status)
<1>0. /\ \A x \in Messages : row[x] \in Row
      /\ \A x : Rank(row[x].status) \in Nat
      /\ handler \in [Handlers -> Handler]
  BY DEF TypeOK, Rank
(* A step that starts no write and changes no row.                         *)
<1>a. ASSUME row' = row, raced' = raced,
             \A h \in Handlers, x \in Messages :
                Writing(h, x)' => Writing(h, x) /\ handler'[h].notice = handler[h].notice
      PROVE  Goal
  BY <1>0, <1>a DEF AloneUnlessRaced, CheckIsFresh
<1>1. ASSUME NEW m \in Messages, NEW status \in Verdicts, MetaReports(m, status)
      PROVE  Goal
  BY <1>a, <1>1 DEF MetaReports, Writing
<1>2. ASSUME NEW h \in Handlers, NEW n \in notices, Receive(h, n)
      PROVE  Goal
  BY <1>0, <1>a, <1>2 DEF Receive, Writing
<1>3. ASSUME NEW h \in Handlers, ReadStatus(h) PROVE Goal
  <2> DEFINE n == handler[h].notice
  <2>1. CASE raced' = raced /\ Stop(h)
    <3>1. \A g \in Handlers : handler'[g].pc = "write" => handler'[g] = handler[g]
      BY <1>0, <2>1 DEF Stop
    <3> QED
      BY <1>a, <1>3, <2>1, <3>1 DEF ReadStatus, Writing
  <2>2. CASE /\ row[n.message].known
             /\ ShouldAdvanceStatus(row[n.message].status, n.status)
             /\ handler' = [handler EXCEPT ![h].pc = "write"]
             /\ raced' = IF \E g \in Handlers : Writing(g, n.message)
                         THEN raced \cup {n.message} ELSE raced
    <3>1. /\ \A g \in Handlers : handler'[g].notice = handler[g].notice
          /\ \A g \in Handlers : g # h => handler'[g] = handler[g]
          /\ row' = row
      BY <1>0, <1>3, <2>2 DEF ReadStatus, Handler
    <3>2. \A g \in Handlers, x \in Messages :
              Writing(g, x)' => Writing(g, x) \/ (g = h /\ x = n.message)
      BY <3>1 DEF Writing
    <3>3. \A g \in Handlers : Writing(g, n.message) => n.message \in raced'
      BY <2>2
    <3>4. raced \subseteq raced'
      BY <2>2
    <3>5. AloneUnlessRaced'
      BY <3>2, <3>3, <3>4 DEF AloneUnlessRaced
    <3>6. CheckIsFresh'
      BY <2>2, <3>1, <3>2, <3>4 DEF CheckIsFresh
    <3> QED
      BY <1>0, <3>1, <3>5, <3>6
  <2> QED
    BY <1>3, <2>1, <2>2 DEF ReadStatus
<1>4. ASSUME NEW h \in Handlers, WriteStatus(h) PROVE Goal
  <2> DEFINE n == handler[h].notice
             m == n.message
  <2>1. m \in Messages /\ Writing(h, m) /\ raced' = raced
    BY <1>0, <1>4 DEF WriteStatus, Handler, Notice, Writing
  <2>2. \/ row' = row
        \/ row'[m].status = n.status /\ \A x \in Messages : x # m => row'[x] = row[x]
    BY <1>0, <1>4, <2>1 DEF WriteStatus, TypeOK, Row
  <2>3. \A g \in Handlers, x \in Messages :
            Writing(g, x)' => g # h /\ Writing(g, x) /\ handler'[g] = handler[g]
    BY <1>0, <1>4 DEF WriteStatus, Stop, Writing
  <2>4. AloneUnlessRaced'
    BY <2>1, <2>3 DEF AloneUnlessRaced
  <2>5. ASSUME NEW x \in Messages \ raced', NEW g \in Handlers, Writing(g, x)'
        PROVE  ShouldAdvanceStatus(row'[x].status, handler'[g].notice.status)
    <3>1. g # h /\ Writing(g, x) /\ handler'[g] = handler[g] /\ x \notin raced
      BY <2>1, <2>3, <2>5
    <3>2. x # m
      BY <2>1, <2>5, <3>1 DEF AloneUnlessRaced
    <3>3. row'[x] = row[x]
      BY <2>2, <3>2
    <3> QED
      BY <3>1, <3>3 DEF CheckIsFresh
  <2>6. CheckIsFresh'
    BY <2>5 DEF CheckIsFresh
  <2>7. m \notin raced => Rank(n.status) > Rank(row[m].status)
    BY <2>1 DEF CheckIsFresh, ShouldAdvanceStatus
  <2>8. Rank(n.status) \in Nat
    BY DEF Rank
  <2> QED
    BY <1>0, <2>1, <2>2, <2>4, <2>6, <2>7, <2>8
<1> QED
  BY <1>1, <1>2, <1>3, <1>4 DEF WebhookNext

(* The steps of the module by itself, and those of the replies, keep the   *)
(* rows well formed.                                                       *)
LEMMA StepRows ==
    ASSUME RowsInv, Next \/ Beside
    PROVE  RowsInv'
<1>1. CASE Beside
  <2>1. faults' \in 0..MaxFaults
    BY <1>1, StatusAssumption DEF RowsInv, TypeOK, Beside
  <2> QED
    BY <1>1, <2>1 DEF Beside, RowsInv, TypeOK, PendingIsQueued, FoundIsKnown, Pending
<1> QED
  BY <1>1, SenderKeepsKnown, WebhookKeepsRows DEF Next

LEMMA StepStatus ==
    ASSUME StatusInv, Next \/ Beside
    PROVE  /\ StatusInv'
           /\ \A x \in Messages \ raced : Rank(row'[x].status) >= Rank(row[x].status)
<1>0. RowsInv /\ RowsInv' /\ \A x \in Messages : Rank(row[x].status) \in Nat
  BY StepRows DEF StatusInv, Rank
<1>1. ASSUME NEW m \in Messages, Reserve(m) \/ SenderStep(m)
      PROVE  /\ AloneUnlessRaced' /\ CheckIsFresh'
             /\ \A x \in Messages : Rank(row'[x].status) >= Rank(row[x].status)
  <2>1. /\ handler' = handler /\ raced' = raced
        /\ \A x \in Messages : row[x].known => row'[x] = row[x]
        /\ \A x \in Messages : Rank(row'[x].status) >= Rank(row[x].status)
    BY <1>0, <1>1, SenderKeepsKnown
  <2>2. AloneUnlessRaced'
    BY <2>1 DEF StatusInv, AloneUnlessRaced, Writing
  <2>3. \A h \in Handlers, x \in Messages : Writing(h, x) => row'[x] = row[x]
    BY <1>0, <2>1 DEF RowsInv, FoundIsKnown, Writing
  <2>4. CheckIsFresh'
    BY <2>1, <2>3 DEF StatusInv, CheckIsFresh, Writing
  <2> QED
    BY <2>1, <2>2, <2>4
<1>2. CASE Beside
  BY <1>0, <1>2 DEF Beside, StatusInv, AloneUnlessRaced, CheckIsFresh, Writing
<1> QED
  BY <1>0, <1>1, <1>2, WebhookMovesForward DEF Next, StatusInv

LEMMA StepMovesForward ==
    ASSUME StatusInv, Next \/ Beside, NEW m \in Messages,
           Rank(row'[m].status) < Rank(row[m].status)
    PROVE  m \in raced
<1>1. Rank(row[m].status) \in Nat /\ Rank(row'[m].status) \in Nat
  BY DEF Rank
<1> QED
  BY <1>1, StepStatus

LEMMA RestIsBeside == RowsInv /\ UNCHANGED statusVars => Beside
  BY StatusAssumption DEF RowsInv, TypeOK, statusVars, Beside

(* What a step of the replies is to the rows.                              *)
LEMMA RepliesStepRows == RowsInv /\ [RepliesNext]_vars => Next \/ Beside
<1> SUFFICES ASSUME RowsInv, [RepliesNext]_vars PROVE Next \/ Beside
  OBVIOUS
<1> USE StatusAssumption DEF RowsInv
<1>1. ASSUME NEW m \in Messages, Request(m) PROVE Beside
  BY <1>1, RestIsBeside DEF Request
<1>2. ASSUME NEW m \in Messages, Admitted(m) PROVE Next
  BY <1>2 DEF Admitted, Next
<1>3. ASSUME NEW m \in Messages, Refused(m) PROVE Beside
  BY <1>3 DEF Refused, Beside, TypeOK
<1>4. ASSUME NEW m \in Messages, Working(m) PROVE Next
  BY <1>4 DEF Working, Next
<1>5. ASSUME NEW m \in Messages, Announce(m) PROVE Beside
  BY <1>5 DEF Announce, Beside, TypeOK
<1>6. ASSUME NEW c \in Callers, Counting(c) PROVE Beside
  BY <1>6 DEF Counting, Beside, TypeOK
<1>7. CASE Webhook
  BY <1>7 DEF Webhook, Next
<1>8. ASSUME \/ \E c \in Callers : OtherSend(c)
             \/ CustomerWrites \/ Time \/ UNCHANGED vars
      PROVE  Beside
  BY <1>8, RestIsBeside DEF OtherSend, CustomerWrites, Time, vars, statusVars
<1> QED
  BY <1>1, <1>2, <1>3, <1>4, <1>5, <1>6, <1>7, <1>8 DEF RepliesNext

LEMMA RowsHold == RepliesSpec => []RowsInv
<1>1. RepliesInit => RowsInv
  BY InitStatus DEF RepliesInit, StatusInv
<1>2. RowsInv /\ [RepliesNext]_vars => RowsInv'
  BY RepliesStepRows, StepRows
<1> QED
  BY <1>1, <1>2, PTL DEF RepliesSpec

(* A stored status goes back only when two webhook requests were about to  *)
(* write it at the same time: a repeated, reordered or late notice, the    *)
(* sender's own answer and a failed statement never do it alone, however   *)
(* many requests are served at a time, also with the replies around it.    *)
THEOREM RegressionNeedsARace == RepliesSpec => RegressesOnlyInARace
<1>1. RepliesInit => StatusInv
  BY InitStatus DEF RepliesInit
<1>2. StatusInv /\ [RepliesNext]_vars => StatusInv'
  BY RepliesStepRows, StepStatus DEF StatusInv
<1>3. StatusInv /\ [RepliesNext]_vars =>
          [\A m \in Messages :
              Rank(row'[m].status) < Rank(row[m].status) => m \in raced]_statusVars
  BY RepliesStepRows, StepMovesForward DEF StatusInv
<1> QED
  BY <1>1, <1>2, <1>3, PTL DEF RepliesSpec, RegressesOnlyInARace

(* The webhook by itself, with senders that ask nobody.                    *)
THEOREM WebhookRegressionNeedsARace == Spec => RegressesOnlyInARace
<1>1. Init => StatusInv
  BY InitStatus
<1>2. StatusInv /\ [Next]_statusVars => StatusInv'
  BY RestIsBeside, StepStatus DEF StatusInv
<1>3. StatusInv /\ [Next]_statusVars =>
          [\A m \in Messages :
              Rank(row'[m].status) < Rank(row[m].status) => m \in raced]_statusVars
  BY StepMovesForward DEF StatusInv
<1> QED
  BY <1>1, <1>2, <1>3, PTL DEF Spec, RegressesOnlyInARace

-----------------------------------------------------------------------------
(* Where Meta's reports are on their way to the row.                       *)

(* What a request carries is something Meta has reported.                  *)
NoticesAreReports ==
    /\ \A n \in notices : n.status \in meta[n.message]
    /\ \A h \in Handlers : handler[h].pc # "idle" =>
          handler[h].notice.status \in meta[handler[h].notice.message]

(* A row whose id is known shows the call's success or a report.           *)
KnownShowsReport ==
    \A m \in Messages : row[m].known =>
        /\ row[m].status \in meta[m] \cup {"sent"}
        /\ m \notin Replies => row[m].status \in row[m].stamps

(* Meta reports on messages whose id is stored or about to be.             *)
ReportedIsKnown ==
    \A m \in Messages :
        meta[m] # {} => sender[m] = "accepted" \/ row[m].known \/ faults > 0

(* A report has reached the row, or is on its way, or is known to be lost. *)
OnItsWay(m, status) ==
    LET n == [message |-> m, status |-> status] IN
    \/ n \in notices
    \/ \E h \in Handlers : handler[h].pc # "idle" /\ handler[h].notice = n

(* What became of a report in the status, unless requests raced, ...       *)
Accounted(m, status) ==
    \/ Rank(status) <= Rank(row[m].status)
    \/ OnItsWay(m, status)
    \/ m \in raced \/ m \in early \/ faults > 0

(* ... and in the time stamps of the template ledger, whether they did.    *)
Stamped(m, status) ==
    \/ m \in Replies
    \/ \E stamp \in row[m].stamps : Rank(status) <= Rank(stamp)
    \/ OnItsWay(m, status)
    \/ m \in early \/ faults > 0

NoReportForgotten ==
    \A m \in Messages : \A status \in meta[m] : Accounted(m, status) /\ Stamped(m, status)

(* "sent" is the lowest status of a known row: no request writes it.       *)
WritesNoSent ==
    \A h \in Handlers : handler[h].pc = "write" => handler[h].notice.status # "sent"

ReportsInv ==
    /\ NoticesAreReports /\ KnownShowsReport /\ WritesNoSent
    /\ ReportedIsKnown /\ NoReportForgotten

LEMMA InitReports == Init => ReportsInv
<1> SUFFICES ASSUME Init PROVE ReportsInv
  OBVIOUS
<1> QED
  BY DEF Init, ReportsInv, NoticesAreReports, KnownShowsReport, WritesNoSent, ReportedIsKnown,
         NoReportForgotten

(* What stays of a report that was accounted for before the step.          *)
LEMMA AccountedStays ==
    ASSUME NoReportForgotten, NEW m \in Messages, NEW status \in meta[m],
           RowsInv, RowsInv', early \subseteq early', raced \subseteq raced', faults' >= faults,
           m \in raced \/ Rank(row'[m].status) >= Rank(row[m].status),
           row[m].stamps \subseteq row'[m].stamps,
           OnItsWay(m, status) => OnItsWay(m, status)'
    PROVE  Accounted(m, status)' /\ Stamped(m, status)'
<1>1. Rank(status) \in Nat /\ Rank(row[m].status) \in Nat /\ Rank(row'[m].status) \in Nat
  BY DEF Rank
<1>2. faults \in Nat /\ faults' \in Nat
  BY StatusAssumption DEF RowsInv, TypeOK
<1>3. Accounted(m, status) /\ Stamped(m, status)
  BY DEF NoReportForgotten
<1>4. Accounted(m, status)'
  BY <1>1, <1>2, <1>3 DEF Accounted
<1>5. Stamped(m, status)'
  BY <1>2, <1>3 DEF Stamped
<1> QED
  BY <1>4, <1>5

LEMMA SenderKeepsReports ==
    ASSUME RowsInv, ReportsInv, NEW m \in Messages, Reserve(m) \/ SenderStep(m)
    PROVE  ReportsInv'
<1>0. /\ RowsInv'
      /\ handler' = handler /\ meta' = meta /\ notices' = notices
      /\ early' = early /\ raced' = raced
      /\ faults' >= faults
      /\ \A x \in Messages : row[x].known => row'[x] = row[x]
      /\ \A x \in Messages : /\ Rank(row'[x].status) >= Rank(row[x].status)
                             /\ row[x].stamps \subseteq row'[x].stamps
  BY SenderKeepsKnown
<1>1. /\ row \in [Messages -> Row] /\ sender \in [Messages -> {"idle", "uploading", "calling", "accepted", "marked", "done"}]
      /\ faults \in Nat /\ faults' \in Nat
      /\ meta \in [Messages -> SUBSET Verdicts]
  BY <1>0, StatusAssumption DEF RowsInv, TypeOK
<1>2. NoticesAreReports' /\ WritesNoSent'
  BY <1>0 DEF ReportsInv, NoticesAreReports, WritesNoSent
<1>3. ASSUME NEW x \in Messages, row'[x].known
      PROVE  /\ row'[x].status \in meta[x] \cup {"sent"}
             /\ x \notin Replies => row'[x].status \in row'[x].stamps
  <2>1. CASE row[x].known
    BY <1>0, <2>1 DEF ReportsInv, KnownShowsReport
  <2>2. CASE ~row[x].known
    <3>1. row[m] \in Row /\ row[x] \in Row
      BY <1>1
    <3>2. ~Reserve(m)
      BY <1>1, <1>3, <2>2, <3>1 DEF Reserve, Row
    <3>3. ~Upload(m) /\ ~Accepted(m)
      BY <1>3, <2>2 DEF Upload, Accepted
    <3>4. ~MarkFailed(m)
      BY <1>1, <1>3, <2>2, <3>1 DEF MarkFailed, Row
    <3>5. ~AnswerLost(m)
      BY <1>1, <1>3, <2>2, <3>1 DEF AnswerLost, Row
    <3>6. MarkSent(m)
      BY <3>2, <3>3, <3>4, <3>5 DEF SenderStep
    <3>7. x = m
      BY <1>1, <1>3, <2>2, <3>6 DEF MarkSent
    <3> QED
      BY <1>1, <1>3, <2>2, <3>1, <3>6, <3>7 DEF MarkSent, Row
  <2> QED
    BY <2>1, <2>2
<1>4. KnownShowsReport'
  BY <1>0, <1>3 DEF KnownShowsReport
<1>5. ASSUME NEW x \in Messages, meta[x] # {}
      PROVE  sender'[x] = "accepted" \/ row'[x].known \/ faults' > 0
  <2>1. CASE row[x].known \/ faults > 0
    BY <1>0, <1>1, <2>1
  <2>2. CASE sender[x] = "accepted" /\ x # m
    BY <1>1, <2>2 DEF Reserve, SenderStep, Upload, Accepted, MarkFailed, AnswerLost, MarkSent
  <2>3. CASE sender[x] = "accepted" /\ x = m
    <3>1. MarkSent(m) \/ AnswerLost(m)
      BY <2>3 DEF Reserve, SenderStep, Upload, Accepted, MarkFailed, RowsInv, PendingIsQueued, Pending
    <3> QED
      BY <1>1, <2>3, <3>1 DEF MarkSent, AnswerLost, Row
  <2> QED
    BY <1>5, <2>1, <2>2, <2>3 DEF ReportsInv, ReportedIsKnown
<1>6. ReportedIsKnown'
  BY <1>0, <1>5 DEF ReportedIsKnown
<1>7. ASSUME NEW x \in Messages, NEW status \in meta[x]
      PROVE  Accounted(x, status)' /\ Stamped(x, status)'
  <2>1. OnItsWay(x, status) => OnItsWay(x, status)'
    BY <1>0 DEF OnItsWay
  <2> QED
    BY <1>0, <1>7, <2>1, AccountedStays DEF ReportsInv
<1>8. NoReportForgotten'
  BY <1>0, <1>7 DEF NoReportForgotten
<1> QED
  BY <1>2, <1>4, <1>6, <1>8 DEF ReportsInv

LEMMA BesideKeepsReports ==
    ASSUME RowsInv, ReportsInv, Beside
    PROVE  ReportsInv'
<1>1. faults \in Nat /\ faults' \in Nat /\ faults' >= faults
  BY StatusAssumption DEF RowsInv, TypeOK, Beside
<1>2. NoticesAreReports' /\ KnownShowsReport' /\ WritesNoSent'
  BY DEF Beside, ReportsInv, NoticesAreReports, KnownShowsReport, WritesNoSent
<1>3. ReportedIsKnown'
  BY <1>1 DEF Beside, ReportsInv, ReportedIsKnown
<1>4. ASSUME NEW m \in Messages, NEW status \in meta[m]
      PROVE  Accounted(m, status)' /\ Stamped(m, status)'
  <2>1. OnItsWay(m, status) => OnItsWay(m, status)'
    BY DEF Beside, OnItsWay
  <2>2. row' = row /\ early' = early /\ raced' = raced
    BY DEF Beside
  <2>3. Accounted(m, status) /\ Stamped(m, status)
    BY <1>4 DEF ReportsInv, NoReportForgotten
  <2>4. Accounted(m, status)'
    BY <1>1, <2>1, <2>2, <2>3 DEF Accounted
  <2>5. Stamped(m, status)'
    BY <1>1, <2>1, <2>2, <2>3 DEF Stamped
  <2> QED
    BY <2>4, <2>5
<1>5. NoReportForgotten'
  BY <1>4 DEF Beside, NoReportForgotten
<1> QED
  BY <1>2, <1>3, <1>5 DEF ReportsInv

(* A notice is dropped only when the row is as far already, does not know  *)
(* the id yet, or a statement fails.                                       *)
LEMMA WebhookKeepsReports ==
    ASSUME StatusInv, ReportsInv, WebhookNext
    PROVE  ReportsInv'
<1>0. /\ RowsInv /\ RowsInv' /\ sender' = sender /\ raced \subseteq raced'
      /\ \A x \in Messages : /\ row'[x].known = row[x].known
                             /\ ~row[x].known => row'[x] = row[x]
                             /\ row[x].stamps \subseteq row'[x].stamps
      /\ \A x \in Messages \ raced : Rank(row'[x].status) >= Rank(row[x].status)
  BY WebhookKeepsRows, WebhookMovesForward DEF StatusInv
<1>1. /\ row \in [Messages -> Row] /\ meta \in [Messages -> SUBSET Verdicts]
      /\ notices \subseteq Notice /\ handler \in [Handlers -> Handler]
      /\ faults \in Nat /\ faults' \in Nat
  BY <1>0, StatusAssumption DEF RowsInv, TypeOK
<1>2. \A h \in Handlers : handler[h].notice.message \in Messages
  BY <1>1 DEF Handler, Notice
<1>3. ReportedIsKnown' /\ faults' >= faults /\ early \subseteq early'
      /\ \A x \in Messages : meta[x] \subseteq meta'[x]
  <2>1. /\ faults' >= faults /\ early \subseteq early'
        /\ \A x \in Messages : meta[x] \subseteq meta'[x]
        /\ \/ meta' = meta
           \/ \E m \in Messages, status \in Verdicts : MetaReports(m, status)
    <3>1. ASSUME NEW m \in Messages, NEW status \in Verdicts, MetaReports(m, status)
          PROVE  /\ UNCHANGED <<faults, early>>
                 /\ \A x \in Messages : meta[x] \subseteq meta'[x]
      BY <1>1, <3>1 DEF MetaReports
    <3>2. ASSUME NEW h \in Handlers, NEW n \in notices, Receive(h, n)
          PROVE  UNCHANGED <<faults, early, meta>>
      BY <3>2 DEF Receive
    <3>3. ASSUME NEW h \in Handlers, ReadStatus(h) \/ WriteStatus(h)
          PROVE  meta' = meta /\ early \subseteq early' /\ faults' >= faults
      BY <1>1, <3>3 DEF ReadStatus, WriteStatus
    <3> QED
      BY <1>1, <3>1, <3>2, <3>3 DEF WebhookNext
  <2>2. CASE meta' = meta
    BY <1>0, <1>1, <2>1, <2>2 DEF ReportsInv, ReportedIsKnown
  <2>3. ASSUME NEW m \in Messages, NEW status \in Verdicts, MetaReports(m, status)
        PROVE  ReportedIsKnown'
    BY <1>0, <1>1, <2>3 DEF MetaReports, ReportsInv, ReportedIsKnown
  <2> QED
    BY <2>1, <2>2, <2>3
<1>4. NoticesAreReports'
  <2>1. ASSUME NEW m \in Messages, NEW status \in Verdicts, MetaReports(m, status)
        PROVE  NoticesAreReports'
    <3>1. \A n \in notices' : n.status \in meta'[n.message]
      BY <1>1, <2>1 DEF MetaReports, ReportsInv, NoticesAreReports, Notice
    <3>2. \A h \in Handlers : handler'[h].pc # "idle" =>
              handler'[h].notice.status \in meta'[handler'[h].notice.message]
      BY <1>2, <1>3, <2>1 DEF MetaReports, ReportsInv, NoticesAreReports
    <3> QED
      BY <3>1, <3>2 DEF NoticesAreReports
  <2>2. ASSUME NEW h \in Handlers, NEW n \in notices, Receive(h, n)
        PROVE  NoticesAreReports'
    BY <1>1, <2>2 DEF Receive, ReportsInv, NoticesAreReports
  <2>3. ASSUME NEW h \in Handlers, ReadStatus(h)
        PROVE  NoticesAreReports'
    BY <1>1, <2>3 DEF ReadStatus, Stop, Handler, ReportsInv, NoticesAreReports
  <2>4. ASSUME NEW h \in Handlers, WriteStatus(h)
        PROVE  NoticesAreReports'
    BY <1>1, <2>4 DEF WriteStatus, Stop, ReportsInv, NoticesAreReports
  <2> QED
    BY <2>1, <2>2, <2>3, <2>4 DEF WebhookNext
<1>5. KnownShowsReport'
  <2>1. CASE row' = row
    BY <1>3, <2>1 DEF ReportsInv, KnownShowsReport
  <2>2. ASSUME NEW h \in Handlers, WriteStatus(h)
        PROVE  KnownShowsReport'
    <3> DEFINE n == handler[h].notice
               m == n.message
    <3>1. n.status \in meta[m] /\ m \in Messages /\ row[m].known
      BY <1>2, <2>2 DEF WriteStatus, ReportsInv, NoticesAreReports, StatusInv, RowsInv, FoundIsKnown
    <3>2. n.status # "sent"
      BY <2>2 DEF WriteStatus, ReportsInv, WritesNoSent
    <3>3. \A x \in Messages : x # m => row'[x] = row[x]
      BY <1>1, <2>2 DEF WriteStatus
    <3>4. \/ row'[m] = row[m]
          \/ /\ row'[m].status = n.status
             /\ row'[m].stamps = row[m].stamps \cup WebhookStamp(n)
      BY <1>1, <2>2, <3>1 DEF WriteStatus, Row
    <3>5. meta' = meta
      BY <2>2 DEF WriteStatus
    <3>6. /\ row'[m].status \in meta'[m] \cup {"sent"}
          /\ m \notin Replies => row'[m].status \in row'[m].stamps
      BY <3>1, <3>2, <3>4, <3>5 DEF WebhookStamp, ReportsInv, KnownShowsReport
    <3> QED
      BY <1>0, <3>3, <3>5, <3>6 DEF ReportsInv, KnownShowsReport
  <2> QED
    BY <2>1, <2>2 DEF WebhookNext, MetaReports, Receive, ReadStatus
<1>7. WritesNoSent'
  <2>1. ASSUME NEW h \in Handlers, ReadStatus(h) PROVE WritesNoSent'
    <3> DEFINE n == handler[h].notice
    <3>1. ASSUME row[n.message].known, ShouldAdvanceStatus(row[n.message].status, n.status)
          PROVE  n.status # "sent"
      <4>1. row[n.message].status \in Verdicts
        BY <1>1, <1>2, <3>1 DEF ReportsInv, KnownShowsReport, Verdicts
      <4> QED
        BY <3>1, <4>1 DEF ShouldAdvanceStatus, Rank, Verdicts
    <3> QED
      BY <1>1, <2>1, <3>1 DEF ReadStatus, Stop, Handler, ReportsInv, WritesNoSent
  <2>2. ASSUME NEW h \in Handlers, WriteStatus(h) PROVE WritesNoSent'
    BY <1>1, <2>2 DEF WriteStatus, Stop, Handler, ReportsInv, WritesNoSent
  <2>3. ASSUME NEW h \in Handlers, NEW n \in notices, Receive(h, n) PROVE WritesNoSent'
    BY <1>1, <2>3 DEF Receive, ReportsInv, WritesNoSent
  <2> QED
    BY <2>1, <2>2, <2>3 DEF WebhookNext, MetaReports, ReportsInv, WritesNoSent
<1>6. NoReportForgotten'
  <2> DEFINE Kept(x, status) == Accounted(x, status)' /\ Stamped(x, status)'
  <2>1. ASSUME NEW x \in Messages, NEW status \in meta[x],
               OnItsWay(x, status) => OnItsWay(x, status)'
        PROVE  Kept(x, status)
    BY <1>0, <1>3, <2>1, AccountedStays DEF ReportsInv
  <2>2. ASSUME NEW m \in Messages, NEW verdict \in Verdicts, MetaReports(m, verdict),
               NEW x \in Messages, NEW status \in meta'[x]
        PROVE  Kept(x, status)
    <3>1. CASE status \in meta[x]
      <4>1. OnItsWay(x, status) => OnItsWay(x, status)'
        BY <2>2 DEF MetaReports, OnItsWay
      <4> QED
        BY <2>1, <3>1, <4>1
    <3>2. CASE status \notin meta[x]
      <4>1. x = m /\ status = verdict
        BY <1>1, <2>2, <3>2 DEF MetaReports
      <4> QED
        BY <2>2, <4>1 DEF MetaReports, OnItsWay, Accounted, Stamped
    <3> QED
      BY <3>1, <3>2
  <2>3. ASSUME NEW h \in Handlers, NEW n \in notices, Receive(h, n),
               NEW x \in Messages, NEW status \in meta'[x]
        PROVE  Kept(x, status)
    <3>1. status \in meta[x]
      BY <2>3 DEF Receive
    <3>2. OnItsWay(x, status) => OnItsWay(x, status)'
      BY <1>1, <2>3 DEF Receive, OnItsWay
    <3> QED
      BY <2>1, <3>1, <3>2
  <2>4. ASSUME NEW h \in Handlers, ReadStatus(h) \/ WriteStatus(h),
               NEW x \in Messages, NEW status \in meta'[x]
        PROVE  Kept(x, status)
    <3> DEFINE n == handler[h].notice
    <3>0. status \in meta[x]
      BY <2>4 DEF ReadStatus, WriteStatus
    <3>1. CASE n # [message |-> x, status |-> status] \/ handler'[h].pc = "write"
      <4>1. OnItsWay(x, status) => OnItsWay(x, status)'
        BY <1>1, <2>4, <3>1 DEF ReadStatus, WriteStatus, Stop, OnItsWay, Handler
      <4> QED
        BY <2>1, <3>0, <4>1
    <3>2. CASE n = [message |-> x, status |-> status] /\ handler'[h].pc # "write"
      <4>0. /\ Rank(status) \in Nat /\ Rank(row[x].status) \in Nat
            /\ handler[h].notice.message = x /\ handler[h].notice.status = status
            /\ status \in Verdicts /\ row[x] \in Row
        BY <1>1, <3>0, <3>2 DEF Rank
      <4>1. CASE x \in early' \/ faults' > 0
        BY <4>1 DEF Accounted, Stamped
      <4>2. CASE /\ row[x].known /\ row' = row
                 /\ ~ShouldAdvanceStatus(row[x].status, status)
        <5>1. Rank(status) <= Rank(row'[x].status)
          BY <4>0, <4>2 DEF ShouldAdvanceStatus
        <5>2. x \notin Replies => row'[x].status \in row'[x].stamps
          BY <4>2 DEF ReportsInv, KnownShowsReport
        <5> QED
          BY <5>1, <5>2 DEF Accounted, Stamped
      <4>3. CASE /\ handler[h].pc = "write"
                 /\ row'[x].status = status
                 /\ row'[x].stamps = row[x].stamps \cup WebhookStamp(n)
        <5>1. Rank(status) <= Rank(status)
          BY <4>0
        <5>2. x \notin Replies => status \in row'[x].stamps
          BY <4>0, <4>3 DEF WebhookStamp, ReportsInv, WritesNoSent
        <5> QED
          BY <4>3, <5>1, <5>2 DEF Accounted, Stamped
      <4>4. CASE ReadStatus(h)
        <5>1. \/ x \in early' \/ faults' > 0
              \/ row[x].known /\ ~ShouldAdvanceStatus(row[x].status, status)
          BY <1>1, <3>2, <4>0, <4>4 DEF ReadStatus, Handler
        <5>2. row' = row
          BY <4>4 DEF ReadStatus
        <5> QED
          BY <4>1, <4>2, <5>1, <5>2
      <4>5. CASE WriteStatus(h)
        BY <1>1, <4>0, <4>1, <4>3, <4>5 DEF WriteStatus, Row
      <4> QED
        BY <2>4, <4>4, <4>5
    <3> QED
      BY <3>1, <3>2
  <2> QED
    BY <2>2, <2>3, <2>4 DEF WebhookNext, NoReportForgotten
<1> QED
  BY <1>3, <1>4, <1>5, <1>6, <1>7 DEF ReportsInv

LEMMA StepReports ==
    ASSUME StatusInv, ReportsInv, Next \/ Beside
    PROVE  ReportsInv'
  BY SenderKeepsReports, BesideKeepsReports, WebhookKeepsReports DEF Next, StatusInv

(* Once nothing of a message is under way, what Meta reported last is what *)
(* its row shows, or at least what its time stamps do.                     *)
LEMMA QuietIsUpToDate ==
    RowsInv /\ ReportsInv => FurthestStatusShown /\ FurthestStatusStamped
<1> SUFFICES ASSUME RowsInv, ReportsInv,
                    NEW m \in Messages, Quiet(m), NEW status \in meta[m]
             PROVE  /\ m \notin raced => Rank(status) <= Rank(row[m].status)
                    /\ row[m].status \in meta[m] \cup {"sent"}
                    /\ m \notin Replies => row[m].status \in row[m].stamps
                    /\ m \notin Replies => \E stamp \in row[m].stamps : Rank(status) <= Rank(stamp)
  BY DEF FurthestStatusShown, FurthestStatusStamped
<1>1. row[m].known
  BY DEF Quiet, ReportsInv, ReportedIsKnown
<1>2. ~OnItsWay(m, status)
  BY DEF Quiet, OnItsWay
<1> QED
  BY <1>1, <1>2 DEF Quiet, ReportsInv, KnownShowsReport, NoReportForgotten, Accounted, Stamped

LEMMA ReportsHold == RepliesSpec => [](RowsInv /\ ReportsInv)
<1>1. RepliesInit => StatusInv /\ ReportsInv
  BY InitStatus, InitReports DEF RepliesInit
<1>2. StatusInv /\ ReportsInv /\ [RepliesNext]_vars => (StatusInv /\ ReportsInv)'
  BY RepliesStepRows, StepStatus, StepReports DEF StatusInv
<1>3. StatusInv /\ ReportsInv => RowsInv /\ ReportsInv
  BY DEF StatusInv
<1> QED
  BY <1>1, <1>2, <1>3, PTL DEF RepliesSpec

(* When Meta's notices have been handled, in whatever order, however often *)
(* they came and however many requests were served at a time, a row shows  *)
(* the furthest status Meta reported, and a template's row its time stamp, *)
(* unless two requests were about to write it at once.                     *)
THEOREM RowsShowTheFurthest == RepliesSpec => []FurthestStatusShown
  BY ReportsHold, QuietIsUpToDate, PTL

(* In the template ledger the time stamps tell how far the message got     *)
(* even after a race.                                                      *)
THEOREM StampsShowTheFurthest == RepliesSpec => []FurthestStatusStamped
  BY ReportsHold, QuietIsUpToDate, PTL

-----------------------------------------------------------------------------
(* The conversation: what it shows is a reply that was sent, or what the   *)
(* customer wrote.                                                         *)
ConversationTyped ==
    /\ window \in BOOLEAN
    /\ preview \in Replies \cup {FromCustomer}
    /\ \A m \in Messages : sender[m] = "marked" => m \in Replies

LEMMA ConversationStep ==
    RowsInv /\ ConversationTyped /\ [RepliesNext]_vars => ConversationTyped'
<1> SUFFICES ASSUME RowsInv, ConversationTyped, [RepliesNext]_vars
             PROVE  ConversationTyped'
  OBVIOUS
<1> USE DEF ConversationTyped
<1>0. sender \in [Messages -> {"idle", "uploading", "calling", "accepted", "marked", "done"}]
  BY DEF RowsInv, TypeOK
<1>1. ASSUME UNCHANGED replyVars,
             \A m \in Messages : sender'[m] = "marked" => sender[m] = "marked" \/ m \in Replies
      PROVE  ConversationTyped'
  BY <1>1 DEF replyVars
<1>2. ASSUME NEW m \in Messages, Request(m) \/ Refused(m) PROVE ConversationTyped'
  <2>1. UNCHANGED replyVars /\ UNCHANGED sender
    BY <1>2 DEF Request, Refused, statusVars
  <2> QED
    BY <1>1, <2>1
<1>3. ASSUME NEW m \in Messages, Admitted(m) PROVE ConversationTyped'
  <2>1. UNCHANGED replyVars /\ Reserve(m)
    BY <1>3 DEF Admitted
  <2> QED
    BY <1>0, <1>1, <2>1 DEF Reserve
<1>4. ASSUME NEW m \in Messages, Working(m) PROVE ConversationTyped'
  <2>1. UNCHANGED replyVars /\ SenderStep(m)
    BY <1>4 DEF Working
  <2>2. \A n \in Messages : sender'[n] = "marked" => sender[n] = "marked" \/ n \in Replies
    BY <1>0, <2>1 DEF SenderStep, Upload, Accepted, MarkSent, MarkFailed, AnswerLost
  <2> QED
    BY <1>1, <2>1, <2>2
<1>5. ASSUME NEW m \in Messages, Announce(m) PROVE ConversationTyped'
  BY <1>0, <1>5 DEF Announce
<1>6. ASSUME NEW c \in Callers, Counting(c) \/ OtherSend(c) PROVE ConversationTyped'
  BY <1>1, <1>6 DEF Counting, OtherSend, statusVars
<1>7. CASE Webhook
  <2>1. UNCHANGED replyVars /\ UNCHANGED sender
    BY <1>7 DEF Webhook, WebhookNext, MetaReports, Receive, ReadStatus, WriteStatus
  <2> QED
    BY <1>1, <2>1
<1>8. CASE CustomerWrites \/ Time
  BY <1>8 DEF CustomerWrites, Time, statusVars, replyVars
<1>9. CASE UNCHANGED vars
  BY <1>9 DEF vars, statusVars, replyVars
<1> QED
  BY <1>2, <1>3, <1>4, <1>5, <1>6, <1>7, <1>8, <1>9 DEF RepliesNext

(* Rows, requests, senders, the counts of the budget and the conversation  *)
(* keep their types: a preview is written by a reply that was sent or by   *)
(* the customer, never by a template.                                      *)
THEOREM RepliesTypes == RepliesSpec => []RepliesTypeOK
<1>1. RepliesInit => ConversationTyped
  BY DEF RepliesInit, Init, ConversationTyped
<1>2. RowsInv /\ QuotaInv /\ ConversationTyped => RepliesTypeOK
  BY DEF RowsInv, QuotaInv, ConversationTyped, RepliesTypeOK
<1> QED
  BY <1>1, <1>2, ConversationStep, RowsHold, RepliesShareTheBudget, QuotaInvariant, PTL
  DEF RepliesSpec

=============================================================================
