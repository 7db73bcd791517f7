----------------------- MODULE DeliveryTrackingProofs -----------------------
(***************************************************************************)
(* For any number of shops, of barcodes they may share, of connections, and*)
(* of sweeps and socket events at a time: whatever status a row holds has  *)
(* been handed to the automations or is about to be, unless a call failed  *)
(* or a process died, and a courier once known is not lost again.          *)
(***************************************************************************)
EXTENDS DeliveryTracking, TLAPS

-----------------------------------------------------------------------------

(* An observer that has an answer has one of the carrier's statuses.       *)
AnswersAreStatuses ==
    \A o \in Observers :
        observer[o].pc \in {"record", "report"} => observer[o].status \in Statuses

(* A parcel that is not watched has no row, and so no status and no courier.*)
UnwatchedHasNoRow == \A p \in Parcels : ~parcel[p].tracked => parcel[p] = NoRow

TrackingInv == TypeOK /\ AnswersAreStatuses /\ UnwatchedHasNoRow /\ ReportOwed

-----------------------------------------------------------------------------

LEMMA IdleIsObserver == Idle \in Observer /\ Idle.pc = "idle"
<1>1. (CHOOSE p \in Parcels : TRUE) \in Parcels
  <2>1. PICK s \in Shops, b \in Barcodes : TRUE
    BY TrackingAssumption
  <2>2. <<s, b>> \in Parcels
    BY DEF Parcels
  <2> QED
    BY <2>2
<1> QED
  BY <1>1 DEF Idle, Observer, Steps, Stored

LEMMA NoRowIsRow == NoRow \in Row
  BY TrackingAssumption DEF NoRow, Row, Stored

LEMMA InitTracking == Init => TrackingInv
<1> SUFFICES ASSUME Init PROVE TrackingInv
  OBVIOUS
<1> USE TrackingAssumption
<1>1. TypeOK
  BY IdleIsObserver, NoRowIsRow DEF Init, TypeOK, Carrier
<1>2. AnswersAreStatuses
  BY IdleIsObserver DEF Init, AnswersAreStatuses
<1>3. UnwatchedHasNoRow
  BY DEF Init, UnwatchedHasNoRow
<1>4. ReportOwed
  BY DEF Init, ReportOwed, NoRow
<1> QED
  BY <1>1, <1>2, <1>3, <1>4 DEF TrackingInv

(* A write that keeps the row's status, its courier, or both.              *)
LEMMA WriteIsTyped ==
    ASSUME TrackingInv, NEW p \in Parcels, NEW new \in Row, new.tracked = parcel[p].tracked,
           Write(p, new)
    PROVE  /\ parcel' \in [Parcels -> Row] /\ UnwatchedHasNoRow'
           /\ \A q \in Parcels : parcel'[q] = parcel[q] \/ (q = p /\ parcel'[q] = new)
<1>1. parcel \in [Parcels -> Row]
  BY DEF TrackingInv, TypeOK
<1>2. /\ parcel' \in [Parcels -> Row]
      /\ \A q \in Parcels : parcel'[q] = parcel[q] \/ (q = p /\ parcel'[q] = new)
  BY <1>1 DEF Write
<1>3. ASSUME NEW q \in Parcels, ~parcel'[q].tracked PROVE parcel'[q] = NoRow
  <2>1. CASE parcel[p].tracked
    <3>1. q # p
      BY <1>1, <1>3, <2>1 DEF Write
    <3> QED
      BY <1>1, <1>3, <2>1, <3>1 DEF Write, TrackingInv, UnwatchedHasNoRow
  <2>2. CASE ~parcel[p].tracked
    BY <1>3, <2>2 DEF Write, TrackingInv, UnwatchedHasNoRow
  <2> QED
    BY <2>1, <2>2
<1> QED
  BY <1>2, <1>3 DEF UnwatchedHasNoRow

(* A status the automations know of they still know of, when the observers *)
(* that are about to report still are.                                     *)
LEMMA KnownStays ==
    ASSUME NEW p \in Parcels, NEW status \in Statuses, Known(p, status),
           reported' = reported,
           \A o \in Observers : observer[o].pc = "report" => observer'[o] = observer[o]
    PROVE  Known(p, status)'
  BY DEF Known, Of

(* A step after which each row has the status it had, or none of the       *)
(* carrier's, and which stops nobody from reporting.                       *)
LEMMA QuietStep ==
    ASSUME TrackingInv, faults \in Nat, faults' \in Nat, faults' >= faults,
           reported' = reported,
           \A p \in Parcels : parcel'[p].last = parcel[p].last \/ parcel'[p].last \notin Statuses,
           \/ faults' > faults
           \/ \A o \in Observers : observer[o].pc = "report" => observer'[o] = observer[o]
    PROVE  ReportOwed'
<1> SUFFICES ASSUME NEW p \in Parcels, NEW status \in Statuses, parcel'[p].last = status
             PROVE  Known(p, status)' \/ faults' > 0
  BY DEF ReportOwed
<1>1. Known(p, status) \/ faults > 0
  BY DEF TrackingInv, ReportOwed
<1> QED
  BY <1>1, KnownStays

(* recordTransition: the answer is stored, or known to be in the row.      *)
LEMMA RecordKeepsTracking ==
    ASSUME TrackingInv, NEW o \in Observers, RecordTransition(o)
    PROVE  /\ TrackingInv'
           /\ \A p \in Parcels : parcel[p].driver => parcel'[p].driver
<1> DEFINE p   == Of(o)
           new == IF observer[o].prev # observer[o].status
                  THEN [parcel[p] EXCEPT !.last = observer[o].status,
                                         !.driver = @ \/ observer[o].driver,
                                         !.missing = 0]
                  ELSE IF observer[o].driver THEN [parcel[p] EXCEPT !.driver = TRUE]
                  ELSE [parcel[p] EXCEPT !.missing = 0]
<1>1. /\ p \in Parcels /\ parcel[p] \in Row /\ observer[o] \in Observer
      /\ observer[o].pc = "record" /\ observer[o].status \in Statuses
      /\ observer \in [Observers -> Observer] /\ parcel \in [Parcels -> Row]
  BY DEF TrackingInv, TypeOK, Of, Observer, RecordTransition, AnswersAreStatuses
<1>2. /\ new \in Row /\ new.tracked = parcel[p].tracked
      /\ parcel[p].driver => new.driver
  <2>1. 0 \in 0..Misses
    BY TrackingAssumption
  <2> QED
    BY <1>1, <2>1 DEF Row, Observer
<1>3. /\ UNCHANGED <<accounts, carrier, pushes, moves, reported>>
      /\ streak' = [streak EXCEPT ![p] = 0]
      /\ \/ /\ Write(p, new) /\ UNCHANGED faults
            /\ \/ observer' = [observer EXCEPT ![o].pc = "report"]
               \/ /\ observer' = [observer EXCEPT ![o] = Idle]
                  /\ observer[o].prev = observer[o].status
         \/ /\ faults' = faults + 1 /\ faults' \in 0..MaxFaults /\ UNCHANGED parcel
            /\ observer' = [observer EXCEPT ![o] = Idle]
  BY TrackingAssumption
  DEF RecordTransition, AttachDriver, TouchTracked, UpdateTrackedStatus, Fails, Stop, Of,
      TrackingInv, TypeOK
<1> HIDE DEF p, new
<1>4. /\ parcel' \in [Parcels -> Row] /\ UnwatchedHasNoRow'
      /\ \A q \in Parcels : parcel'[q] = parcel[q] \/ (q = p /\ parcel'[q] = new)
  <2>1. CASE Write(p, new)
    BY <1>1, <1>2, <2>1, WriteIsTyped
  <2>2. CASE parcel' = parcel
    BY <1>1, <2>2 DEF TrackingInv, UnwatchedHasNoRow
  <2> QED
    BY <1>3, <2>1, <2>2
<1>5. /\ observer' \in [Observers -> Observer]
      /\ \A x \in Observers : x # o => observer'[x] = observer[x]
      /\ \/ /\ observer'[o].pc = "report" /\ observer'[o].status = observer[o].status
            /\ observer'[o].parcel = p
         \/ observer'[o].pc = "idle"
  BY <1>1, <1>3, IdleIsObserver DEF Observer, Steps, p, Of
<1>6. TypeOK'
  <2>1. streak \in [Parcels -> 0..Misses] /\ 0 \in 0..Misses
    BY TrackingAssumption DEF TrackingInv, TypeOK
  <2>2. streak' \in [Parcels -> 0..Misses]
    BY <1>3, <2>1
  <2>3. faults' \in 0..MaxFaults
    BY <1>3 DEF TrackingInv, TypeOK
  <2> QED
    BY <1>3, <1>4, <1>5, <2>2, <2>3 DEF TrackingInv, TypeOK, accounts
<1>7. AnswersAreStatuses'
  BY <1>1, <1>5 DEF TrackingInv, AnswersAreStatuses
<1>8. ReportOwed'
  <2> SUFFICES ASSUME NEW q \in Parcels, NEW status \in Statuses, parcel'[q].last = status
               PROVE  Known(q, status)' \/ faults' > 0
    BY DEF ReportOwed
  <2>0. faults \in Nat /\ faults' \in Nat /\ faults' >= faults
    BY <1>3, TrackingAssumption DEF TrackingInv, TypeOK
  <2>1. CASE parcel'[q].last = parcel[q].last
    <3>1. Known(q, status) \/ faults > 0
      BY <2>1 DEF TrackingInv, ReportOwed
    <3>2. \A x \in Observers : observer[x].pc = "report" => observer'[x] = observer[x]
      BY <1>1, <1>5
    <3> QED
      BY <1>3, <2>0, <3>1, <3>2, KnownStays
  <2>2. CASE parcel'[q].last # parcel[q].last
    <3>1. q = p /\ parcel'[q] = new
      BY <1>4, <2>2
    <3>2. new.last = observer[o].status /\ observer[o].prev # observer[o].status
      BY <1>1, <2>2, <3>1 DEF new, Row
    <3>3. parcel' # parcel
      BY <2>2
    <3>4. observer' = [observer EXCEPT ![o].pc = "report"]
      BY <1>3, <3>2, <3>3
    <3>5. observer'[o].pc = "report" /\ observer'[o].status = status /\ observer'[o].parcel = q
      BY <1>1, <3>1, <3>2, <3>4 DEF Observer, p, Of
    <3> QED
      BY <3>5 DEF Known, Of
  <2> QED
    BY <2>1, <2>2
<1> QED
  BY <1>2, <1>4, <1>6, <1>7, <1>8 DEF TrackingInv

(* onChanged: what was about to be reported has been, or a call failed.    *)
LEMMA ReportKeepsTracking ==
    ASSUME TrackingInv, NEW o \in Observers, Report(o)
    PROVE  TrackingInv' /\ UNCHANGED parcel
<1> DEFINE p == Of(o)
           s == observer[o].status
<1>1. /\ p \in Parcels /\ s \in Statuses /\ observer[o].pc = "report"
      /\ observer \in [Observers -> Observer]
      /\ reported \in [Parcels -> SUBSET Statuses]
      /\ faults \in Nat
  BY TrackingAssumption DEF TrackingInv, TypeOK, Of, Observer, Report, AnswersAreStatuses
<1>2. /\ UNCHANGED <<accounts, parcel, carrier, pushes, moves, streak>>
      /\ observer' = [observer EXCEPT ![o] = Idle]
      /\ \/ /\ parcel[p].tracked /\ faults' = faults
            /\ reported' = [reported EXCEPT ![p] = @ \cup {s}]
         \/ ~parcel[p].tracked /\ UNCHANGED <<reported, faults>>
         \/ UNCHANGED reported /\ faults' = faults + 1
      /\ faults' \in 0..MaxFaults
  BY TrackingAssumption DEF Report, HandOn, Fails, Stop, Of, TrackingInv, TypeOK
<1> HIDE DEF p, s
<1>3. /\ reported' \in [Parcels -> SUBSET Statuses]
      /\ \A q \in Parcels : reported[q] \subseteq reported'[q]
      /\ parcel[p].tracked /\ faults' = faults => s \in reported'[p]
  <2>1. CASE reported' = [reported EXCEPT ![p] = @ \cup {s}]
    BY <1>1, <2>1
  <2>2. CASE reported' = reported
    BY <1>1, <1>2, <2>2
  <2> QED
    BY <1>1, <1>2, <2>1, <2>2
<1>4. /\ observer' \in [Observers -> Observer] /\ observer'[o].pc = "idle"
      /\ \A x \in Observers : x # o => observer'[x] = observer[x]
  BY <1>1, <1>2, IdleIsObserver
<1>5. TypeOK'
  BY <1>2, <1>3, <1>4 DEF TrackingInv, TypeOK, accounts
<1>6. AnswersAreStatuses' /\ UnwatchedHasNoRow'
  BY <1>2, <1>4 DEF TrackingInv, AnswersAreStatuses, UnwatchedHasNoRow
<1>7. ReportOwed'
  <2> SUFFICES ASSUME NEW q \in Parcels, NEW status \in Statuses, parcel[q].last = status,
                      faults' = faults
               PROVE  Known(q, status)' \/ faults > 0
    BY <1>1, <1>2 DEF ReportOwed
  <2>1. Known(q, status) \/ faults > 0
    BY DEF TrackingInv, ReportOwed
  <2>2. CASE q = p /\ status = s
    <3>1. parcel[p].tracked
      BY <2>2, TrackingAssumption DEF TrackingInv, UnwatchedHasNoRow, NoRow
    <3> QED
      BY <1>3, <2>2, <3>1 DEF Known
  <2>3. CASE ~(q = p /\ status = s)
    BY <1>3, <1>4, <2>1, <2>3 DEF Known, Of, p, s
  <2> QED
    BY <2>2, <2>3
<1> QED
  BY <1>2, <1>5, <1>6, <1>7 DEF TrackingInv

(* MarkMissingUpstream: a row only leaves the carrier's statuses.          *)
LEMMA MissKeepsTracking ==
    ASSUME TrackingInv, NEW o \in Observers, MarkMissingUpstream(o)
    PROVE  /\ TrackingInv'
           /\ \A p \in Parcels : parcel[p].driver => parcel'[p].driver
<1> DEFINE p   == Of(o)
           n   == parcel[p].missing + 1
           new == [parcel[p] EXCEPT !.missing = IF n > Misses THEN Misses ELSE n,
                                    !.last = IF n >= Misses THEN Removed ELSE @]
<1>1. /\ p \in Parcels /\ parcel[p] \in Row /\ parcel \in [Parcels -> Row]
      /\ observer \in [Observers -> Observer] /\ observer[o].pc = "miss"
      /\ streak \in [Parcels -> 0..Misses]
      /\ faults \in Nat
  BY TrackingAssumption DEF TrackingInv, TypeOK, Of, Observer, MarkMissingUpstream
<1>2. /\ new \in Row /\ new.tracked = parcel[p].tracked /\ new.driver = parcel[p].driver
      /\ new.last = parcel[p].last \/ new.last \notin Statuses
  <2>1. parcel[p].missing \in 0..Misses /\ Misses \in Nat
    BY <1>1, TrackingAssumption DEF Row
  <2>2. (IF n > Misses THEN Misses ELSE n) \in 0..Misses
    BY <2>1
  <2>3. Removed \notin Statuses
    BY TrackingAssumption
  <2> HIDE DEF n
  <2> QED
    BY <1>1, <2>2, <2>3 DEF Row, Stored
<1>3. /\ UNCHANGED <<accounts, carrier, pushes, moves, reported>>
      /\ observer' = [observer EXCEPT ![o] = Idle]
      /\ \/ Write(p, new) /\ faults' = faults
         \/ UNCHANGED parcel /\ faults' = faults + 1
      /\ faults' \in 0..MaxFaults
  BY TrackingAssumption DEF MarkMissingUpstream, Fails, Stop, TrackingInv, TypeOK
<1>4. streak' \in [Parcels -> 0..Misses]
  BY <1>1, TrackingAssumption DEF MarkMissingUpstream
<1> HIDE DEF p, new
<1>5. /\ parcel' \in [Parcels -> Row] /\ UnwatchedHasNoRow'
      /\ \A q \in Parcels : parcel'[q] = parcel[q] \/ (q = p /\ parcel'[q] = new)
  <2>1. CASE Write(p, new)
    BY <1>1, <1>2, <2>1, WriteIsTyped
  <2>2. CASE parcel' = parcel
    BY <1>1, <2>2 DEF TrackingInv, UnwatchedHasNoRow
  <2> QED
    BY <1>3, <2>1, <2>2
<1>6. /\ observer' \in [Observers -> Observer]
      /\ \A x \in Observers : observer'[x] = observer[x] \/ (x = o /\ observer'[x].pc = "idle")
  BY <1>1, <1>3, IdleIsObserver
<1>7. TypeOK'
  BY <1>3, <1>4, <1>5, <1>6 DEF TrackingInv, TypeOK, accounts
<1>8. AnswersAreStatuses'
  BY <1>6 DEF TrackingInv, AnswersAreStatuses
<1>9. ReportOwed'
  BY <1>1, <1>2, <1>3, <1>5, <1>6, QuietStep
<1> QED
  BY <1>2, <1>5, <1>7, <1>8, <1>9 DEF TrackingInv

(* The carrier, the watch list, and the steps that only read.              *)
LEMMA OthersKeepTracking ==
    ASSUME TrackingInv,
           \/ \E b \in Barcodes : CarrierActs(b)
           \/ \E s \in Shops : SaveIntegration(s) \/ DeleteIntegration(s)
           \/ \E p \in Parcels : Track(p) \/ RemoveTracked(p)
           \/ \E e \in pushes : LosePush(e)
           \/ \E o \in Pollers, c \in Shops, b \in Barcodes : Poll(o, c, b)
           \/ \E o \in Sockets, e \in pushes : SocketEvent(o, e)
           \/ \E o \in Observers : GetOrders(o) \/ Crash(o)
           \/ UNCHANGED trackingVars
    PROVE  /\ TrackingInv'
           /\ \A p \in Parcels : parcel[p].driver /\ parcel'[p].tracked => parcel'[p].driver
<1> DEFINE Kept == \A p \in Parcels : parcel[p].driver /\ parcel'[p].tracked => parcel'[p].driver
<1>0. /\ parcel \in [Parcels -> Row] /\ carrier \in [Barcodes -> Carrier] /\ pushes \subseteq Push
      /\ observer \in [Observers -> Observer] /\ moves \in Nat /\ faults \in Nat
      /\ streak \in [Parcels -> 0..Misses] /\ reported \in [Parcels -> SUBSET Statuses]
      /\ 0 \in 0..Misses /\ MaxMoves \in Nat /\ MaxFaults \in Nat
  BY TrackingAssumption DEF TrackingInv, TypeOK
<1>1. ASSUME NEW b \in Barcodes, CarrierActs(b) PROVE TrackingInv' /\ Kept
  <2>1. TypeOK'
    <3>0. carrier[b] \in Carrier
      BY <1>0
    <3>1. ASSUME NEW s \in Statuses, NEW d \in BOOLEAN,
                 carrier' = [carrier EXCEPT ![b].status = s, ![b].driver = d],
                 pushes' = pushes \cup {[barcode |-> b, status |-> s, driver |-> d]}
          PROVE  carrier' \in [Barcodes -> Carrier] /\ pushes' \subseteq Push
      <4>1. [carrier[b] EXCEPT !.status = s, !.driver = d] \in Carrier
        BY <3>0 DEF Carrier
      <4>2. carrier' = [carrier EXCEPT ![b] = [carrier[b] EXCEPT !.status = s, !.driver = d]]
        BY <1>0, <3>1
      <4>3. carrier' \in [Barcodes -> Carrier]
        BY <1>0, <4>1, <4>2
      <4>4. [barcode |-> b, status |-> s, driver |-> d] \in Push
        BY DEF Push
      <4> QED
        BY <1>0, <3>1, <4>3, <4>4
    <3>2. ASSUME carrier' = [carrier EXCEPT ![b].listed = ~@], pushes' = pushes
          PROVE  carrier' \in [Barcodes -> Carrier] /\ pushes' \subseteq Push
      BY <1>0, <3>0, <3>2 DEF Carrier
    <3>a. carrier' \in [Barcodes -> Carrier] /\ pushes' \subseteq Push
      BY <1>1, <3>1, <3>2 DEF CarrierActs
    <3>3. moves' \in 0..MaxMoves
      BY <1>0, <1>1 DEF CarrierActs
    <3>4. UNCHANGED <<accounts, parcel, observer, faults, reported, streak>>
      BY <1>1 DEF CarrierActs
    <3> QED
      BY <3>3, <3>4, <3>a DEF TrackingInv, TypeOK, accounts
  <2>2. AnswersAreStatuses' /\ UnwatchedHasNoRow' /\ ReportOwed'
    BY <1>1, TrackingAssumption DEF CarrierActs, TrackingInv, AnswersAreStatuses, UnwatchedHasNoRow, ReportOwed,
       Known, Of
  <2> QED
    BY <1>1, <2>1, <2>2 DEF CarrierActs, TrackingInv
<1>2. ASSUME NEW p \in Parcels, Track(p) \/ RemoveTracked(p) PROVE TrackingInv' /\ Kept
  <2> DEFINE new == [NoRow EXCEPT !.tracked = TRUE]
  <2>1. /\ new \in Row /\ new.tracked /\ ~NoRow.tracked
        /\ new.last \notin Statuses /\ NoRow.last \notin Statuses
    BY NoRowIsRow, TrackingAssumption DEF NoRow, Row
  <2>2. parcel' = [parcel EXCEPT ![p] = new] \/ parcel' = [parcel EXCEPT ![p] = NoRow]
    BY <1>2 DEF Track, RemoveTracked
  <2> HIDE DEF new
  <2>3. /\ parcel' \in [Parcels -> Row] /\ UnwatchedHasNoRow'
        /\ parcel'[p].last \notin Statuses
        /\ \A q \in Parcels : q # p => parcel'[q] = parcel[q]
    BY <1>0, <2>1, <2>2, NoRowIsRow DEF TrackingInv, UnwatchedHasNoRow
  <2>4. /\ UNCHANGED <<accounts, carrier, pushes, observer, moves, faults>>
        /\ streak' \in [Parcels -> 0..Misses]
        /\ reported' \in [Parcels -> SUBSET Statuses]
        /\ \A q \in Parcels : q # p => reported'[q] = reported[q]
    BY <1>0, <1>2 DEF Track, RemoveTracked, Forget
  <2>5. TypeOK'
    BY <2>3, <2>4 DEF TrackingInv, TypeOK, accounts
  <2>6. AnswersAreStatuses'
    BY <2>4 DEF TrackingInv, AnswersAreStatuses
  <2>7. ReportOwed'
    BY <2>3, <2>4 DEF TrackingInv, ReportOwed, Known, Of
  <2>8. ~(parcel[p].driver /\ parcel'[p].tracked)
    BY <1>0, <1>2 DEF Track, RemoveTracked, NoRow, TrackingInv, UnwatchedHasNoRow
  <2> QED
    BY <2>3, <2>5, <2>6, <2>7, <2>8 DEF TrackingInv
<1>3. ASSUME parcel' = parcel, reported' = reported, UNCHANGED <<carrier, moves, streak>>,
             connectedAt' \in [Shops -> 0..MaxSaves], saves' \in 0..MaxSaves,
             pushes' \subseteq Push, observer' \in [Observers -> Observer],
             faults' \in 0..MaxFaults, faults' >= faults,
             \A o \in Observers : observer'[o].pc \in {"record", "report"} =>
                                      observer'[o].status \in Statuses,
             \/ faults' > faults
             \/ \A o \in Observers : observer[o].pc = "report" => observer'[o] = observer[o]
      PROVE  TrackingInv' /\ Kept
  <2>1. TypeOK'
    BY <1>0, <1>3 DEF TrackingInv, TypeOK
  <2>2. AnswersAreStatuses' /\ UnwatchedHasNoRow'
    BY <1>3 DEF TrackingInv, AnswersAreStatuses, UnwatchedHasNoRow
  <2>3. faults' \in Nat
    BY <1>3, TrackingAssumption
  <2>4. ReportOwed'
    BY <1>0, <1>3, <2>3, QuietStep
  <2> QED
    BY <1>3, <2>1, <2>2, <2>4 DEF TrackingInv
<1>a. /\ connectedAt \in [Shops -> 0..MaxSaves] /\ saves \in 0..MaxSaves /\ MaxSaves \in Nat
      /\ faults \in 0..MaxFaults
      /\ \A o \in Observers : observer[o].pc \in {"record", "report"} =>
                                 observer[o].status \in Statuses
  BY TrackingAssumption DEF TrackingInv, TypeOK, AnswersAreStatuses
<1>b. ASSUME NEW s \in Shops, SaveIntegration(s) \/ DeleteIntegration(s) PROVE TrackingInv' /\ Kept
  <2>1. connectedAt' \in [Shops -> 0..MaxSaves] /\ saves' \in 0..MaxSaves
    BY <1>a, <1>b DEF SaveIntegration, DeleteIntegration
  <2>2. UNCHANGED <<parcel, carrier, pushes, observer, moves, faults, reported, streak>>
    BY <1>b DEF SaveIntegration, DeleteIntegration
  <2> QED
    BY <1>0, <1>3, <1>a, <2>1, <2>2
<1>4. ASSUME NEW e \in pushes, LosePush(e) PROVE TrackingInv' /\ Kept
  BY <1>0, <1>3, <1>4, <1>a DEF LosePush, accounts
<1>5. ASSUME NEW o \in Pollers, NEW c \in Shops, NEW b \in Barcodes, Poll(o, c, b)
      PROVE  TrackingInv' /\ Kept
  <2>0. PICK s \in Shops :
            observer' = [observer EXCEPT ![o] =
                [Idle EXCEPT !.pc = "ask", !.parcel = <<s, b>>, !.prev = parcel[<<s, b>>].last]]
    BY <1>5 DEF Poll
  <2> DEFINE p   == <<s, b>>
             ask == [Idle EXCEPT !.pc = "ask", !.parcel = p, !.prev = parcel[p].last]
  <2>a. p \in Parcels /\ parcel[p] \in Row
    BY <1>0 DEF Parcels
  <2>1. ask \in Observer /\ ask.pc = "ask" /\ o \in Observers
    BY <2>a, IdleIsObserver DEF Observer, Steps, Row, Observers
  <2>2. observer' = [observer EXCEPT ![o] = ask]
    BY <2>0
  <2> HIDE DEF ask
  <2>3. /\ observer' \in [Observers -> Observer]
        /\ \A x \in Observers : x # o => observer'[x] = observer[x]
        /\ observer'[o].pc = "ask" /\ observer[o].pc = "idle"
    BY <1>0, <1>5, <2>1, <2>2 DEF Poll
  <2>4. UNCHANGED <<accounts, parcel, carrier, pushes, moves, faults, reported, streak>>
    BY <1>5 DEF Poll
  <2>5. \A x \in Observers : observer'[x].pc \in {"record", "report"} =>
                                 observer'[x].status \in Statuses
    BY <1>a, <2>3
  <2>6. \A x \in Observers : observer[x].pc = "report" => observer'[x] = observer[x]
    BY <2>3
  <2> QED
    BY <1>0, <1>3, <1>a, <2>3, <2>4, <2>5, <2>6 DEF accounts
<1>6. ASSUME NEW o \in Sockets, NEW e \in pushes, SocketEvent(o, e) PROVE TrackingInv' /\ Kept
  <2>0. PICK new \in Observer :
            /\ observer' = [observer EXCEPT ![o] = new] \/ observer' = observer
            /\ new.status \in Statuses
    <3>1. e.barcode \in Barcodes /\ e.status \in Statuses /\ e.driver \in BOOLEAN
      BY <1>0 DEF Push
    <3>2. ASSUME NEW s \in Shops
          PROVE  LET seen == [pc |-> "record", parcel |-> <<s, e.barcode>>,
                              prev |-> parcel[<<s, e.barcode>>].last,
                              status |-> e.status, driver |-> e.driver]
                 IN  seen \in Observer /\ seen.status \in Statuses
      <4>1. <<s, e.barcode>> \in Parcels
        BY <3>1 DEF Parcels
      <4>2. parcel[<<s, e.barcode>>].last \in Stored
        BY <1>0, <4>1 DEF Row
      <4> QED
        BY <3>1, <4>1, <4>2 DEF Observer, Steps, Stored
    <3>3. \E s \in Shops : TRUE
      BY TrackingAssumption
    <3>4. \/ observer' = observer
          \/ \E s \in Shops : observer' = [observer EXCEPT ![o] =
                 [pc |-> "record", parcel |-> <<s, e.barcode>>,
                  prev |-> parcel[<<s, e.barcode>>].last,
                  status |-> e.status, driver |-> e.driver]]
      BY <1>6 DEF SocketEvent
    <3> QED
      BY <3>2, <3>3, <3>4
  <2>1. o \in Observers /\ observer[o].pc = "idle"
    BY <1>6 DEF Observers, SocketEvent
  <2>2. /\ observer' \in [Observers -> Observer]
        /\ \A x \in Observers : \/ observer'[x] = observer[x]
                                \/ x = o /\ observer'[x] = new
    BY <1>0, <2>0, <2>1
  <2>3. \A x \in Observers : observer'[x].pc \in {"record", "report"} =>
                                 observer'[x].status \in Statuses
    BY <1>a, <2>0, <2>2
  <2>4. \A x \in Observers : observer[x].pc = "report" => observer'[x] = observer[x]
    BY <2>1, <2>2
  <2>5. /\ UNCHANGED <<accounts, parcel, carrier, moves, faults, reported, streak>>
        /\ pushes' \subseteq Push
    BY <1>0, <1>6 DEF SocketEvent
  <2> QED
    BY <1>0, <1>3, <1>a, <2>2, <2>3, <2>4, <2>5 DEF accounts
<1>7. ASSUME NEW o \in Observers, GetOrders(o) PROVE TrackingInv' /\ Kept
  <2>1. observer[o].pc = "ask" /\ observer[o] \in Observer /\ carrier[Barcode(Of(o))] \in Carrier
    BY <1>0, <1>7 DEF GetOrders, Of, Observer, Parcels, Barcode
  <2>2. PICK new \in Observer :
            /\ observer' = [observer EXCEPT ![o] = new]
            /\ new.pc \in {"record", "report"} => new.status \in Statuses
    <3>1. CASE \E d \in {FALSE, carrier[Barcode(Of(o))].driver} :
                  observer' = [observer EXCEPT ![o] = [@ EXCEPT !.pc = "record",
                                                                !.status = carrier[Barcode(Of(o))].status,
                                                                !.driver = d]]
      <4>1. PICK d \in {FALSE, carrier[Barcode(Of(o))].driver} :
                observer' = [observer EXCEPT ![o] = [@ EXCEPT !.pc = "record",
                                                              !.status = carrier[Barcode(Of(o))].status,
                                                              !.driver = d]]
        BY <3>1
      <4> DEFINE new == [observer[o] EXCEPT !.pc = "record", !.status = carrier[Barcode(Of(o))].status,
                                            !.driver = d]
      <4>2. new \in Observer /\ new.status \in Statuses
        BY <2>1 DEF Observer, Steps, Carrier, Stored
      <4>3. observer' = [observer EXCEPT ![o] = new]
        BY <4>1
      <4> HIDE DEF new
      <4> QED
        BY <4>2, <4>3
    <3>2. CASE observer' = [observer EXCEPT ![o] = [@ EXCEPT !.pc = "miss"]]
      <4> DEFINE new == [observer[o] EXCEPT !.pc = "miss"]
      <4>1. new \in Observer /\ new.pc = "miss"
        BY <2>1 DEF Observer, Steps
      <4>2. observer' = [observer EXCEPT ![o] = new]
        BY <3>2
      <4> HIDE DEF new
      <4> QED
        BY <4>1, <4>2
    <3>3. CASE observer' = [observer EXCEPT ![o] = Idle]
      BY <3>3, IdleIsObserver
    <3> QED
      BY <1>7, <3>1, <3>2, <3>3 DEF GetOrders, Stop
  <2>3. /\ observer' \in [Observers -> Observer]
        /\ \A x \in Observers : \/ observer'[x] = observer[x]
                                \/ x = o /\ observer'[x] = new
    BY <1>0, <2>2
  <2>4. faults' \in 0..MaxFaults /\ faults' >= faults
    <3>1. faults' = faults \/ (faults < MaxFaults /\ faults' = faults + 1)
      BY <1>7 DEF GetOrders, Fails
    <3> QED
      BY <1>0, <3>1 DEF TrackingInv, TypeOK
  <2> QED
    <3>1. UNCHANGED <<accounts, parcel, carrier, pushes, moves, reported, streak>>
      BY <1>7 DEF GetOrders
    <3>2. \A x \in Observers : observer'[x].pc \in {"record", "report"} =>
                                   observer'[x].status \in Statuses
      BY <1>a, <2>2, <2>3
    <3>3. \A x \in Observers : observer[x].pc = "report" => observer'[x] = observer[x]
      BY <2>1, <2>3
    <3> QED
      BY <1>0, <1>3, <1>a, <2>3, <2>4, <3>1, <3>2, <3>3 DEF accounts
<1>8. ASSUME NEW o \in Observers, Crash(o) PROVE TrackingInv' /\ Kept
  <2>1. /\ observer' \in [Observers -> Observer]
        /\ \A x \in Observers : \/ observer'[x] = observer[x]
                                \/ x = o /\ observer'[x].pc = "idle"
        /\ faults' \in 0..MaxFaults /\ faults' > faults
    BY <1>0, <1>8, IdleIsObserver DEF Crash, Fails, Stop, TrackingInv, TypeOK
  <2> QED
    BY <1>0, <1>3, <1>8, <1>a, <2>1 DEF Crash, accounts
<1>9. CASE UNCHANGED trackingVars
  BY <1>0, <1>3, <1>9, <1>a DEF trackingVars, accounts
<1> QED
  BY <1>1, <1>2, <1>4, <1>5, <1>6, <1>7, <1>8, <1>9, <1>b

LEMMA StepTracking ==
    ASSUME TrackingInv, [Next]_trackingVars
    PROVE  /\ TrackingInv'
           /\ \A p \in Parcels : parcel[p].driver /\ parcel'[p].tracked => parcel'[p].driver
<1>1. ASSUME NEW o \in Observers, RecordTransition(o) \/ Report(o) \/ MarkMissingUpstream(o)
      PROVE  /\ TrackingInv'
             /\ \A p \in Parcels : parcel[p].driver => parcel'[p].driver
  BY <1>1, RecordKeepsTracking, ReportKeepsTracking, MissKeepsTracking
<1> QED
  BY <1>1, OthersKeepTracking DEF Next, Observe

-----------------------------------------------------------------------------

THEOREM TrackingInvariant == Spec => []TrackingInv
<1> QED
  BY InitTracking, StepTracking, PTL DEF Spec

(* The shape of the rows and of the observers' memory.                     *)
THEOREM TrackingTypes == Spec => []TypeOK
<1>1. TrackingInv => TypeOK
  BY DEF TrackingInv
<1> QED
  BY <1>1, TrackingInvariant, PTL

(* Whatever status a row holds has been handed to the automations, or is   *)
(* about to be: an observer that compared with an old status may stay      *)
(* silent, because the one that stored the status does not.                *)
THEOREM NoStatusUnreported == Spec => []ReportOwed
<1>1. TrackingInv => ReportOwed
  BY DEF TrackingInv
<1> QED
  BY <1>1, TrackingInvariant, PTL

(* A courier once known is not erased by an answer without one.            *)
THEOREM CouriersAreKept == Spec => CourierKept
<1>1. TrackingInv /\ [Next]_trackingVars =>
          [\A p \in Parcels :
              parcel[p].driver /\ parcel'[p].tracked => parcel'[p].driver]_trackingVars
  BY StepTracking
<1> QED
  BY <1>1, TrackingInvariant, PTL DEF Spec, CourierKept

=============================================================================
