-------------------------- MODULE DeliveryTracking --------------------------
(***************************************************************************)
(* The parcels of internal/delivery: rows of delivery_orders, kept in step *)
(* with the carrier by several observers at once, and every change of      *)
(* status they store handed to the automations.                            *)
(*                                                                         *)
(* An observer is one parcel's share of                                    *)
(*   - a sweep of the poller (the worker's ticker, the "Check now" button  *)
(*     of any instance): read the row, ask the carrier, record the answer, *)
(*   - a socket event: read the row, record what was pushed.               *)
(* Both end in recordTransition, which compares with the status read at    *)
(* the start, not with the one in the row by then.  The parcels of a sweep *)
(* are recorded independently of each other, so a sweep of several parcels *)
(* is several observers.                                                   *)
(*                                                                         *)
(* The carrier knows barcodes, not shops.  Several shops may watch the same*)
(* one, each in a row of its own, and a shop without a connection is polled*)
(* with another shop's: of the rows with one barcode a sweep asks about a  *)
(* single one per connection, and a socket event is recorded in one row.   *)
(***************************************************************************)
EXTENDS Naturals, FiniteSets

CONSTANTS
    Shops,
    Barcodes,
    Pollers,       \* sweeps that may run at the same time
    Sockets,       \* socket events handled at the same time
    Statuses,      \* the carrier's statuses
    Terminal,      \* those of StatusTerminal
    NoStatus,      \* last_status '', a row never observed
    Removed,       \* StatusRemovedUpstream
    Misses,        \* MissesBeforeSettled
    MaxMoves,      \* bound: what the carrier does
    MaxSaves,      \* bound: integrations saved
    MaxFaults,     \* bound: failed calls and crashes
    MaxUpsets      \* bound: moves, saves and faults together

ASSUME TrackingAssumption ==
    /\ Shops # {} /\ Barcodes # {}
    /\ Pollers \cap Sockets = {}
    /\ Terminal \subseteq Statuses
    /\ NoStatus \notin Statuses \cup {Removed}
    /\ Removed \notin Statuses
    /\ Misses \in Nat \ {0}
    /\ MaxMoves \in Nat
    /\ MaxSaves \in Nat
    /\ MaxFaults \in Nat
    /\ MaxUpsets \in Nat

VARIABLES
    connectedAt,   \* when each shop's integration was saved last, 0: none
    parcel,        \* the row of each parcel
    carrier,       \* what the carrier knows of each barcode
    pushes,        \* socket events on their way
    observer,      \* where each observer is
    moves, saves, faults,  \* bounds
    reported,      \* history: statuses handed on since the row is watched
    streak         \* history: misses since the carrier last answered

accounts     == <<connectedAt, saves>>
trackingVars == <<accounts, parcel, carrier, pushes, observer, moves, faults, reported, streak>>

-----------------------------------------------------------------------------

Parcels   == Shops \X Barcodes     \* UNIQUE (shop_id, barcode)
Barcode(p) == p[2]

Observers == Pollers \cup Sockets
Stored    == Statuses \cup {NoStatus, Removed}

Row     == [tracked : BOOLEAN, last : Stored, driver : BOOLEAN, missing : 0..Misses]
Carrier == [listed : BOOLEAN, status : Statuses, driver : BOOLEAN]
Push    == [barcode : Barcodes, status : Statuses, driver : BOOLEAN]
Steps   == {"idle", "ask", "record", "miss", "report"}

Observer == [pc : Steps, parcel : Parcels, prev : Stored, status : Stored,
             driver : BOOLEAN]

Idle == [pc |-> "idle", parcel |-> CHOOSE p \in Parcels : TRUE,
         prev |-> NoStatus, status |-> NoStatus, driver |-> FALSE]

NoRow == [tracked |-> FALSE, last |-> NoStatus, driver |-> FALSE, missing |-> 0]

StatusTerminal(status) == status \in Terminal \cup {Removed}

(* pickConnection: a shop's own connection, otherwise the one saved first. *)
Connected == {s \in Shops : connectedAt[s] > 0}
First     == {s \in Connected : \A t \in Connected : connectedAt[s] <= connectedAt[t]}

(* Mutated form: a shop without a connection is not polled.                *)
PolledWithOwn(c, s) == c \in Connected /\ c = s

PolledWith(c, s) ==
    /\ c \in Connected
    /\ c = s \/ (s \notin Connected /\ c \in First)

(* A row Reconcile puts on its list.                                       *)
Active(p) == parcel[p].tracked /\ ~StatusTerminal(parcel[p].last)

Of(o)   == observer[o].parcel
Stop(o) == observer' = [observer EXCEPT ![o] = Idle]

(* An UPDATE ... WHERE shop_id AND barcode: it finds the row, or nothing.  *)
Write(p, new) ==
    parcel' = IF parcel[p].tracked THEN [parcel EXCEPT ![p] = new] ELSE parcel

HandOn(p, status) == reported' = [reported EXCEPT ![p] = @ \cup {status}]

(* The histories of a row begin, and end, with it.                         *)
Forget(p) ==
    /\ reported' = [reported EXCEPT ![p] = {}]
    /\ streak' = [streak EXCEPT ![p] = 0]

(* A call fails, or the process dies.                                      *)
Fails ==
    /\ faults < MaxFaults
    /\ moves + saves + faults < MaxUpsets
    /\ faults' = faults + 1

Init ==
    /\ connectedAt = [s \in Shops |-> 0]
    /\ saves = 0
    /\ parcel = [p \in Parcels |-> NoRow]
    /\ \E first \in Statuses \ Terminal :
          carrier = [b \in Barcodes |->
                       [listed |-> TRUE, status |-> first, driver |-> FALSE]]
    /\ pushes = {}
    /\ observer = [o \in Observers |-> Idle]
    /\ moves = 0
    /\ faults = 0
    /\ reported = [p \in Parcels |-> {}]
    /\ streak = [p \in Parcels |-> 0]

-----------------------------------------------------------------------------
(* The carrier.  It pushes changes of a parcel's status and couriers that  *)
(* are attached, and may stop, or start again, to list it.                 *)

CarrierActs(b) ==
    /\ moves < MaxMoves
    /\ moves + saves + faults < MaxUpsets
    /\ moves' = moves + 1
    /\ \/ \E s \in Statuses, d \in BOOLEAN :
            /\ carrier[b].status \notin Terminal
            /\ <<s, d>> # <<carrier[b].status, carrier[b].driver>>
            /\ carrier[b].driver => d
            /\ carrier' = [carrier EXCEPT ![b].status = s, ![b].driver = d]
            /\ pushes' = pushes \cup {[barcode |-> b, status |-> s, driver |-> d]}
       \/ /\ carrier' = [carrier EXCEPT ![b].listed = ~@]
          /\ UNCHANGED pushes
    /\ UNCHANGED <<accounts, parcel, observer, faults, reported, streak>>

(* No connection is up when the event is pushed.                           *)
LosePush(e) ==
    /\ e \in pushes
    /\ pushes' = pushes \ {e}
    /\ UNCHANGED <<accounts, parcel, carrier, observer, moves, faults, reported, streak>>

-----------------------------------------------------------------------------
(* The shops' accounts with the carrier, and the watch list.               *)

SaveIntegration(s) ==
    /\ saves < MaxSaves
    /\ moves + saves + faults < MaxUpsets
    /\ saves' = saves + 1
    /\ connectedAt' = [connectedAt EXCEPT ![s] = saves + 1]
    /\ UNCHANGED <<parcel, carrier, pushes, observer, moves, faults, reported, streak>>

DeleteIntegration(s) ==
    /\ s \in Connected
    /\ connectedAt' = [connectedAt EXCEPT ![s] = 0]
    /\ UNCHANGED <<saves, parcel, carrier, pushes, observer, moves, faults, reported, streak>>

(* UpsertTracked: an order event with a barcode; a known one keeps its     *)
(* status.                                                                 *)
Track(p) ==
    /\ ~parcel[p].tracked
    /\ parcel' = [parcel EXCEPT ![p] = [NoRow EXCEPT !.tracked = TRUE]]
    /\ Forget(p)
    /\ UNCHANGED <<accounts, carrier, pushes, observer, moves, faults>>

RemoveTracked(p) ==
    /\ parcel[p].tracked
    /\ parcel' = [parcel EXCEPT ![p] = NoRow]
    /\ Forget(p)
    /\ UNCHANGED <<accounts, carrier, pushes, observer, moves, faults>>

-----------------------------------------------------------------------------
(* The observers.                                                          *)

(* Reconcile lists the active rows of each connection, and pollConnection  *)
(* keeps one row per barcode: that of the shop the database lists last.    *)
Poll(o, c, b) ==
    /\ observer[o].pc = "idle"
    /\ \E s \in Shops :
          /\ PolledWith(c, s) /\ Active(<<s, b>>)
          /\ observer' = [observer EXCEPT ![o] =
                [Idle EXCEPT !.pc = "ask", !.parcel = <<s, b>>, !.prev = parcel[<<s, b>>].last]]
    /\ UNCHANGED <<accounts, parcel, carrier, pushes, moves, faults, reported, streak>>

(* GetOrders: the status, with or without the courier, or not found; a     *)
(* failed call ends the sweep.                                             *)
GetOrders(o) ==
    LET c == carrier[Barcode(Of(o))] IN
    /\ observer[o].pc = "ask"
    /\ \/ /\ c.listed
          /\ \E d \in {FALSE, c.driver} :
                observer' = [observer EXCEPT ![o].pc = "record",
                                             ![o].status = c.status,
                                             ![o].driver = d]
          /\ UNCHANGED faults
       \/ /\ ~c.listed
          /\ observer' = [observer EXCEPT ![o].pc = "miss"]
          /\ UNCHANGED faults
       \/ /\ Fails
          /\ Stop(o)
    /\ UNCHANGED <<accounts, parcel, carrier, pushes, moves, reported, streak>>

(* onSocketEvent: TrackedAnyShopByBarcode finds the row of the barcode that*)
(* was seen last, which is here any row of it, or the event is ignored.    *)
SocketEvent(o, e) ==
    /\ observer[o].pc = "idle"
    /\ e \in pushes
    /\ pushes' = pushes \ {e}
    /\ \/ \E s \in Shops :
            /\ parcel[<<s, e.barcode>>].tracked
            /\ observer' = [observer EXCEPT ![o] =
                  [pc |-> "record", parcel |-> <<s, e.barcode>>,
                   prev |-> parcel[<<s, e.barcode>>].last,
                   status |-> e.status, driver |-> e.driver]]
       \/ /\ \A s \in Shops : ~parcel[<<s, e.barcode>>].tracked
          /\ UNCHANGED observer
    /\ UNCHANGED <<accounts, parcel, carrier, moves, faults, reported, streak>>

(* The three writes of recordTransition: TouchTracked, AttachDriver and    *)
(* UpdateTrackedStatus.                                                    *)
TouchTracked(o) ==
    /\ Write(Of(o), [parcel[Of(o)] EXCEPT !.missing = 0])
    /\ Stop(o)

AttachDriver(o) ==
    /\ Write(Of(o), [parcel[Of(o)] EXCEPT !.driver = TRUE])
    /\ observer' = [observer EXCEPT ![o].pc = "report"]

(* Mutated forms: a settled parcel is stored without a report; a missing   *)
(* courier is stored as none.                                              *)
UpdateThenHush(o) ==
    /\ Write(Of(o), [parcel[Of(o)] EXCEPT !.last = observer[o].status,
                                          !.driver = @ \/ observer[o].driver,
                                          !.missing = 0])
    /\ observer' = IF StatusTerminal(observer[o].status)
                   THEN [observer EXCEPT ![o] = Idle]
                   ELSE [observer EXCEPT ![o].pc = "report"]

UpdateErasing(o) ==
    /\ Write(Of(o), [parcel[Of(o)] EXCEPT !.last = observer[o].status,
                                          !.driver = observer[o].driver,
                                          !.missing = 0])
    /\ observer' = [observer EXCEPT ![o].pc = "report"]

UpdateTrackedStatus(o) ==
    /\ Write(Of(o), [parcel[Of(o)] EXCEPT !.last = observer[o].status,
                                          !.driver = @ \/ observer[o].driver,
                                          !.missing = 0])
    /\ observer' = [observer EXCEPT ![o].pc = "report"]

(* recordTransition, up to the call of onChanged.                          *)
RecordTransition(o) ==
    LET seen == observer[o] IN
    /\ seen.pc = "record"
    /\ \/ /\ \/ /\ seen.prev = seen.status
                /\ IF seen.driver THEN AttachDriver(o) ELSE TouchTracked(o)
             \/ /\ seen.prev # seen.status
                /\ UpdateTrackedStatus(o)
          /\ UNCHANGED faults
       \/ /\ Fails  \* the write fails
          /\ Stop(o)
          /\ UNCHANGED parcel
    /\ streak' = [streak EXCEPT ![seen.parcel] = 0]
    /\ UNCHANGED <<accounts, carrier, pushes, moves, reported>>

(* onChanged: OnDeliveryChange looks the parcel up again and hands the     *)
(* transition to the automation; a failure is only logged.                 *)
Report(o) ==
    /\ observer[o].pc = "report"
    /\ \/ /\ IF parcel[Of(o)].tracked
             THEN HandOn(Of(o), observer[o].status) ELSE UNCHANGED reported
          /\ UNCHANGED faults
       \/ /\ Fails
          /\ UNCHANGED reported
    /\ Stop(o)
    /\ UNCHANGED <<accounts, parcel, carrier, pushes, moves, streak>>

(* MarkMissingUpstream: one statement counts the miss and settles.         *)
MarkMissingUpstream(o) ==
    LET p == Of(o)
        n == parcel[p].missing + 1
    IN
    /\ observer[o].pc = "miss"
    /\ \/ /\ Write(p, [parcel[p] EXCEPT
                         !.missing = IF n > Misses THEN Misses ELSE n,
                         !.last = IF n >= Misses THEN Removed ELSE @])
          /\ streak' = [streak EXCEPT ![p] = IF @ < Misses THEN @ + 1 ELSE @]
          /\ UNCHANGED faults
       \/ /\ Fails
          /\ UNCHANGED <<parcel, streak>>
    /\ Stop(o)
    /\ UNCHANGED <<accounts, carrier, pushes, moves, reported>>

(* The process dies.                                                       *)
Crash(o) ==
    /\ observer[o].pc # "idle"
    /\ Fails
    /\ Stop(o)
    /\ UNCHANGED <<accounts, parcel, carrier, pushes, moves, reported, streak>>

-----------------------------------------------------------------------------

Observe(o) ==
    \/ GetOrders(o) \/ RecordTransition(o) \/ Report(o) \/ MarkMissingUpstream(o)

Next ==
    \/ \E b \in Barcodes : CarrierActs(b)
    \/ \E s \in Shops : SaveIntegration(s) \/ DeleteIntegration(s)
    \/ \E p \in Parcels : Track(p) \/ RemoveTracked(p)
    \/ \E e \in pushes : LosePush(e)
    \/ \E o \in Pollers, c \in Shops, b \in Barcodes : Poll(o, c, b)
    \/ \E o \in Sockets, e \in pushes : SocketEvent(o, e)
    \/ \E o \in Observers : Observe(o) \/ Crash(o)

Spec == Init /\ [][Next]_trackingVars

(* The ticker sweeps every reconcileInterval, a sweep asks each connection *)
(* about all of its barcodes (whoever else is polling), and an observer    *)
(* that has started ends: the HTTP client has a timeout.  Which of several *)
(* rows with one barcode is asked about is left to the database.           *)
FairSpec ==
    /\ Spec
    /\ \A c \in Shops, b \in Barcodes : SF_trackingVars(\E o \in Pollers : Poll(o, c, b))
    /\ \A o \in Observers : WF_trackingVars(Observe(o))

-----------------------------------------------------------------------------

(* The shape of the rows and of the observers' memory.                     *)
TypeOK ==
    /\ connectedAt \in [Shops -> 0..MaxSaves]
    /\ saves \in 0..MaxSaves
    /\ parcel \in [Parcels -> Row]
    /\ carrier \in [Barcodes -> Carrier]
    /\ pushes \subseteq Push
    /\ observer \in [Observers -> Observer]
    /\ moves \in 0..MaxMoves
    /\ faults \in 0..MaxFaults
    /\ reported \in [Parcels -> SUBSET Statuses]
    /\ streak \in [Parcels -> 0..Misses]

(* The automations know of a status, or are about to.                      *)
Known(p, status) ==
    \/ status \in reported[p]
    \/ \E o \in Observers :
          observer[o].pc = "report" /\ Of(o) = p /\ observer[o].status = status

(* A status a row holds has been handed to the automations, or is about    *)
(* to be, whichever observers raced to store it: one that finds nothing    *)
(* new may stay silent, because the one that stored it does not.  Only a   *)
(* fault breaks this.                                                      *)
ReportOwed ==
    \A p \in Parcels :
        parcel[p].last \in Statuses => Known(p, parcel[p].last) \/ faults > 0

(* A courier, once known, stays known while the parcel is watched: "a      *)
(* partial answer must not erase a name another call already supplied".    *)
CourierKept ==
    [][\A p \in Parcels :
          parcel[p].driver /\ parcel'[p].tracked => parcel'[p].driver]_trackingVars

(* A row in step with the carrier, or one it need not be.                  *)
InStep(p) ==
    \/ ~Active(p)
    \/ parcel[p].last = carrier[Barcode(p)].status
    \/ ~carrier[Barcode(p)].listed

(* Another shop's active row for the same barcode, on the same connection. *)
Shadowed(p) ==
    \E s \in Shops \ {p[1]}, c \in Shops :
        /\ PolledWith(c, p[1]) /\ PolledWith(c, s)
        /\ Active(<<s, Barcode(p)>>)

(* The watch list follows the carrier: a parcel that stays watched is,     *)
(* again and again, in step with it, or settled, unless there is nobody to *)
(* ask or another shop's row takes its place in the sweeps.  Late, lost and*)
(* reordered events do not keep it away from the carrier's status.         *)
FollowsCarrier ==
    \A p \in Parcels : []<>(InStep(p) \/ Shadowed(p) \/ Connected = {})

-----------------------------------------------------------------------------
(* Promises of comments and documents which the code does not keep: TLC    *)
(* finds a counterexample to each.                                         *)

(* The comment of Reconcile: each observed transition is reported, the     *)
(* terminal ones too, "so a delivered automation fires".                   *)
TransitionsReported ==
    \A p \in Parcels, s \in Statuses :
        parcel[p].last = s ~> s \in reported[p] \/ ~parcel[p].tracked

(* The same comment: "Reconcile polls every connected shop's watched       *)
(* parcels".  Of two shops that watch one barcode, polled with one         *)
(* connection, one may be passed over in every sweep, also the shop whose  *)
(* connection it is and while the watch list does not change.              *)
EveryParcelPolled ==
    <>[](\A p \in Parcels : parcel[p].tracked) =>
        \A p \in Parcels : []<>(InStep(p) \/ p[1] \notin Connected)

(* The same comment: a terminal status is reported once.                   *)
TerminalReportedOnce ==
    [][\A o \in Observers :
          Report(o) /\ faults' = faults
            => observer[o].status \notin Terminal \cap reported[Of(o)]]_trackingVars

(* The comment of missing_count: consecutive misses are counted, and any   *)
(* sighting resets the count, so only a barcode unknown across several     *)
(* sweeps settles.                                                         *)
SettledByConsecutiveMisses ==
    [][\A p \in Parcels :
          parcel'[p].last = Removed /\ parcel[p].last # Removed
            => streak'[p] = Misses]_trackingVars

=============================================================================
