----------------------------- MODULE EventIntake -----------------------------
(***************************************************************************)
(* Converty's order events.  The webhook attributes an event to the shop   *)
(* of a connection that bears the store's name, stores it once per body,   *)
(* learns the customer, and hands an event it has stored to the shop's     *)
(* automations.  Converty may deliver a body again, also at the same time, *)
(* while the connections of ConvertyConnection come and go.                *)
(***************************************************************************)
EXTENDS ConvertyConnection, FiniteSets

CONSTANTS
    Bodies,        \* events: [id, store, refs], refs naming the store
    Deliveries,    \* webhook requests handled at the same time
    MaxBusy        \* bound: requests of either kind at the same time

ASSUME IntakeAssumption == Bodies # {}

VARIABLES
    stored,        \* order_events: the bodies it has
    owner,         \* order_events.shop_id
    customers,     \* who the shops know a customer from
    delivery,      \* what each webhook request has read
    handed         \* history: how often a body went to a shop's automations

intakeVars == <<connectionVars, stored, owner, customers, delivery, handed>>
eventVars  == <<stored, owner, customers, delivery, handed>>

Delivery == [pc : {"idle", "lookup", "insert", "customer", "hand"},
             body : Bodies, shop : {None} \cup Connections, duplicate : BOOLEAN]

Resting(b) == [pc |-> "idle", body |-> b, shop |-> None, duplicate |-> FALSE]
Rest(w)    == delivery' = [delivery EXCEPT ![w] = Resting(CHOOSE b \in Bodies : TRUE)]
Is(w, pc)  == delivery[w].pc = pc

IntakeInit ==
    /\ Init
    /\ stored = {}
    /\ owner = [b \in Bodies |-> None]
    /\ customers = {}
    /\ delivery = [w \in Deliveries |-> Resting(CHOOSE b \in Bodies : TRUE)]
    /\ handed = [b \in Bodies |-> [c \in Connections |-> 0]]

-----------------------------------------------------------------------------

(* handleConvertyWebhook.                                                  *)
Receive(w, b) ==
    /\ Is(w, "idle")
    /\ \E c \in Connections : grant[c] # 0 /\ row[c].store = b.store
    /\ delivery' = [delivery EXCEPT ![w] = [Resting(b) EXCEPT !.pc = "lookup"]]
    /\ Input
    /\ UNCHANGED <<shop, row, session, redeemed, grant, rejected, hook, req,
                   stored, owner, customers, handed>>

(* lookupShopID: any connection of the store will do, paused or not; a     *)
(* failed query is taken for an unknown store.                             *)
Named(b) == {c \in Connections :
                Exists(c) /\ row[c].store = b.store /\ row[c].refs \cap b.refs # {}}

LookupShop(w) ==
    /\ Is(w, "lookup")
    /\ \/ /\ \E c \in IF Named(delivery[w].body) = {} THEN {None}
                      ELSE Named(delivery[w].body) :
                delivery' = [delivery EXCEPT ![w].pc = "insert", ![w].shop = c]
          /\ UNCHANGED connectionVars
       \/ /\ Fault
          /\ delivery' = [delivery EXCEPT ![w].pc = "insert"]
          /\ UNCHANGED <<shop, row, session, redeemed, grant, rejected,
                         hook, req>>
    /\ UNCHANGED <<stored, owner, customers, handed>>

(* Where a stored event goes on: only an attributed one has a customer.    *)
AfterInsert(w, duplicate) ==
    IF delivery[w].shop = None THEN Rest(w)
    ELSE delivery' = [delivery EXCEPT ![w].pc = "customer", ![w].duplicate = duplicate]

(* A shop that is gone fails the foreign key, and the request.             *)
Refused(w) == delivery[w].shop # None /\ ~Live(delivery[w].shop)

(* Mutated form: without the unique hash every delivery is a new event.    *)
CaptureEvery(w) ==
    LET b == delivery[w].body IN
    /\ Is(w, "insert")
    /\ stored' = stored \cup {b}
    /\ owner' = [owner EXCEPT ![b] = delivery[w].shop]
    /\ AfterInsert(w, FALSE)
    /\ UNCHANGED <<connectionVars, customers, handed>>

(* Mutated form: a redelivery attributes an event nobody owned so far.     *)
CaptureLate(w) ==
    LET b == delivery[w].body IN
    /\ Is(w, "insert")
    /\ stored' = stored \cup {b}
    /\ owner' = [owner EXCEPT ![b] = IF @ = None THEN delivery[w].shop ELSE @]
    /\ AfterInsert(w, b \in stored)
    /\ UNCHANGED <<connectionVars, customers, handed>>

(* CaptureWebhook's INSERT: a body that is stored stays as it is.          *)
CaptureWebhook(w) ==
    LET b == delivery[w].body IN
    /\ Is(w, "insert")
    /\ IF Refused(w)
       THEN Rest(w) /\ UNCHANGED <<stored, owner>>
       ELSE /\ stored' = stored \cup {b}
            /\ owner' = [owner EXCEPT ![b] =
                            IF b \in stored THEN @ ELSE delivery[w].shop]
            /\ AfterInsert(w, b \in stored)
    /\ UNCHANGED <<connectionVars, customers, handed>>

(* UpsertCustomer, also for a duplicate; a failure is logged.              *)
UpsertCustomer(w) ==
    /\ Is(w, "customer")
    /\ customers' = IF Refused(w) THEN customers
                    ELSE customers \cup {<<delivery[w].shop, delivery[w].body>>}
    /\ delivery' = [delivery EXCEPT ![w].pc = "hand"]
    /\ UNCHANGED <<connectionVars, stored, owner, handed>>

(* Automations.OnConvertyEvent; a failure is logged, and the webhook       *)
(* answers 200.                                                            *)
HandOver(w) ==
    LET b == delivery[w].body
        c == delivery[w].shop
    IN
    /\ Is(w, "hand")
    /\ \/ /\ handed' = IF delivery[w].duplicate THEN handed
                       ELSE [handed EXCEPT ![b][c] = @ + 1]
          /\ UNCHANGED connectionVars
       \/ /\ Fault
          /\ UNCHANGED <<shop, row, session, redeemed, grant, rejected,
                         hook, req, handed>>
    /\ Rest(w)
    /\ UNCHANGED <<stored, owner, customers>>

DeliveryDies(w) ==
    /\ ~Is(w, "idle") /\ Fault
    /\ Rest(w)
    /\ UNCHANGED <<shop, row, session, redeemed, grant, rejected, hook,
                   req, stored, owner, customers, handed>>

DeliveryStep(w) ==
    \/ \E b \in Bodies : Receive(w, b)
    \/ LookupShop(w) \/ CaptureWebhook(w) \/ UpsertCustomer(w) \/ HandOver(w)
    \/ DeliveryDies(w)

(* The events and customers of a shop go with it.                          *)
CascadeEvents ==
    LET gone == {b \in stored : owner[b] # None /\ shop'[owner[b]] = "deleted"}
    IN  /\ stored' = stored \ gone
        /\ owner' = [b \in Bodies |-> IF b \in gone THEN None ELSE owner[b]]
        /\ customers' = {k \in customers : shop'[k[1]] # "deleted"}

Busy == {r \in Requests : ~At(r, "idle")} \cup {w \in Deliveries : ~Is(w, "idle")}

IntakeNext ==
  /\ \/ Next /\ CascadeEvents /\ UNCHANGED <<delivery, handed>>
     \/ \E w \in Deliveries : DeliveryStep(w)
  /\ Cardinality(Busy') <= MaxBusy

IntakeSpec == IntakeInit /\ [][IntakeNext]_intakeVars

-----------------------------------------------------------------------------

(* The shape of the tables and of the requests' memory.                    *)
TypeOK ==
    /\ ConnectionTypeOK
    /\ stored \subseteq Bodies
    /\ owner \in [Bodies -> {None} \cup Connections]
    /\ customers \subseteq Connections \X Bodies
    /\ delivery \in [Deliveries -> Delivery]
    /\ handed \in [Bodies -> [Connections -> Nat]]

(* Orders are answered once: a body goes to the automations of one shop,   *)
(* the one its record names, and once, however many deliveries of it are   *)
(* handled at the same time and whichever connections name the store.      *)
HandedOnceAsStored ==
    \A b \in Bodies, c \in Connections :
        Live(c) => handed[b][c] <= (IF b \in stored /\ owner[b] = c THEN 1 ELSE 0)

(* An event on record with a shop has reached that shop's automations when *)
(* no delivery of it is being handled, unless a fault came in between: the *)
(* next delivery is a duplicate and makes up for nothing.                  *)
AttributedIsHanded ==
    \A b \in stored :
        /\ faults = 0 /\ owner[b] # None
        /\ \A w \in Deliveries : Is(w, "idle") \/ delivery[w].body # b
       => handed[b][owner[b]] = 1

-----------------------------------------------------------------------------
(* A promise of a comment which the code does not keep.                    *)

(* "Paused integrations ... are excluded from new order-to-message         *)
(* routing".                                                               *)
PausedIsExcluded ==
    [][\A b \in Bodies, c \in Connections :
          handed'[b][c] > handed[b][c] => row[c].active]_intakeVars

=============================================================================
