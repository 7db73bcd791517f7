----------------------- MODULE SocketSupervisorProofs -----------------------
(***************************************************************************)
(* The map of the socket supervisor, for any number of shops, tokens,      *)
(* goroutines and changes of the integrations.                             *)
(***************************************************************************)
EXTENDS SocketSupervisor, TLAPS

(* What the steps need of the shape of the variables.                      *)
ShapeOK ==
    /\ conns \in [Shops -> Loops \cup {None}]
    /\ loop \in [Loops -> [alive : BOOLEAN, cancelled : BOOLEAN, up : BOOLEAN,
                           shop : Shops \cup {None}, token : Tokens \cup {None}]]
    /\ sweep.todo \subseteq Shops
    /\ sweep.desired \in [Shops -> Tokens \cup {None}]
    /\ token \in [Shops -> Tokens \cup {None}]
    /\ sweep = [pc |-> sweep.pc, desired |-> sweep.desired, todo |-> sweep.todo]

(* A goroutine that lives has a shop, whose entry it deletes at its end.   *)
LiveHaveShops == \A l \in Loops : loop[l].alive => loop[l].shop \in Shops

(* An entry belongs to a goroutine of that shop which nobody has           *)
(* cancelled.  Since a goroutine has one shop, it owns one entry at most.  *)
EntriesAreKept ==
    \A s \in Shops : conns[s] # None =>
        /\ loop[conns[s]].alive
        /\ ~loop[conns[s]].cancelled
        /\ loop[conns[s]].shop = s

SocketInv == ShapeOK /\ LiveHaveShops /\ EntriesAreKept

-----------------------------------------------------------------------------

LEMMA SocketInit == Init => SocketInv
<1> SUFFICES ASSUME Init PROVE SocketInv
  OBVIOUS
<1>1. ShapeOK
  BY DEF Init, ShapeOK, NoLoop, NoSweep
<1>2. LiveHaveShops /\ EntriesAreKept
  BY SupervisorAssumption DEF Init, LiveHaveShops, EntriesAreKept, NoLoop
<1> QED
  BY <1>1, <1>2 DEF SocketInv

(* Cancelling the goroutines of some entries and removing those entries    *)
(* leaves the other entries as they were: they are other goroutines'.      *)
LEMMA DropKeepsOthers ==
    ASSUME SocketInv, NEW gone \in SUBSET Shops,
           loop' = [l \in Loops |-> [loop[l] EXCEPT !.cancelled =
                       @ \/ \E s \in Shops : conns[s] = l /\ s \in gone]],
           conns' = [s \in Shops |-> IF s \in gone THEN None ELSE conns[s]]
    PROVE  /\ conns' \in [Shops -> Loops \cup {None}]
           /\ loop' \in [Loops -> [alive : BOOLEAN, cancelled : BOOLEAN, up : BOOLEAN,
                                   shop : Shops \cup {None}, token : Tokens \cup {None}]]
           /\ LiveHaveShops' /\ EntriesAreKept'
<1> USE DEF SocketInv, ShapeOK
<1>1. \A l \in Loops :
         /\ loop'[l].alive = loop[l].alive /\ loop'[l].shop = loop[l].shop
         /\ loop'[l].up = loop[l].up /\ loop'[l].token = loop[l].token
         /\ loop'[l].cancelled
              = (loop[l].cancelled \/ \E s \in Shops : conns[s] = l /\ s \in gone)
         /\ loop'[l] \in [alive : BOOLEAN, cancelled : BOOLEAN, up : BOOLEAN,
                          shop : Shops \cup {None}, token : Tokens \cup {None}]
  OBVIOUS
<1>2. LiveHaveShops'
  BY <1>1 DEF LiveHaveShops
<1>3. EntriesAreKept'
  <2> SUFFICES ASSUME NEW s \in Shops, conns'[s] # None
               PROVE  /\ loop'[conns'[s]].alive
                      /\ ~loop'[conns'[s]].cancelled
                      /\ loop'[conns'[s]].shop = s
    BY DEF EntriesAreKept
  <2>1. s \notin gone /\ conns'[s] = conns[s] /\ conns[s] \in Loops
    OBVIOUS
  <2>2. /\ loop[conns[s]].alive /\ ~loop[conns[s]].cancelled
        /\ loop[conns[s]].shop = s
    BY <2>1 DEF EntriesAreKept
  <2>3. ~ \E z \in Shops : conns[z] = conns[s] /\ z \in gone
    BY <2>1, <2>2 DEF EntriesAreKept
  <2> QED
    BY <1>1, <2>1, <2>2, <2>3
<1>4. conns' \in [Shops -> Loops \cup {None}]
  OBVIOUS
<1>5. loop' \in [Loops -> [alive : BOOLEAN, cancelled : BOOLEAN, up : BOOLEAN,
                           shop : Shops \cup {None}, token : Tokens \cup {None}]]
  BY <1>1
<1> QED
  BY <1>2, <1>3, <1>4, <1>5

LEMMA SocketStep == SocketInv /\ [Next]_socketVars => SocketInv'
<1> SUFFICES ASSUME SocketInv, [Next]_socketVars PROVE SocketInv'
  OBVIOUS
<1> USE SupervisorAssumption DEF SocketInv
<1>1. CASE UNCHANGED socketVars
  BY <1>1 DEF socketVars, ShapeOK, LiveHaveShops, EntriesAreKept
<1>2. ASSUME NEW s \in Shops, NEW t \in Tokens \cup {None}, ChangeIntegration(s, t)
      PROVE  SocketInv'
  BY <1>2 DEF ChangeIntegration, ShapeOK, LiveHaveShops, EntriesAreKept
<1>3. CASE EndContext
  BY <1>3 DEF EndContext, ShapeOK, LiveHaveShops, EntriesAreKept
<1>4. CASE SocketShutdown
  <2> DEFINE gone == {s \in Shops : conns[s] # None}
  <2>1. /\ loop' = [l \in Loops |-> [loop[l] EXCEPT !.cancelled =
                       @ \/ \E s \in Shops : conns[s] = l /\ s \in gone]]
        /\ conns' = [s \in Shops |-> IF s \in gone THEN None ELSE conns[s]]
    BY <1>4 DEF SocketShutdown, ShapeOK
  <2>2. /\ sweep' = NoSweep("ended") /\ token' = token
    BY <1>4 DEF SocketShutdown
  <2>3. gone \in SUBSET Shops
    OBVIOUS
  <2> HIDE DEF gone
  <2>4. /\ conns' \in [Shops -> Loops \cup {None}]
        /\ loop' \in [Loops -> [alive : BOOLEAN, cancelled : BOOLEAN, up : BOOLEAN,
                                shop : Shops \cup {None}, token : Tokens \cup {None}]]
        /\ LiveHaveShops' /\ EntriesAreKept'
    BY <2>1, <2>3, DropKeepsOthers
  <2> QED
    BY <2>2, <2>4 DEF ShapeOK, NoSweep
<1>5. CASE SweepReads
  BY <1>5 DEF SweepReads, ShapeOK, LiveHaveShops, EntriesAreKept
<1>6. CASE SweepDrops
  <2> DEFINE gone == {s \in Shops : Outdated(s)}
  <2>1. /\ loop' = [l \in Loops |-> [loop[l] EXCEPT !.cancelled =
                       @ \/ \E s \in Shops : conns[s] = l /\ s \in gone]]
        /\ conns' = [s \in Shops |-> IF s \in gone THEN None ELSE conns[s]]
    BY <1>6 DEF SweepDrops
  <2>2. /\ sweep' = [sweep EXCEPT !.pc = "dial"] /\ token' = token
    BY <1>6 DEF SweepDrops
  <2>3. gone \in SUBSET Shops
    OBVIOUS
  <2> HIDE DEF gone
  <2>4. /\ conns' \in [Shops -> Loops \cup {None}]
        /\ loop' \in [Loops -> [alive : BOOLEAN, cancelled : BOOLEAN, up : BOOLEAN,
                                shop : Shops \cup {None}, token : Tokens \cup {None}]]
        /\ LiveHaveShops' /\ EntriesAreKept'
    BY <2>1, <2>3, DropKeepsOthers
  <2> QED
    BY <2>2, <2>4 DEF ShapeOK
<1>7. ASSUME NEW s \in Shops, SweepDials(s) PROVE SocketInv'
  <2>1. sweep' = [sweep EXCEPT !.todo = @ \ {s}] /\ token' = token
    BY <1>7 DEF SweepDials
  <2>2. CASE UNCHANGED <<conns, loop>>
    BY <2>1, <2>2 DEF ShapeOK, LiveHaveShops, EntriesAreKept
  <2>3. ASSUME conns[s] = None,
               NEW l \in Loops, ~loop[l].alive,
               loop' = [loop EXCEPT ![l] = [NoLoop EXCEPT !.alive = TRUE, !.shop = s,
                                                          !.token = sweep.desired[s]]],
               conns' = [conns EXCEPT ![s] = l]
        PROVE  SocketInv'
    <3>1. /\ loop'[l].alive /\ ~loop'[l].cancelled /\ loop'[l].shop = s
          /\ \A k \in Loops \ {l} : loop'[k] = loop[k]
      BY <2>3 DEF ShapeOK, NoLoop
    <3>2. ShapeOK'
      BY <2>1, <2>3 DEF ShapeOK, NoLoop
    <3>3. \A z \in Shops \ {s} : conns'[z] = conns[z] /\ conns[z] # l
      BY <2>3 DEF EntriesAreKept, ShapeOK
    <3> QED
      BY <2>3, <3>1, <3>2, <3>3 DEF LiveHaveShops, EntriesAreKept, ShapeOK
  <2> QED
    BY <1>7, <2>2, <2>3 DEF SweepDials
<1>8. CASE SweepEnds
  BY <1>8 DEF SweepEnds, NoSweep, ShapeOK, LiveHaveShops, EntriesAreKept
<1>9. ASSUME NEW l \in Loops, Connect(l) \/ Disconnect(l) PROVE SocketInv'
  <2> PICK up \in BOOLEAN : loop' = [loop EXCEPT ![l].up = up]
    BY <1>9 DEF Connect, Disconnect
  <2>1. /\ \A k \in Loops : /\ loop'[k].alive = loop[k].alive
                            /\ loop'[k].cancelled = loop[k].cancelled
                            /\ loop'[k].shop = loop[k].shop
        /\ UNCHANGED <<token, conns, sweep>>
    BY <1>9 DEF Connect, Disconnect, ShapeOK
  <2>2. ShapeOK'
    BY <2>1 DEF ShapeOK
  <2> QED
    BY <2>1, <2>2 DEF ShapeOK, LiveHaveShops, EntriesAreKept
<1>10. ASSUME NEW l \in Loops, LoopEnds(l) PROVE SocketInv'
  <2>1. /\ loop[l].shop \in Shops
        /\ loop' = [loop EXCEPT ![l] = NoLoop]
        /\ conns' = [conns EXCEPT ![loop[l].shop] = None]
        /\ UNCHANGED <<token, sweep>>
    BY <1>10 DEF LoopEnds, LiveHaveShops
  <2>2. ShapeOK'
    BY <2>1 DEF ShapeOK, NoLoop
  <2>3. \A s \in Shops : conns'[s] # None => conns'[s] = conns[s] /\ conns[s] # l
    BY <2>1 DEF ShapeOK, EntriesAreKept
  <2>4. /\ ~loop'[l].alive
        /\ \A k \in Loops \ {l} : loop'[k] = loop[k]
    BY <2>1 DEF ShapeOK, NoLoop
  <2> QED
    BY <2>2, <2>3, <2>4 DEF ShapeOK, LiveHaveShops, EntriesAreKept
<1> QED
  BY <1>1, <1>2, <1>3, <1>4, <1>5, <1>6, <1>7, <1>8, <1>9, <1>10 DEF Next, Supervise

-----------------------------------------------------------------------------

(* The supervisor never believes in a connection that is going away: until *)
(* the worker shuts down an entry belongs to a goroutine that lives.       *)
THEOREM MapIsTrue == Spec => []EntriesAreLive
<1>1. SocketInv => EntriesAreLive
  BY DEF SocketInv, EntriesAreKept, EntriesAreLive, Live, Stopped
<1>2. Spec => []SocketInv
  BY SocketInit, SocketStep, PTL DEF Spec
<1> QED
  BY <1>1, <1>2, PTL

-----------------------------------------------------------------------------
(* What the shape leaves open.                                             *)
RestTyped ==
    /\ sweep.pc \in {"wait", "drop", "dial", "ended"}
    /\ done \in BOOLEAN
    /\ changes \in 0..MaxChanges

LEMMA RestStep == ShapeOK /\ RestTyped /\ [Next]_socketVars => RestTyped'
<1> SUFFICES ASSUME ShapeOK, RestTyped, [Next]_socketVars PROVE RestTyped'
  OBVIOUS
<1> USE DEF RestTyped
<1>1. CASE UNCHANGED socketVars
  BY <1>1 DEF socketVars
<1>2. ASSUME NEW s \in Shops, NEW t \in Tokens \cup {None}, ChangeIntegration(s, t)
      PROVE  RestTyped'
  BY <1>2, SupervisorAssumption DEF ChangeIntegration
<1>3. CASE EndContext
  BY <1>3 DEF EndContext
<1>4. CASE SweepReads \/ SweepEnds \/ SocketShutdown
  BY <1>4 DEF SweepReads, SweepEnds, SocketShutdown, NoSweep
<1>5. CASE SweepDrops
  BY <1>5 DEF SweepDrops, ShapeOK
<1>6. ASSUME NEW s \in Shops, SweepDials(s) PROVE RestTyped'
  <2>1. sweep' = [sweep EXCEPT !.todo = @ \ {s}] /\ UNCHANGED <<done, changes>>
    BY <1>6 DEF SweepDials
  <2> QED
    BY <2>1 DEF ShapeOK
<1>7. ASSUME NEW l \in Loops, Connect(l) \/ Disconnect(l) \/ LoopEnds(l) PROVE RestTyped'
  BY <1>7 DEF Connect, Disconnect, LoopEnds
<1> QED
  BY <1>1, <1>2, <1>3, <1>4, <1>5, <1>6, <1>7 DEF Next, Supervise

(* The integrations, the map, the goroutines and the sweep keep their      *)
(* types: the deferred delete of an ending goroutine finds a shop to       *)
(* delete, and a sweep wants tokens of shops only.                         *)
THEOREM SocketTypes == Spec => []TypeOK
<1>1. Init => RestTyped
  <2> SUFFICES ASSUME Init PROVE RestTyped
    OBVIOUS
  <2>1. sweep.pc = "wait"
    BY DEF Init, NoSweep
  <2>2. done = FALSE /\ changes \in 0..MaxChanges
    BY SupervisorAssumption DEF Init
  <2> QED
    BY <2>1, <2>2 DEF RestTyped
<1>2. SocketInv /\ RestTyped => TypeOK
  BY DEF SocketInv, ShapeOK, RestTyped, TypeOK, Loop, Sweep
<1>3. SocketInv => ShapeOK
  BY DEF SocketInv
<1> QED
  BY <1>1, <1>2, <1>3, RestStep, SocketInit, SocketStep, PTL DEF Spec

=============================================================================
