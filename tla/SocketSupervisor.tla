-------------------------- MODULE SocketSupervisor --------------------------
(***************************************************************************)
(* The live carrier connections of internal/delivery/socket.go: a          *)
(* supervisor that sweeps the integrations every socketWatchInterval, the  *)
(* map socketConns it keeps under socketMu, and one goroutine (loop) per   *)
(* connection, which takes its shop out of the map when it ends.           *)
(*                                                                         *)
(* Each critical section of socketMu is one step.  Between two of them the *)
(* goroutines, and the operator who connects and disconnects shops, go on. *)
(***************************************************************************)
EXTENDS Naturals, FiniteSets

CONSTANTS
    Shops,
    Tokens,        \* access tokens of the carrier
    None,          \* no usable integration, no entry, no loop
    Loops,         \* bound: goroutines alive at the same time
    MaxChanges     \* bound: changes of the integrations

ASSUME SupervisorAssumption ==
    /\ None \notin Tokens
    /\ None \notin Loops
    /\ MaxChanges \in Nat

VARIABLES
    token,         \* the decrypted token of each shop in delivery_integrations
    conns,         \* socketConns: the loop that owns a shop's entry
    loop,          \* the goroutines
    sweep,         \* the supervisor: where it is, and what it wants
    done,          \* the worker's context has ended
    changes

socketVars == <<token, conns, loop, sweep, done, changes>>

-----------------------------------------------------------------------------

Loop  == [alive : BOOLEAN, cancelled : BOOLEAN, up : BOOLEAN,
          shop : Shops \cup {None}, token : Tokens \cup {None}]
Sweep == [pc : {"wait", "drop", "dial", "ended"},
          desired : [Shops -> Tokens \cup {None}], todo : SUBSET Shops]

NoLoop == [alive |-> FALSE, cancelled |-> FALSE, up |-> FALSE,
           shop |-> None, token |-> None]
NoSweep(pc) == [pc |-> pc, desired |-> [s \in Shops |-> None], todo |-> {}]

(* Mutated form: the goroutine has a context of its own.                   *)
StoppedAlone(l) == loop[l].cancelled

(* A goroutine's context is derived from the supervisor's.                 *)
Stopped(l) == loop[l].cancelled \/ done

Init ==
    /\ token \in [Shops -> Tokens \cup {None}]
    /\ conns = [s \in Shops |-> None]
    /\ loop = [l \in Loops |-> NoLoop]
    /\ sweep = NoSweep("wait")
    /\ done = FALSE
    /\ changes = 0

-----------------------------------------------------------------------------

(* SaveIntegration and DeleteIntegration.                                  *)
ChangeIntegration(s, t) ==
    /\ changes < MaxChanges
    /\ token[s] # t
    /\ token' = [token EXCEPT ![s] = t]
    /\ changes' = changes + 1
    /\ UNCHANGED <<conns, loop, sweep, done>>

(* The worker shuts down; socketShutdown cancels what is in the map.       *)
EndContext ==
    /\ ~done
    /\ done' = TRUE
    /\ UNCHANGED <<token, conns, loop, sweep, changes>>

SocketShutdown ==
    /\ done
    /\ sweep.pc = "wait"
    /\ sweep' = NoSweep("ended")
    /\ loop' = [l \in Loops |->
                  [loop[l] EXCEPT !.cancelled = @ \/ \E s \in Shops : conns[s] = l]]
    /\ conns' = [s \in Shops |-> None]
    /\ UNCHANGED <<token, done, changes>>

-----------------------------------------------------------------------------
(* socketSweep.                                                            *)

(* The integrations are listed and their tokens decrypted; when that       *)
(* fails the sweep is over (and the ticker brings the next one).           *)
SweepReads ==
    /\ sweep.pc = "wait"
    /\ ~done
    /\ sweep' = [pc |-> "drop", desired |-> token,
                 todo |-> {s \in Shops : token[s] # None}]
    /\ UNCHANGED <<token, conns, loop, done, changes>>

(* The entries that are gone or re-tokened.                                *)
Outdated(s) == conns[s] # None /\ loop[conns[s]].token # sweep.desired[s]

(* Mutated forms: a dropped connection keeps its entry; a new token is not *)
(* noticed.                                                                *)
SweepDropsLazily ==
    /\ sweep.pc = "drop"
    /\ sweep' = [sweep EXCEPT !.pc = "dial"]
    /\ loop' = [l \in Loops |->
                  [loop[l] EXCEPT !.cancelled =
                      @ \/ \E s \in Shops : conns[s] = l /\ Outdated(s)]]
    /\ UNCHANGED <<token, conns, done, changes>>

SweepDropsRemoved ==
    /\ sweep.pc = "drop"
    /\ sweep' = [sweep EXCEPT !.pc = "dial"]
    /\ loop' = [l \in Loops |->
                  [loop[l] EXCEPT !.cancelled =
                      @ \/ \E s \in Shops : conns[s] = l /\ sweep.desired[s] = None]]
    /\ conns' = [s \in Shops |-> IF sweep.desired[s] = None THEN None ELSE conns[s]]
    /\ UNCHANGED <<token, done, changes>>

(* They are cancelled and taken out of the map, under one lock.            *)
SweepDrops ==
    /\ sweep.pc = "drop"
    /\ sweep' = [sweep EXCEPT !.pc = "dial"]
    /\ loop' = [l \in Loops |->
                  [loop[l] EXCEPT !.cancelled =
                      @ \/ \E s \in Shops : conns[s] = l /\ Outdated(s)]]
    /\ conns' = [s \in Shops |-> IF Outdated(s) THEN None ELSE conns[s]]
    /\ UNCHANGED <<token, done, changes>>

(* A shop without an entry gets one, and a goroutine.                      *)
SweepDials(s) ==
    /\ sweep.pc = "dial"
    /\ s \in sweep.todo
    /\ \/ conns[s] # None /\ UNCHANGED <<conns, loop>>
       \/ /\ conns[s] = None
          /\ \E l \in Loops :
                /\ ~loop[l].alive
                /\ loop' = [loop EXCEPT ![l] =
                              [NoLoop EXCEPT !.alive = TRUE, !.shop = s,
                                             !.token = sweep.desired[s]]]
                /\ conns' = [conns EXCEPT ![s] = l]
    /\ sweep' = [sweep EXCEPT !.todo = @ \ {s}]
    /\ UNCHANGED <<token, done, changes>>

SweepEnds ==
    /\ sweep.pc = "dial"
    /\ sweep.todo = {}
    /\ sweep' = NoSweep("wait")
    /\ UNCHANGED <<token, conns, loop, done, changes>>

-----------------------------------------------------------------------------
(* The goroutines.                                                         *)

(* socketRunOnce dials, and stays until the connection drops.              *)
Connect(l) ==
    /\ loop[l].alive /\ ~Stopped(l) /\ ~loop[l].up
    /\ loop' = [loop EXCEPT ![l].up = TRUE]
    /\ UNCHANGED <<token, conns, sweep, done, changes>>

Disconnect(l) ==
    /\ loop[l].up /\ ~Stopped(l)
    /\ loop' = [loop EXCEPT ![l].up = FALSE]
    /\ UNCHANGED <<token, conns, sweep, done, changes>>

(* The loop notices that it is cancelled, closes its connection, and the   *)
(* deferred function deletes its shop's entry, whoever's it is by now.     *)
LoopEnds(l) ==
    /\ loop[l].alive /\ Stopped(l)
    /\ loop' = [loop EXCEPT ![l] = NoLoop]
    /\ conns' = [conns EXCEPT ![loop[l].shop] = None]
    /\ UNCHANGED <<token, sweep, done, changes>>

-----------------------------------------------------------------------------

Supervise ==
    SweepReads \/ SweepDrops \/ (\E s \in Shops : SweepDials(s)) \/ SweepEnds
    \/ SocketShutdown

Next ==
    \/ \E s \in Shops, t \in Tokens \cup {None} : ChangeIntegration(s, t)
    \/ EndContext
    \/ Supervise
    \/ \E l \in Loops : Connect(l) \/ Disconnect(l) \/ LoopEnds(l)

Spec == Init /\ [][Next]_socketVars

(* The ticker brings sweep after sweep, a goroutine that is cancelled ends *)
(* and one that is not keeps dialing.  Nothing ends the worker's context.  *)
FairSpec ==
    /\ Spec
    /\ WF_socketVars(Supervise)
    /\ \A l \in Loops : WF_socketVars(Connect(l)) /\ WF_socketVars(LoopEnds(l))

-----------------------------------------------------------------------------

(* The shape of the map and of the goroutines' memory.                     *)
TypeOK ==
    /\ token \in [Shops -> Tokens \cup {None}]
    /\ conns \in [Shops -> Loops \cup {None}]
    /\ loop \in [Loops -> Loop]
    /\ sweep \in Sweep
    /\ done \in BOOLEAN
    /\ changes \in 0..MaxChanges

Live(l) == loop[l].alive /\ ~Stopped(l)

(* The supervisor never believes in a connection that is going away: an    *)
(* entry of the map belongs to a live goroutine of that shop, so a shop    *)
(* with an entry need not be dialed.                                       *)
EntriesAreLive ==
    ~done => \A s \in Shops :
        conns[s] # None => Live(conns[s]) /\ loop[conns[s]].shop = s

(* A shop whose integration has settled ends up with a live connection     *)
(* that uses its token, whatever was changed and dropped on the way.       *)
ConnectedInTheEnd ==
    \A s \in Shops :
        <>[](\/ done
             \/ token[s] = None
             \/ \E l \in Loops : Live(l) /\ loop[l].shop = s /\ loop[l].token = token[s])

(* Every goroutine ends with the worker, those the map has lost included.  *)
ShutdownEndsAll == done ~> \A l \in Loops : ~loop[l].alive

-----------------------------------------------------------------------------
(* Promises of comments and documents which the code does not keep: TLC    *)
(* finds a counterexample to each.                                         *)

(* The comment of RunSocketSupervisor: one live socket per connected shop. *)
OneConnectionPerShop ==
    \A l1, l2 \in Loops :
        Live(l1) /\ Live(l2) /\ loop[l1].shop = loop[l2].shop => l1 = l2

(* The comment of socketSweep: connections whose token changed, or whose   *)
(* integration was removed, are dropped.                                   *)
OutdatedAreDropped ==
    \A l \in Loops : \A s \in Shops :
        loop[l].alive /\ loop[l].shop = s /\ loop[l].token # token[s] ~>
            ~loop[l].alive \/ loop[l].token = token[s]

=============================================================================
