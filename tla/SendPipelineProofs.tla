------------------------- MODULE SendPipelineProofs -------------------------
(* Proofs about SendPipeline for any number of keys, workers, handlers and *)
(* faults: one acceptance per key, an honest ledger, a pause that stops    *)
(* queued sends, and held-back events that are not forgotten.              *)
EXTENDS SendPipeline, TLAPS

(* The part of the invariant that is about messages.                       *)
Ledger ==
    /\ AtMostOneAccepted
    /\ LedgerHonest
    /\ OneOwner
    /\ OwnedIsQueued
    /\ AcceptedByItsOwner

-----------------------------------------------------------------------------
(* What the moves of one sender leave of the senders' memory.              *)

LEMMA GotoMoves ==
    ASSUME sender \in [Senders -> Sender], NEW s \in Senders, NEW step \in Steps,
           Goto(s, step)
    PROVE  /\ sender' \in [Senders -> Sender]
           /\ sender'[s].pc = step
           /\ sender'[s].key = sender[s].key /\ sender'[s].muted = sender[s].muted
           /\ \A t \in Senders \ {s} : sender'[t] = sender[t]
<1>1. sender[s] \in Sender
    OBVIOUS
<1>2. sender' = [sender EXCEPT ![s] = [sender[s] EXCEPT !.pc = step]]
    BY DEF Goto
<1>3. /\ [sender[s] EXCEPT !.pc = step] \in Sender
      /\ [sender[s] EXCEPT !.pc = step].pc = step
      /\ [sender[s] EXCEPT !.pc = step].key = sender[s].key
      /\ [sender[s] EXCEPT !.pc = step].muted = sender[s].muted
    BY <1>1 DEF Sender
<1> QED
    BY <1>2, <1>3

LEMMA ResultMoves ==
    ASSUME sender \in [Senders -> Sender], NEW s \in Senders, NEW step \in Steps,
           NEW result \in Results,
           sender' = [sender EXCEPT ![s].pc = step, ![s].result = result]
    PROVE  /\ sender' \in [Senders -> Sender]
           /\ sender'[s].pc = step /\ sender'[s].result = result
           /\ sender'[s].key = sender[s].key /\ sender'[s].muted = sender[s].muted
           /\ \A t \in Senders \ {s} : sender'[t] = sender[t]
<1> DEFINE u == [sender[s] EXCEPT !.pc = step, !.result = result]
<1>1. sender[s] \in Sender
    OBVIOUS
<1>2. sender' = [sender EXCEPT ![s] = u]
    OBVIOUS
<1>3. u \in Sender /\ u.pc = step /\ u.result = result /\ u.key = sender[s].key /\ u.muted = sender[s].muted
    BY <1>1 DEF Sender
<1> HIDE DEF u
<1> QED
    BY <1>2, <1>3

LEMMA StopMoves ==
    ASSUME sender \in [Senders -> Sender], NEW s \in Senders, Stop(s)
    PROVE  /\ sender' \in [Senders -> Sender]
           /\ sender'[s].pc = "idle" /\ ~sender'[s].muted
           /\ \A t \in Senders \ {s} : sender'[t] = sender[t]
<1>1. Idle \in Sender
    BY PipelineAssumption DEF Idle, Sender, Steps, Modes, Results
<1>2. Idle.pc = "idle" /\ ~Idle.muted
    BY DEF Idle
<1>3. sender' = [sender EXCEPT ![s] = Idle]
    BY DEF Stop
<1> QED
    BY <1>1, <1>2, <1>3

LEMMA BeginMoves ==
    ASSUME sender \in [Senders -> Sender], enabled \in BOOLEAN,
           NEW s \in Senders, NEW k \in Keys, NEW mode \in Modes, NEW step \in Steps,
           Begin(s, k, mode, step)
    PROVE  /\ sender' \in [Senders -> Sender]
           /\ sender'[s].pc = step /\ sender'[s].key = k
           /\ sender'[s].muted = ~enabled
           /\ \A t \in Senders \ {s} : sender'[t] = sender[t]
BY DEF Begin, Sender, Results

(* A step that touches neither the ledger nor Meta, and after which nobody *)
(* owns a row he did not own before, keeps the ledger's invariant.         *)
LEMMA LedgerUntouched ==
    ASSUME Ledger, UNCHANGED <<message, accepted>>,
           \A s \in Senders : \A k \in Keys :
               Owns(s, k)' => Owns(s, k) /\ sender'[s].pc = sender[s].pc
    PROVE  Ledger'
<1>1. AtMostOneAccepted' /\ LedgerHonest'
    BY DEF Ledger, AtMostOneAccepted, LedgerHonest
<1>2. OneOwner'
    BY DEF Ledger, OneOwner
<1>3. OwnedIsQueued'
    BY DEF Ledger, OwnedIsQueued
<1>4. AcceptedByItsOwner'
    BY DEF Ledger, AcceptedByItsOwner, At
<1> QED
    BY <1>1, <1>2, <1>3, <1>4 DEF Ledger

(* The same, for a step in which a single sender moves to a step where it  *)
(* owns nothing.                                                           *)
LEMMA MoveOutside ==
    ASSUME Ledger, UNCHANGED <<message, accepted>>, NEW s \in Senders,
           sender'[s].pc \notin {"call", "marksent", "markfailed"},
           \A t \in Senders \ {s} : sender'[t] = sender[t]
    PROVE  Ledger'
BY LedgerUntouched DEF Owns, Key

(* A worker that moves keeps to the gate's verdict.                        *)
LEMMA PauseKept ==
    ASSUME PauseStopsQueuedSends, UNCHANGED enabled, NEW s \in Senders,
           s \in Workers /\ sender'[s].muted =>
               sender[s].muted /\ sender'[s].pc \in {"gate", "finish"},
           \A t \in Senders \ {s} : sender'[t] = sender[t]
    PROVE  PauseStopsQueuedSends'
BY DEF PauseStopsQueuedSends, Senders

(* The queue's steps keep the slots well formed.                           *)
LEMMA SlotMoves ==
    ASSUME slot \in [Keys -> Queue!SlotStates], tries \in [Keys -> 0..MaxAttempts],
           NEW k \in Keys,
           \/ Queue!Take({k}) \/ Queue!Add(k) \/ Queue!Finish(k)
           \/ Queue!GiveBack(k) \/ Queue!Lose({k}) \/ UNCHANGED <<slot, tries>>
    PROVE  /\ slot' \in [Keys -> Queue!SlotStates]
           /\ tries' \in [Keys -> 0..MaxAttempts]
BY PipelineAssumption
DEF Queue!SlotStates, Queue!Take, Queue!Add, Queue!Finish, Queue!GiveBack, Queue!Lose

-----------------------------------------------------------------------------

LEMMA InitInvariant == Init => IInv
<1> SUFFICES ASSUME Init PROVE IInv
    OBVIOUS
<1>1. Idle \in Sender
    BY PipelineAssumption DEF Idle, Sender, Steps, Modes, Results
<1>2. TypeOK
    <2>1. slot \in [Keys -> Queue!SlotStates] /\ tries \in [Keys -> 0..MaxAttempts]
        BY PipelineAssumption DEF Init, Queue!SlotInit, Queue!SlotStates
    <2>2. sender \in [Senders -> Sender]
        BY <1>1 DEF Init
    <2>3. enabled \in BOOLEAN /\ optedOut \in BOOLEAN
        BY Zenon DEF Init
    <2>4. faults \in 0..MaxFaults
        BY PipelineAssumption DEF Init
    <2>5. /\ message \in [Keys -> {"none", "queued", "sent", "failed"}]
          /\ held \subseteq Keys /\ scheduled \subseteq Keys
          /\ consent \in {"none", "opt_in", "revoked"}
          /\ accepted \in [Keys -> Nat]
        BY DEF Init
    <2> QED
        BY <2>1, <2>2, <2>3, <2>4, <2>5 DEF TypeOK
<1>3. \A s \in Senders : sender[s].pc = "idle" /\ ~sender[s].muted
    BY DEF Init, Idle
<1>4. OneOwner /\ OwnedIsQueued /\ AcceptedByItsOwner
    BY <1>3 DEF OneOwner, OwnedIsQueued, AcceptedByItsOwner, Owns
<1>5. AtMostOneAccepted /\ LedgerHonest
    BY DEF Init, AtMostOneAccepted, LedgerHonest
<1>6. PauseStopsQueuedSends
    BY <1>3 DEF PauseStopsQueuedSends, Senders
<1> QED
    BY <1>2, <1>4, <1>5, <1>6 DEF IInv

(* The merchant's switches touch no message; resuming unmutes every sender.*)
LEMMA MerchantInvariant ==
    ASSUME IInv,
           \/ \E b \in BOOLEAN : SetEnabled(b)
           \/ \E status \in {"opt_in", "revoked"} : SetConsent(status)
    PROVE  IInv'
<1>1. /\ Ledger /\ TypeOK /\ PauseStopsQueuedSends
      /\ sender \in [Senders -> Sender]
    BY DEF IInv, Ledger, TypeOK
<1>2. CASE \E status \in {"opt_in", "revoked"} : SetConsent(status)
    <2>1. TypeOK'
        BY <1>1, <1>2 DEF SetConsent, TypeOK
    <2>2. Ledger'
        BY <1>1, <1>2, LedgerUntouched DEF SetConsent, Owns, Key
    <2>3. PauseStopsQueuedSends'
        BY <1>1, <1>2 DEF SetConsent, PauseStopsQueuedSends
    <2> QED
        BY <2>1, <2>2, <2>3 DEF IInv, Ledger
<1>3. ASSUME NEW b \in BOOLEAN, SetEnabled(b) PROVE IInv'
    <2>1. /\ UNCHANGED <<slot, tries, message, held, consent, faults, accepted,
                        scheduled, optedOut>>
          /\ enabled' = b /\ enabled # b
        BY <1>3 DEF SetEnabled
    <2>2. ASSUME NEW s \in Senders
          PROVE  /\ sender'[s] \in Sender
                 /\ sender'[s].pc = sender[s].pc
                 /\ sender'[s].key = sender[s].key
                 /\ sender'[s].muted = (sender[s].muted /\ ~b)
        <3> DEFINE u == [sender[s] EXCEPT !.muted = sender[s].muted /\ ~b]
        <3>1. sender[s] \in Sender
            BY <1>1
        <3>2. sender'[s] = u
            BY <1>3 DEF SetEnabled
        <3>3. /\ u \in Sender /\ u.pc = sender[s].pc /\ u.key = sender[s].key
              /\ u.muted = (sender[s].muted /\ ~b)
            BY <3>1 DEF Sender
        <3> QED
            BY <3>2, <3>3
    <2>3. sender' \in [Senders -> Sender]
        BY <1>3, <2>2 DEF SetEnabled
    <2>4. TypeOK'
        BY <1>1, <2>1, <2>3 DEF TypeOK
    <2>5. Ledger'
        BY <1>1, <2>1, <2>2, LedgerUntouched DEF Owns, Key
    <2>6. PauseStopsQueuedSends'
        BY <1>1, <2>1, <2>2 DEF PauseStopsQueuedSends, Senders
    <2> QED
        BY <2>4, <2>5, <2>6 DEF IInv, Ledger
<1> QED
    BY <1>2, <1>3

(* Senders that set out: a worker with a job starts muted if its           *)
(* automation is paused.                                                   *)
LEMMA BeginInvariant ==
    ASSUME IInv, NEW k \in Keys,
           \/ \E w \in Workers : TakeJob(w, k)
           \/ \E c \in Callers : EventArrives(c, k) \/ RetryPending(c, k)
    PROVE  IInv'
<1>1. /\ Ledger /\ TypeOK /\ PauseStopsQueuedSends
      /\ sender \in [Senders -> Sender] /\ enabled \in BOOLEAN
    BY DEF IInv, Ledger, TypeOK
<1>2. ASSUME NEW w \in Workers, TakeJob(w, k) PROVE IInv'
    <2>1. /\ Begin(w, k, "job", "gate") /\ Queue!Take({k}) /\ w \in Senders
          /\ UNCHANGED <<message, held, enabled, consent, faults, accepted,
                         scheduled, optedOut>>
        BY <1>2 DEF TakeJob, Senders
    <2>2. /\ sender' \in [Senders -> Sender]
          /\ sender'[w].pc = "gate" /\ sender'[w].muted = ~enabled
          /\ \A t \in Senders \ {w} : sender'[t] = sender[t]
        BY <1>1, <2>1, BeginMoves DEF Modes, Steps
    <2>3. TypeOK'
        BY <1>1, <2>1, <2>2, SlotMoves DEF TypeOK
    <2>4. Ledger'
        BY <1>1, <2>1, <2>2, MoveOutside
    <2>5. PauseStopsQueuedSends'
        BY <1>1, <2>1, <2>2 DEF PauseStopsQueuedSends, Senders
    <2> QED
        BY <2>3, <2>4, <2>5 DEF IInv, Ledger
<1>3. ASSUME NEW c \in Callers, EventArrives(c, k) \/ RetryPending(c, k) PROVE IInv'
    <2>1. /\ Begin(c, k, "event", "match") \/ Begin(c, k, "retry", "exists")
          /\ c \in Senders
          /\ UNCHANGED <<slot, tries, message, held, enabled, consent, faults,
                         accepted, scheduled, optedOut>>
        BY <1>3 DEF EventArrives, RetryPending, Senders
    <2>2. /\ sender' \in [Senders -> Sender]
          /\ sender'[c].pc \in {"match", "exists"}
          /\ \A t \in Senders \ {c} : sender'[t] = sender[t]
        BY <1>1, <2>1, BeginMoves DEF Modes, Steps
    <2>3. TypeOK'
        BY <1>1, <2>1, <2>2 DEF TypeOK
    <2>4. Ledger'
        BY <1>1, <2>1, <2>2, MoveOutside
    <2>5. PauseStopsQueuedSends'
        BY <1>1, <2>1, <2>2, PipelineAssumption DEF PauseStopsQueuedSends, Senders
    <2> QED
        BY <2>3, <2>4, <2>5 DEF IInv, Ledger
<1> QED
    BY <1>2, <1>3

(* The steps that read, or write beside the ledger: the sender moves on    *)
(* inside SendTemplateMessage, or towards it, and owns nothing.            *)
LEMMA BesideLedger ==
    ASSUME IInv, NEW s \in Senders,
           \/ Gate(s) \/ Match(s) \/ Exists(s) \/ Grant(s) \/ Compose(s)
           \/ Lookup(s) \/ Rules(s) \/ FinishInline(s) \/ Clear(s)
    PROVE  IInv'
<1> DEFINE Outside == {"match", "grant", "exists", "compose", "clear", "lookup",
                       "rules", "reserve", "idle", "finish"}
<1>1. /\ Ledger /\ TypeOK /\ PauseStopsQueuedSends
      /\ sender \in [Senders -> Sender]
    BY DEF IInv, Ledger, TypeOK
<1>2. UNCHANGED <<message, enabled, faults, accepted, optedOut>>
    BY DEF Gate, Match, Exists, Grant, Compose, Lookup, Rules, FinishInline, Clear
<1>3. /\ slot' \in [Keys -> Queue!SlotStates]
      /\ tries' \in [Keys -> 0..MaxAttempts]
      /\ held' \subseteq Keys /\ scheduled' \subseteq Keys
      /\ consent' \in {"none", "opt_in", "revoked"}
    <2>1. sender[s].key \in Keys
        BY <1>1 DEF Sender
    <2>2. CASE Compose(s)
        BY <1>1, <2>1, <2>2, SlotMoves DEF Compose, Key, TypeOK
    <2>3. CASE Grant(s)
        BY <1>1, <2>3 DEF Grant, TypeOK
    <2>4. CASE Clear(s)
        BY <1>1, <2>4 DEF Clear, TypeOK
    <2>5. CASE Gate(s) \/ Match(s) \/ Exists(s) \/ Lookup(s) \/ Rules(s) \/ FinishInline(s)
        BY <1>1, <2>5 DEF Gate, Match, Exists, Lookup, Rules, FinishInline, TypeOK
    <2> QED
        BY <2>2, <2>3, <2>4, <2>5
<1>4. \/ \E step \in Outside : Goto(s, step)
      \/ \E result \in Results : Return(s, result)
      \/ Stop(s)
      \/ sender' = [sender EXCEPT ![s].pc = "lookup", ![s].muted = FALSE]
    BY DEF Gate, Match, Exists, Grant, Compose, Lookup, Rules, FinishInline, Clear,
           Results
<1>5. /\ sender' \in [Senders -> Sender]
      /\ sender'[s].pc \in Outside
      /\ sender'[s].muted => sender[s].muted
      /\ \A t \in Senders \ {s} : sender'[t] = sender[t]
    <2>1. CASE \E step \in Outside : Goto(s, step)
        BY <1>1, <2>1, GotoMoves DEF Steps
    <2>2. CASE \E result \in Results : Return(s, result)
        BY <1>1, <2>2, ResultMoves DEF Return, Steps
    <2>3. CASE Stop(s)
        BY <1>1, <2>3, StopMoves
    <2>4. CASE sender' = [sender EXCEPT ![s].pc = "lookup", ![s].muted = FALSE]
        <3> DEFINE u == [sender[s] EXCEPT !.pc = "lookup", !.muted = FALSE]
        <3>1. sender[s] \in Sender
            BY <1>1
        <3>2. sender' = [sender EXCEPT ![s] = u]
            BY <2>4
        <3>3. u \in Sender /\ u.pc = "lookup" /\ u.muted = FALSE
            BY <3>1 DEF Sender, Steps
        <3> HIDE DEF u
        <3> QED
            BY <1>1, <3>2, <3>3
    <2> QED
        BY <1>4, <2>1, <2>2, <2>3, <2>4
<1>6. TypeOK'
    BY <1>1, <1>2, <1>3, <1>5 DEF TypeOK
<1>7. Ledger'
    BY <1>1, <1>2, <1>5, MoveOutside
<1>8. s \in Workers /\ sender'[s].muted => sender'[s].pc \in {"gate", "finish"}
    <2> SUFFICES ASSUME s \in Workers, sender'[s].muted
                 PROVE  sender'[s].pc = "finish"
        OBVIOUS
    <2>1. sender[s].muted /\ ~enabled /\ sender[s].pc \in {"gate", "finish"}
        BY <1>1, <1>5 DEF PauseStopsQueuedSends
    <2>2. Gate(s)
        BY <2>1, PipelineAssumption
        DEF Match, Exists, Grant, Compose, Lookup, Rules, FinishInline, Clear, At
    <2>3. CASE Return(s, "nil")
        BY <1>1, <2>3, ResultMoves DEF Return, Steps, Results
    <2>4. CASE sender' = [sender EXCEPT ![s].pc = "lookup", ![s].muted = FALSE]
        BY <1>1, <2>4 DEF Sender
    <2> QED
        BY <2>1, <2>2, <2>3, <2>4 DEF Gate
<1>9. PauseStopsQueuedSends'
    BY <1>1, <1>2, <1>5, <1>8, PauseKept
<1> QED
    BY <1>6, <1>7, <1>9 DEF IInv, Ledger

(* The end of a job, and of a sender: what it held is given up.            *)
LEMMA EndInvariant ==
    ASSUME IInv, NEW s \in Senders, FinishJob(s) \/ Die(s)
    PROVE  IInv'
<1>1. /\ Ledger /\ TypeOK /\ PauseStopsQueuedSends
      /\ sender \in [Senders -> Sender]
    BY DEF IInv, Ledger, TypeOK
<1>2. /\ Stop(s)
      /\ UNCHANGED <<message, held, enabled, consent, accepted, scheduled, optedOut>>
    BY DEF FinishJob, Die
<1>3. /\ slot' \in [Keys -> Queue!SlotStates]
      /\ tries' \in [Keys -> 0..MaxAttempts]
    <2>1. sender[s].key \in Keys
        BY <1>1 DEF Sender
    <2> QED
        BY <1>1, <2>1, SlotMoves DEF FinishJob, Die, Key, TypeOK
<1>4. faults' \in 0..MaxFaults
    BY <1>1, PipelineAssumption DEF FinishJob, Die, TypeOK
<1>5. /\ sender' \in [Senders -> Sender]
      /\ sender'[s].pc = "idle" /\ ~sender'[s].muted
      /\ \A t \in Senders \ {s} : sender'[t] = sender[t]
    BY <1>1, <1>2, StopMoves
<1>6. TypeOK'
    BY <1>1, <1>2, <1>3, <1>4, <1>5 DEF TypeOK
<1>7. Ledger'
    BY <1>1, <1>2, <1>5, MoveOutside
<1>8. PauseStopsQueuedSends'
    BY <1>1, <1>2, <1>5, PauseKept
<1> QED
    BY <1>6, <1>7, <1>8 DEF IInv, Ledger

(* The reservation: the row was absent, so nobody owned it and Meta has    *)
(* accepted nothing; now its one owner is about to call.                   *)
LEMMA ReserveInvariant ==
    ASSUME IInv, NEW s \in Senders, Reserve(s)
    PROVE  IInv'
<1>1. /\ Ledger /\ TypeOK /\ PauseStopsQueuedSends
      /\ sender \in [Senders -> Sender] /\ sender[s].pc = "reserve"
      /\ message \in [Keys -> {"none", "queued", "sent", "failed"}]
      /\ UNCHANGED <<slot, tries, held, enabled, consent, faults, accepted,
                     scheduled, optedOut>>
    BY DEF IInv, Ledger, TypeOK, Reserve, At
<1>2. s \notin Workers \/ ~sender[s].muted
    BY <1>1 DEF PauseStopsQueuedSends
<1>3. CASE Return(s, "error") /\ UNCHANGED message
    <2>1. /\ sender' \in [Senders -> Sender]
          /\ sender'[s].pc = "finish" /\ sender'[s].muted = sender[s].muted
          /\ \A t \in Senders \ {s} : sender'[t] = sender[t]
        BY <1>1, <1>3, ResultMoves DEF Return, Steps, Results
    <2>2. TypeOK'
        BY <1>1, <1>3, <2>1 DEF TypeOK
    <2>3. Ledger'
        BY <1>1, <1>3, <2>1, MoveOutside
    <2>4. PauseStopsQueuedSends'
        BY <1>1, <1>2, <2>1, PauseKept
    <2> QED
        BY <2>2, <2>3, <2>4 DEF IInv, Ledger
<1>4. ASSUME message[Key(s)] = "none",
             message' = [message EXCEPT ![Key(s)] = "queued"],
             Goto(s, "call")
      PROVE  IInv'
    <2> DEFINE k == sender[s].key
    <2>1. /\ sender' \in [Senders -> Sender]
          /\ sender'[s].pc = "call" /\ sender'[s].key = k
          /\ sender'[s].muted = sender[s].muted
          /\ \A t \in Senders \ {s} : sender'[t] = sender[t]
        BY <1>1, <1>4, GotoMoves DEF Steps
    <2>2. /\ k \in Keys /\ message[k] = "none" /\ accepted[k] = 0
          /\ message' = [message EXCEPT ![k] = "queued"]
          /\ \A t \in Senders : ~Owns(t, k)
        BY <1>1, <1>4 DEF Sender, Key, Ledger, LedgerHonest, OwnedIsQueued
    <2>3. \A t \in Senders, x \in Keys :
            Owns(t, x)' <=> \/ t = s /\ x = k
                            \/ t # s /\ x # k /\ Owns(t, x)
        BY <1>1, <2>1, <2>2 DEF Owns, Key
    <2>4. message'[k] = "queued" /\ \A x \in Keys \ {k} : message'[x] = message[x]
        BY <1>1, <2>2
    <2>5. TypeOK'
        BY <1>1, <2>1, <2>2 DEF TypeOK
    <2>6. AtMostOneAccepted' /\ LedgerHonest'
        BY <1>1, <2>2, <2>4 DEF Ledger, AtMostOneAccepted, LedgerHonest
    <2>7. OneOwner'
        BY <1>1, <2>3 DEF Ledger, OneOwner
    <2>8. OwnedIsQueued'
        BY <1>1, <2>3, <2>4 DEF Ledger, OwnedIsQueued
    <2>9. AcceptedByItsOwner'
        BY <1>1, <2>1, <2>2, <2>3 DEF Ledger, AcceptedByItsOwner, At
    <2>10. PauseStopsQueuedSends'
        BY <1>1, <1>2, <2>1, PauseKept
    <2> QED
        BY <2>5, <2>6, <2>7, <2>8, <2>9, <2>10 DEF IInv
<1> QED
    BY <1>3, <1>4 DEF Reserve

(* The call to Meta: its owner is the only one who can add the acceptance. *)
LEMMA CallInvariant ==
    ASSUME IInv, NEW s \in Senders, CallMeta(s)
    PROVE  IInv'
<1> DEFINE k == sender[s].key
<1>1. /\ Ledger /\ TypeOK /\ PauseStopsQueuedSends
      /\ sender \in [Senders -> Sender] /\ sender[s].pc = "call"
      /\ accepted \in [Keys -> Nat]
      /\ UNCHANGED <<slot, tries, message, held, enabled, consent, faults,
                     scheduled, optedOut>>
    BY DEF IInv, Ledger, TypeOK, CallMeta, At
<1>2. /\ k \in Keys /\ Owns(s, k) /\ message[k] = "queued" /\ accepted[k] = 0
      /\ \A t \in Senders : Owns(t, k) => t = s
    BY <1>1 DEF Sender, Key, Owns, Ledger, OneOwner, OwnedIsQueued,
                AcceptedByItsOwner, At
<1>3. s \notin Workers \/ ~sender[s].muted
    BY <1>1 DEF PauseStopsQueuedSends
<1>4. /\ sender' \in [Senders -> Sender]
      /\ sender'[s].pc \in {"marksent", "markfailed"} /\ sender'[s].key = k
      /\ sender'[s].muted = sender[s].muted
      /\ \A t \in Senders \ {s} : sender'[t] = sender[t]
      /\ sender'[s].pc = "marksent" => accepted' = [accepted EXCEPT ![k] = @ + 1]
    <2>1. CASE /\ accepted' = [accepted EXCEPT ![Key(s)] = @ + 1]
               /\ Goto(s, "marksent")
        BY <1>1, <2>1, GotoMoves DEF Steps, Key
    <2>2. CASE \E result \in {"rejected", "outage"} :
                 sender' = [sender EXCEPT ![s].pc = "markfailed", ![s].result = result]
        BY <1>1, <2>2, ResultMoves DEF Steps, Results
    <2> QED
        BY <2>1, <2>2 DEF CallMeta
<1>5. \/ accepted' = accepted
      \/ accepted' = [accepted EXCEPT ![k] = @ + 1]
    BY DEF CallMeta, Key
<1>6. /\ accepted' \in [Keys -> Nat] /\ accepted'[k] \in {0, 1}
      /\ sender'[s].pc = "marksent" => accepted'[k] = 1
      /\ \A x \in Keys \ {k} : accepted'[x] = accepted[x]
    BY <1>1, <1>2, <1>4, <1>5
<1>7. \A t \in Senders, x \in Keys : Owns(t, x)' <=> Owns(t, x)
    BY <1>1, <1>4 DEF Owns, Key
<1>8. TypeOK'
    BY <1>1, <1>4, <1>6 DEF TypeOK
<1>9. AtMostOneAccepted' /\ LedgerHonest'
    BY <1>1, <1>2, <1>6 DEF Ledger, AtMostOneAccepted, LedgerHonest
<1>10. OneOwner' /\ OwnedIsQueued'
    BY <1>1, <1>7 DEF Ledger, OneOwner, OwnedIsQueued
<1>11. AcceptedByItsOwner'
    BY <1>1, <1>2, <1>4, <1>6, <1>7 DEF Ledger, AcceptedByItsOwner, At, Owns
<1>12. PauseStopsQueuedSends'
    BY <1>1, <1>3, <1>4, PauseKept
<1> QED
    BY <1>8, <1>9, <1>10, <1>11, <1>12 DEF IInv, Ledger

(* The verdict: the owner lets go of the row, whether or not it is written.*)
LEMMA MarkInvariant ==
    ASSUME IInv, NEW s \in Senders, Mark(s)
    PROVE  IInv'
<1> DEFINE k == sender[s].key
<1>1. /\ Ledger /\ TypeOK /\ PauseStopsQueuedSends
      /\ sender \in [Senders -> Sender] /\ sender[s].pc \in {"marksent", "markfailed"}
      /\ message \in [Keys -> {"none", "queued", "sent", "failed"}]
      /\ UNCHANGED <<slot, tries, held, enabled, consent, accepted, scheduled,
                     optedOut>>
    BY DEF IInv, Ledger, TypeOK, Mark, At
<1>2. /\ k \in Keys /\ Owns(s, k) /\ message[k] = "queued"
      /\ sender[s].pc = "marksent" => accepted[k] = 1
      /\ \A t \in Senders : Owns(t, k) => t = s
    BY <1>1 DEF Sender, Key, Owns, Ledger, OneOwner, OwnedIsQueued,
                AcceptedByItsOwner, At
<1>3. s \notin Workers \/ ~sender[s].muted
    BY <1>1 DEF PauseStopsQueuedSends
<1>4. /\ sender' \in [Senders -> Sender]
      /\ sender'[s].pc = "finish" /\ sender'[s].key = k
      /\ sender'[s].muted = sender[s].muted
      /\ \A t \in Senders \ {s} : sender'[t] = sender[t]
    <2>1. Return(s, "nil") \/ Goto(s, "finish")
        BY DEF Mark
    <2> QED
        BY <1>1, <2>1, GotoMoves, ResultMoves DEF Return, Steps, Results
<1>5. /\ message' \in [Keys -> {"none", "queued", "sent", "failed"}]
      /\ \A x \in Keys \ {k} : message'[x] = message[x]
      /\ message'[k] # "none"
      /\ message'[k] = "sent" => sender[s].pc = "marksent"
    BY <1>1, <1>2 DEF Mark, Key, At
<1>6. faults' \in 0..MaxFaults
    BY <1>1, PipelineAssumption DEF Mark, TypeOK
<1>7. \A t \in Senders, x \in Keys : Owns(t, x)' <=> t # s /\ Owns(t, x)
    BY <1>1, <1>4 DEF Owns, Key
<1>8. TypeOK'
    BY <1>1, <1>4, <1>5, <1>6 DEF TypeOK
<1>9. AtMostOneAccepted' /\ LedgerHonest'
    BY <1>1, <1>2, <1>5 DEF Ledger, AtMostOneAccepted, LedgerHonest
<1>10. OneOwner'
    BY <1>1, <1>7 DEF Ledger, OneOwner
<1>11. OwnedIsQueued'
    BY <1>1, <1>2, <1>5, <1>7 DEF Ledger, OwnedIsQueued
<1>12. AcceptedByItsOwner'
    BY <1>1, <1>4, <1>7 DEF Ledger, AcceptedByItsOwner, At
<1>13. PauseStopsQueuedSends'
    BY <1>1, <1>3, <1>4, PauseKept
<1> QED
    BY <1>8, <1>9, <1>10, <1>11, <1>12, <1>13 DEF IInv, Ledger

LEMMA NextInvariant == IInv /\ [Next]_pipelineVars => IInv'
<1> SUFFICES ASSUME IInv, [Next]_pipelineVars PROVE IInv'
    OBVIOUS
<1>1. CASE UNCHANGED pipelineVars
    <2>1. TypeOK' /\ AtMostOneAccepted' /\ LedgerHonest'
        BY <1>1 DEF pipelineVars, IInv, TypeOK, AtMostOneAccepted, LedgerHonest
    <2>2. OneOwner' /\ OwnedIsQueued'
        BY <1>1 DEF pipelineVars, IInv, OneOwner, OwnedIsQueued, Owns, Key
    <2>3. AcceptedByItsOwner'
        BY <1>1 DEF pipelineVars, IInv, AcceptedByItsOwner, Owns, Key, At
    <2>4. PauseStopsQueuedSends'
        BY <1>1 DEF pipelineVars, IInv, PauseStopsQueuedSends
    <2> QED
        BY <2>1, <2>2, <2>3, <2>4 DEF IInv
<1>2. CASE \/ \E b \in BOOLEAN : SetEnabled(b)
           \/ \E status \in {"opt_in", "revoked"} : SetConsent(status)
    BY <1>2, MerchantInvariant
<1>3. CASE \/ \E w \in Workers, k \in Keys : TakeJob(w, k)
           \/ \E c \in Callers, k \in Keys : EventArrives(c, k) \/ RetryPending(c, k)
    BY <1>3, BeginInvariant
<1>4. ASSUME NEW s \in Senders, Work(s) \/ Die(s) PROVE IInv'
    BY <1>4, BesideLedger, ReserveInvariant, CallInvariant, MarkInvariant,
       EndInvariant DEF Work
<1> QED
    BY <1>1, <1>2, <1>3, <1>4 DEF Next

-----------------------------------------------------------------------------

(* The inductive invariant holds in every reachable state, whatever the    *)
(* senders, races, deaths and lost writes.                                 *)
THEOREM InvariantCorrect == Spec => []IInv
BY InitInvariant, NextInvariant, PTL DEF Spec

(* The tables and the senders' memory keep their shape.                    *)
THEOREM TypeCorrect == Spec => []TypeOK
<1>1. IInv => TypeOK
    BY DEF IInv
<1> QED
    BY <1>1, InvariantCorrect, PTL

(* Meta accepts at most one message per idempotency key: the reservation   *)
(* through the unique index is enough, without any lock around the call.   *)
THEOREM OneAcceptancePerKey == Spec => []AtMostOneAccepted
<1>1. IInv => AtMostOneAccepted
    BY DEF IInv
<1> QED
    BY <1>1, InvariantCorrect, PTL

(* A row that says sent was accepted, and no acceptance is without a row.  *)
THEOREM LedgerIsHonest == Spec => []LedgerHonest
<1>1. IInv => LedgerHonest
    BY DEF IInv
<1> QED
    BY <1>1, InvariantCorrect, PTL

(* A job claimed while its automation is paused never gets past the gate.  *)
THEOREM PauseIsObeyed == Spec => []PauseStopsQueuedSends
<1>1. IInv => PauseStopsQueuedSends
    BY DEF IInv
<1> QED
    BY <1>1, InvariantCorrect, PTL

-----------------------------------------------------------------------------
(* What a caller knows when it clears a held-back row: it has seen the     *)
(* message's row, in the end of its own send, or it has scheduled the job. *)
(* The row is never taken back, so that stays true whatever the others do. *)

Known(s) ==
    /\ At(s, "gate") => s \in Workers
    /\ s \in Callers /\ At(s, "finish") /\ sender[s].result = "nil" =>
          message[Key(s)] # "none"
    /\ At(s, "clear") => message[Key(s)] # "none" \/ Key(s) \in scheduled

ClearsTheKnown == \A s \in Senders : Known(s)

(* What the tables have learned they keep.                                 *)
Remembers ==
    /\ \A k \in Keys : message[k] # "none" => message'[k] # "none"
    /\ scheduled \subseteq scheduled'

LEMMA NextRemembers == ASSUME IInv, Next PROVE Remembers
<1>1. /\ message \in [Keys -> {"none", "queued", "sent", "failed"}]
      /\ \A s \in Senders : Key(s) \in Keys
    BY DEF IInv, TypeOK, Sender, Key
<1>2. ASSUME NEW s \in Senders, Work(s) \/ Die(s) PROVE Remembers
    <2>1. CASE Reserve(s) \/ Mark(s)
        BY <1>1, <2>1 DEF Reserve, Mark, Remembers
    <2>2. CASE Compose(s)
        BY <2>2 DEF Compose, Remembers
    <2>3. CASE \/ Gate(s) \/ Match(s) \/ Exists(s) \/ Grant(s)
               \/ Lookup(s) \/ Rules(s) \/ CallMeta(s)
               \/ FinishJob(s) \/ FinishInline(s) \/ Clear(s) \/ Die(s)
        BY <2>3 DEF Gate, Match, Exists, Grant, Lookup, Rules, CallMeta, FinishJob,
                    FinishInline, Clear, Die, Remembers
    <2> QED
        BY <1>2, <2>1, <2>2, <2>3 DEF Work
<1>3. ASSUME \/ \E b \in BOOLEAN : SetEnabled(b)
             \/ \E status \in {"opt_in", "revoked"} : SetConsent(status)
             \/ \E w \in Workers, k \in Keys : TakeJob(w, k)
             \/ \E c \in Callers, k \in Keys : EventArrives(c, k) \/ RetryPending(c, k)
      PROVE  Remembers
    BY <1>3 DEF SetEnabled, SetConsent, TakeJob, EventArrives, RetryPending, Remembers
<1> QED
    BY <1>2, <1>3 DEF Next

(* A sender that does not move keeps knowing what it knew.                 *)
LEMMA KnownStays ==
    ASSUME IInv, Remembers, NEW s \in Senders, Known(s), sender'[s] = sender[s]
    PROVE  Known(s)'
<1>1. Key(s) \in Keys
    BY DEF IInv, TypeOK, Sender, Key
<1> QED
    BY <1>1 DEF Remembers, Known, At, Key

LEMMA MoverKnows ==
    ASSUME IInv, Remembers, NEW s \in Senders, Known(s), Work(s) \/ Die(s)
    PROVE  Known(s)' /\ \A t \in Senders \ {s} : sender'[t] = sender[t]
<1> DEFINE Goal == Known(s)' /\ \A t \in Senders \ {s} : sender'[t] = sender[t]
<1>0. /\ sender \in [Senders -> Sender] /\ Key(s) \in Keys
      /\ message \in [Keys -> {"none", "queued", "sent", "failed"}]
    BY DEF IInv, TypeOK, Sender, Key
<1>1. ASSUME NEW step \in Steps \ {"gate", "finish", "clear"}, Goto(s, step) PROVE Goal
    BY <1>0, <1>1, GotoMoves DEF Known, At
<1>2. ASSUME NEW step \in Steps \ {"gate"}, Goto(s, step),
             message'[Key(s)] # "none" \/ (step = "clear" /\ Key(s) \in scheduled')
      PROVE  Goal
    BY <1>0, <1>2, GotoMoves DEF Known, At, Key
<1>3. ASSUME NEW result \in Results, Return(s, result),
             s \in Callers /\ result = "nil" => message'[Key(s)] # "none"
      PROVE  Goal
    <2>1. "finish" \in Steps
        BY DEF Steps
    <2> QED
        BY <1>0, <1>3, <2>1, ResultMoves DEF Return, Known, At, Key
<1>4. ASSUME Stop(s) PROVE Goal
    BY <1>0, <1>4, StopMoves DEF Known, At
<1>5. CASE Gate(s)
    <2>1. CASE Goto(s, "lookup")
        BY <1>1, <2>1 DEF Steps
    <2>2. CASE Return(s, "nil")
        <3>1. s \notin Callers
            BY <1>5, PipelineAssumption DEF Gate, Known
        <3> QED
            BY <1>3, <2>2, <3>1 DEF Results
    <2>3. CASE sender' = [sender EXCEPT ![s].pc = "lookup", ![s].muted = FALSE]
        <3>1. sender'[s] = [sender[s] EXCEPT !.pc = "lookup", !.muted = FALSE]
            BY <1>0, <2>3
        <3>2. sender'[s].pc = "lookup"
            BY <1>0, <3>1 DEF Sender
        <3> QED
            BY <1>0, <2>3, <3>2 DEF Known, At
    <2> QED
        BY <1>5, <2>1, <2>2, <2>3 DEF Gate
<1>6. CASE Match(s) \/ Exists(s) \/ Grant(s)
    BY <1>1, <1>4, <1>6 DEF Match, Exists, Grant, Steps
<1>7. CASE Compose(s)
    <2>1. CASE Goto(s, "clear") /\ scheduled' = scheduled \cup {Key(s)}
        BY <1>2, <2>1 DEF Steps
    <2>2. CASE Stop(s) \/ Goto(s, "lookup")
        BY <1>1, <1>4, <2>2 DEF Steps
    <2> QED
        BY <1>7, <2>1, <2>2 DEF Compose
<1>8. CASE Lookup(s)
    BY <1>1, <1>3, <1>8 DEF Lookup, Steps, Results
<1>9. CASE Rules(s)
    BY <1>1, <1>3, <1>9 DEF Rules, Steps, Results
<1>10. CASE Reserve(s)
    BY <1>1, <1>3, <1>10 DEF Reserve, Steps, Results
<1>11. CASE CallMeta(s)
    <2>1. CASE Goto(s, "marksent")
        BY <1>1, <2>1 DEF Steps
    <2>2. ASSUME NEW result \in Results,
                 sender' = [sender EXCEPT ![s].pc = "markfailed", ![s].result = result]
          PROVE  Goal
        <3>1. /\ sender'[s].pc = "markfailed"
              /\ \A t \in Senders \ {s} : sender'[t] = sender[t]
            BY <1>0, <2>2 DEF Sender
        <3> QED
            BY <3>1 DEF Known, At
    <2> QED
        BY <1>11, <2>1, <2>2 DEF CallMeta, Results
<1>12. CASE Mark(s)
    <2>1. Owns(s, Key(s))
        BY <1>12 DEF Mark, Owns, At
    <2>2. message[Key(s)] = "queued"
        BY <1>0, <2>1 DEF IInv, OwnedIsQueued
    <2>3. message'[Key(s)] # "none"
        BY <1>0, <2>2 DEF Remembers
    <2>4. CASE Return(s, "nil")
        BY <1>3, <2>3, <2>4 DEF Results
    <2>5. CASE Goto(s, "finish")
        BY <1>2, <2>3, <2>5 DEF Steps
    <2> QED
        BY <1>12, <2>4, <2>5 DEF Mark
<1>13. CASE FinishInline(s)
    <2>1. CASE Goto(s, "clear") /\ sender[s].result = "nil"
        <3>1. message[Key(s)] # "none"
            BY <1>13, <2>1 DEF FinishInline, Known
        <3>2. message'[Key(s)] # "none"
            BY <1>0, <3>1 DEF Remembers
        <3> QED
            BY <1>2, <2>1, <3>2 DEF Steps
    <2> QED
        BY <1>4, <1>13, <2>1 DEF FinishInline
<1>14. CASE FinishJob(s) \/ Clear(s) \/ Die(s)
    BY <1>4, <1>14 DEF FinishJob, Clear, Die
<1> QED
    BY <1>5, <1>6, <1>7, <1>8, <1>9, <1>10, <1>11, <1>12, <1>13, <1>14 DEF Work

LEMMA InitKnown == Init => ClearsTheKnown
<1>1. Idle.pc = "idle"
    BY DEF Idle
<1> QED
    BY <1>1 DEF Init, ClearsTheKnown, Known, At

LEMMA NextKnown == IInv /\ ClearsTheKnown /\ [Next]_pipelineVars => ClearsTheKnown'
<1> SUFFICES ASSUME IInv, ClearsTheKnown, [Next]_pipelineVars PROVE ClearsTheKnown'
    OBVIOUS
<1>0. /\ sender \in [Senders -> Sender] /\ enabled \in BOOLEAN
      /\ \A s \in Senders : Key(s) \in Keys
    BY DEF IInv, TypeOK, Sender, Key
<1>1. CASE UNCHANGED pipelineVars
    BY <1>1 DEF pipelineVars, ClearsTheKnown, Known, At, Key
<1>2. CASE Next
    <2>0. Remembers
        BY <1>2, NextRemembers
    <2>1. ASSUME NEW s \in Senders, Known(s)', \A t \in Senders \ {s} : sender'[t] = sender[t]
          PROVE  ClearsTheKnown'
        <3>1. \A t \in Senders \ {s} : Known(t)'
            BY <2>0, <2>1, KnownStays DEF ClearsTheKnown
        <3> QED
            BY <2>1, <3>1 DEF ClearsTheKnown
    <2>2. ASSUME NEW s \in Senders, Work(s) \/ Die(s) PROVE ClearsTheKnown'
        BY <2>0, <2>1, <2>2, MoverKnows DEF ClearsTheKnown
    <2>3. ASSUME NEW w \in Workers, NEW k \in Keys, TakeJob(w, k) PROVE ClearsTheKnown'
        <3>1. sender'[w].pc = "gate" /\ \A t \in Senders \ {w} : sender'[t] = sender[t]
            BY <1>0, <2>3, BeginMoves DEF TakeJob, Senders, Modes, Steps
        <3>2. Known(w)'
            BY <3>1 DEF Known, At
        <3> QED
            BY <2>1, <3>1, <3>2 DEF Senders
    <2>4. ASSUME NEW c \in Callers, NEW k \in Keys, EventArrives(c, k) \/ RetryPending(c, k)
          PROVE  ClearsTheKnown'
        <3>1. sender'[c].pc \in {"match", "exists"} /\ \A t \in Senders \ {c} : sender'[t] = sender[t]
            BY <1>0, <2>4, BeginMoves DEF EventArrives, RetryPending, Senders, Modes, Steps
        <3>2. Known(c)'
            BY <3>1 DEF Known, At
        <3> QED
            BY <2>1, <3>1, <3>2 DEF Senders
    <2>5. ASSUME NEW b \in BOOLEAN, SetEnabled(b) PROVE ClearsTheKnown'
        <3>1. \A s \in Senders : /\ sender'[s].pc = sender[s].pc
                                 /\ sender'[s].key = sender[s].key
                                 /\ sender'[s].result = sender[s].result
            BY <1>0, <2>5 DEF SetEnabled, Sender
        <3> QED
            BY <2>5, <3>1 DEF SetEnabled, ClearsTheKnown, Known, At, Key
    <2>6. ASSUME NEW status \in {"opt_in", "revoked"}, SetConsent(status) PROVE ClearsTheKnown'
        BY <2>6 DEF SetConsent, ClearsTheKnown, Known, At, Key
    <2> QED
        BY <1>2, <2>2, <2>3, <2>4, <2>5, <2>6 DEF Next
<1> QED
    BY <1>1, <1>2

(* A held-back event is forgotten only when its message has a row, or a    *)
(* job was scheduled for it: clearing after a paused, refused or failed    *)
(* send never happens, however events, retries and jobs overlap.           *)
THEOREM HeldBackIsRemembered == Spec => HeldBackNotForgotten
<1>1. ASSUME IInv, ClearsTheKnown, [Next]_pipelineVars
      PROVE  [\A k \in held \ held' : message[k] # "none" \/ k \in scheduled]_pipelineVars
    <2> SUFFICES ASSUME Next, NEW k \in held \ held'
                 PROVE  message[k] # "none" \/ k \in scheduled
        BY <1>1
    <2>1. ASSUME NEW s \in Senders, Work(s) \/ Die(s) PROVE At(s, "clear") /\ k = Key(s)
        <3>1. CASE Compose(s)
            BY <3>1 DEF Compose
        <3>2. CASE Clear(s)
            BY <3>2 DEF Clear
        <3> QED
            BY <2>1, <3>1, <3>2 DEF Work, Gate, Match, Exists, Grant, Lookup, Rules, Reserve,
                                    CallMeta, Mark, FinishJob, FinishInline, Die
    <2>2. \E s \in Senders : At(s, "clear") /\ k = Key(s)
        BY <2>1 DEF Next, SetEnabled, SetConsent, TakeJob, EventArrives, RetryPending
    <2> QED
        BY <1>1, <2>2 DEF ClearsTheKnown, Known
<1>2. IInv /\ ClearsTheKnown /\ [Next]_pipelineVars =>
        [\A k \in held \ held' : message[k] # "none" \/ k \in scheduled]_pipelineVars
    BY <1>1
<1> QED
    BY <1>2, InvariantCorrect, InitKnown, NextKnown, PTL DEF Spec, HeldBackNotForgotten

=============================================================================
