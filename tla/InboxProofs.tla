---------------------------- MODULE InboxProofs ----------------------------
(***************************************************************************)
(* The inbox, for any number of conversations, messages, requests and      *)
(* workers, and however often messages are delivered, statements fail and  *)
(* processes die: a customer is a first contact once and is greeted once   *)
(* at most, and the two tables agree.                                      *)
(***************************************************************************)
EXTENDS Inbox, FiniteSetTheorems, TLAPS

(* What the steps need of the shape of the variables.                      *)
ShapeOK ==
    /\ now \in Nat
    /\ sentAt \in [Messages -> Nat]
    /\ conv \in [Convs -> Conv]
    /\ stored \in [Messages -> 0..2]
    /\ handler \in [Handlers -> Handler]
    /\ slot \in [Convs -> Queue!SlotStates]
    /\ worker \in [Workers -> Worker]
    /\ firsts \in [Convs -> 0..2]
    /\ greetings \in [Convs -> 0..2]

(* A worker that has claimed the greeting and not sent it yet.             *)
Claimed(w) == worker[w].pc \in {"window", "call"}

(* The claim is exclusive, and comes before the greeting: the flag is set, *)
(* nobody else has claimed, and Meta has nothing yet.                      *)
ClaimIsExclusive ==
    \A w \in Workers : Claimed(w) =>
        /\ conv[worker[w].conv].greeted
        /\ greetings[worker[w].conv] = 0
        /\ \A v \in Workers : Claimed(v) /\ worker[v].conv = worker[w].conv => v = w

GreetedIsFlagged ==
    \A c \in Convs : greetings[c] <= 1 /\ (~conv[c].greeted => greetings[c] = 0)

(* Whoever is at work for a conversation found it in the table, and it was *)
(* called new when it got there.                                           *)
NewOnce ==
    \A c \in Convs : firsts[c] = IF conv[c].exists THEN 1 ELSE 0

WorkIsOnThreads ==
    /\ \A h \in Handlers :
          handler[h].pc = "schedule" => conv[From(handler[h].message)].exists
    /\ \A c \in Convs : slot[c] # "empty" \/ conv[c].greeted => conv[c].exists
    /\ \A w \in Workers : worker[w].pc # "idle" => conv[worker[w].conv].exists

Mine(c) == {m \in Messages : From(m) = c /\ stored[m] > 0}

TablesAgree ==
    \A c \in Convs :
        /\ conv[c].exists <=> Mine(c) # {}
        /\ IsFiniteSet(Mine(c))
        /\ (\A m \in Mine(c) : stored[m] = 1) => conv[c].unread <= Cardinality(Mine(c))

InboxInv ==
    ShapeOK /\ ClaimIsExclusive /\ GreetedIsFlagged /\ NewOnce
      /\ WorkIsOnThreads /\ TablesAgree

-----------------------------------------------------------------------------

LEMMA InboxStarts == Init => InboxInv
<1> SUFFICES ASSUME Init PROVE InboxInv
  OBVIOUS
<1>1. /\ \A h \in Handlers : handler[h].pc = "idle"
      /\ \A w \in Workers : worker[w].pc = "idle"
  BY DEF Init, IdleHandler, IdleWorker
<1>2. \A c \in Convs : Mine(c) = {}
  BY DEF Init, Mine
<1>3. ShapeOK
  <2>1. /\ conv \in [Convs -> Conv] /\ stored \in [Messages -> 0..2]
        /\ firsts \in [Convs -> 0..2] /\ greetings \in [Convs -> 0..2]
        /\ slot \in [Convs -> Queue!SlotStates]
    BY DEF Init, Conv, Queue!SlotInit, Queue!SlotStates
  <2>3. now \in Nat /\ sentAt \in [Messages -> Nat]
    BY DEF Init
  <2>2. handler \in [Handlers -> Handler] /\ worker \in [Workers -> Worker]
    BY InboxAssumption DEF Init, IdleHandler, IdleWorker, Handler, Worker
  <2> QED
    BY <2>1, <2>2, <2>3 DEF ShapeOK
<1>4. TablesAgree
  <2>1. IsFiniteSet({}) /\ Cardinality({}) = 0
    BY FS_EmptySet
  <2>2. \A c \in Convs : ~conv[c].exists /\ conv[c].unread = 0
    BY DEF Init
  <2> QED
    BY <1>2, <2>1, <2>2 DEF TablesAgree
<1>5. ClaimIsExclusive /\ GreetedIsFlagged /\ NewOnce /\ WorkIsOnThreads
  BY <1>1 DEF ClaimIsExclusive, Claimed, GreetedIsFlagged, NewOnce, WorkIsOnThreads,
              Init, Queue!SlotInit
<1> QED
  BY <1>3, <1>4, <1>5 DEF InboxInv

-----------------------------------------------------------------------------

(* The conversation the transaction writes is one.                         *)
LEMMA UpdateWritesConv ==
    ASSUME NEW f \in [Convs -> Conv], NEW c \in Convs, NEW unread \in Nat, NEW expires \in Nat
    PROVE  [f EXCEPT ![c].exists = TRUE, ![c].unread = unread, ![c].expires = expires]
             \in [Convs -> Conv]
BY DEF Conv

LEMMA CommitWritesConv ==
    ASSUME NEW f \in [Convs -> Conv], NEW c \in Convs, NEW expires \in Nat
    PROVE  [f EXCEPT ![c].exists = TRUE, ![c].unread = @ + 1, ![c].expires = expires]
             \in [Convs -> Conv]
<1>1. PICK unread \in Nat : unread = f[c].unread + 1
  BY DEF Conv
<1>2. [f EXCEPT ![c].exists = TRUE, ![c].unread = unread, ![c].expires = expires]
        \in [Convs -> Conv]
  BY UpdateWritesConv
<1>3. [f EXCEPT ![c].exists = TRUE, ![c].unread = unread, ![c].expires = expires]
        = [f EXCEPT ![c].exists = TRUE, ![c].unread = @ + 1, ![c].expires = expires]
  BY <1>1 DEF Conv
<1> QED
  BY <1>2, <1>3

(* The tables agree as long as nobody writes to them.                      *)
LEMMA TablesUntouched ==
    ASSUME TablesAgree, UNCHANGED stored,
           \A c \in Convs : conv'[c].exists = conv[c].exists /\ conv'[c].unread <= conv[c].unread,
           conv \in [Convs -> Conv], conv' \in [Convs -> Conv]
    PROVE  TablesAgree'
<1>1. \A c \in Convs : Mine(c)' = Mine(c)
  BY DEF Mine
<1> SUFFICES ASSUME NEW c \in Convs
             PROVE  /\ conv'[c].exists <=> Mine(c) # {}
                    /\ IsFiniteSet(Mine(c))
                    /\ (\A m \in Mine(c) : stored[m] = 1) => conv'[c].unread <= Cardinality(Mine(c))
  BY <1>1 DEF TablesAgree
<1>2. conv[c].unread \in Nat /\ conv'[c].unread \in Nat
  BY DEF Conv
<1>3. IsFiniteSet(Mine(c)) /\ Cardinality(Mine(c)) \in Nat
  BY FS_CardinalityType DEF TablesAgree
<1> QED
  BY <1>2, <1>3 DEF TablesAgree

(* Storing a message of a conversation.                                    *)
LEMMA CommitKeepsTables ==
    ASSUME TablesAgree, conv \in [Convs -> Conv], stored \in [Messages -> 0..2],
           NEW m \in Messages, NEW c \in Convs, c = From(m), NEW expires,
           conv' = [conv EXCEPT ![c].exists = TRUE, ![c].unread = @ + 1,
                                ![c].expires = expires],
           stored' = [stored EXCEPT ![m] = Upto2(@)]
    PROVE  TablesAgree'
<1>1. /\ stored'[m] = Upto2(stored[m])
      /\ \A k \in Messages \ {m} : stored'[k] = stored[k]
      /\ stored'[m] \in 1..2 /\ (stored[m] # 0 => stored'[m] = 2)
      /\ stored[m] = 0 => stored'[m] = 1
  BY DEF Upto2
<1>2. \A d \in Convs \ {c} : Mine(d)' = Mine(d) /\ conv'[d] = conv[d]
  BY <1>1 DEF Mine
<1>3. Mine(c)' = Mine(c) \cup {m}
  BY <1>1 DEF Mine
<1>4. conv'[c].exists = TRUE /\ conv'[c].unread = conv[c].unread + 1 /\ conv[c].unread \in Nat
  BY DEF Conv
<1>5. IsFiniteSet(Mine(c)) /\ Cardinality(Mine(c)) \in Nat
  BY FS_CardinalityType DEF TablesAgree
<1>6. IsFiniteSet(Mine(c)')
  BY <1>3, <1>5, FS_AddElement
<1>7. (\A k \in Mine(c)' : stored'[k] = 1) => conv'[c].unread <= Cardinality(Mine(c)')
  <2> SUFFICES ASSUME \A k \in Mine(c)' : stored'[k] = 1
               PROVE  conv'[c].unread <= Cardinality(Mine(c)')
    OBVIOUS
  <2>1. stored[m] = 0 /\ m \notin Mine(c)
    BY <1>1, <1>3 DEF Mine
  <2>2. Cardinality(Mine(c)') = Cardinality(Mine(c)) + 1
    <3>1. Cardinality(Mine(c) \cup {m}) = Cardinality(Mine(c)) + 1
      BY <1>5, <2>1, FS_AddElement
    <3> QED
      BY <1>3, <3>1
  <2>3. \A k \in Mine(c) : stored[k] = 1
    BY <1>1, <1>3, <2>1 DEF Mine
  <2>4. conv[c].unread <= Cardinality(Mine(c))
    BY <2>3 DEF TablesAgree
  <2> QED
    BY <1>4, <1>5, <2>2, <2>4
<1>8. /\ conv'[c].exists <=> Mine(c)' # {}
      /\ IsFiniteSet(Mine(c)')
      /\ (\A k \in Mine(c)' : stored'[k] = 1) => conv'[c].unread <= Cardinality(Mine(c)')
  BY <1>3, <1>4, <1>6, <1>7
<1>9. ASSUME NEW d \in Convs \ {c}
      PROVE  /\ conv'[d].exists <=> Mine(d)' # {}
             /\ IsFiniteSet(Mine(d)')
             /\ (\A k \in Mine(d)' : stored'[k] = 1) => conv'[d].unread <= Cardinality(Mine(d)')
  <2>1. \A k \in Mine(d) : k # m
    BY DEF Mine
  <2> QED
    BY <1>1, <1>2, <2>1 DEF TablesAgree, Mine
<1> QED
  BY <1>8, <1>9 DEF TablesAgree

-----------------------------------------------------------------------------

(* The steps that touch no more than a request's own state.                *)
LEMMA RequestStep ==
    ASSUME InboxInv, NEW h \in Handlers,
           (\E m \in Messages : Receive(h, m)) \/ Exists(h) \/ HandlerDies(h)
    PROVE  InboxInv'
<1>1. /\ UNCHANGED <<now, sentAt, conv, stored, slot, worker, firsts, greetings>>
      /\ handler' \in [Handlers -> Handler]
      /\ \A k \in Handlers : handler'[k] = handler[k] \/ handler'[k].pc # "schedule"
  BY InboxAssumption
  DEF InboxInv, ShapeOK, Receive, Exists, HandlerDies, Stop, IdleHandler, Handler
<1>2. TablesAgree'
  BY <1>1, TablesUntouched DEF InboxInv, ShapeOK, Conv
<1>3. WorkIsOnThreads'
  BY <1>1 DEF InboxInv, WorkIsOnThreads
<1> QED
  BY <1>1, <1>2, <1>3
  DEF InboxInv, ShapeOK, ClaimIsExclusive, Claimed, GreetedIsFlagged, NewOnce

LEMMA CommitStep ==
    ASSUME InboxInv, NEW h \in Handlers, Commit(h)
    PROVE  InboxInv'
<1> DEFINE m == handler[h].message
           c == From(m)
<1>1. m \in Messages /\ c \in Convs /\ handler[h].pc = "commit"
  BY InboxAssumption DEF InboxInv, ShapeOK, Handler, Commit
<1>2. UNCHANGED <<now, sentAt, slot, worker, greetings>>
  BY DEF Commit
<1>3. CASE UNCHANGED <<conv, stored, firsts>> /\ Stop(h)
  <2>1. /\ handler' \in [Handlers -> Handler]
        /\ \A k \in Handlers : handler'[k] = handler[k] \/ handler'[k].pc # "schedule"
    BY <1>3, InboxAssumption DEF InboxInv, ShapeOK, Stop, IdleHandler, Handler
  <2>2. TablesAgree'
    BY <1>3, TablesUntouched DEF InboxInv, ShapeOK, Conv
  <2>3. WorkIsOnThreads'
    BY <1>2, <1>3, <2>1 DEF InboxInv, WorkIsOnThreads
  <2> QED
    BY <1>2, <1>3, <2>1, <2>2, <2>3
    DEF InboxInv, ShapeOK, ClaimIsExclusive, Claimed, GreetedIsFlagged, NewOnce
<1>4. CASE /\ conv' = [conv EXCEPT ![c].exists = TRUE, ![c].unread = @ + 1,
                                   ![c].expires = sentAt[m] + Window]
           /\ stored' = [stored EXCEPT ![m] = Upto2(@)]
           /\ firsts' = [firsts EXCEPT ![c] = IF ~conv[c].exists THEN Upto2(@) ELSE @]
           /\ IF ~conv[c].exists
              THEN handler' = [handler EXCEPT ![h].pc = "schedule"]
              ELSE Stop(h)
  <2>1. /\ \A d \in Convs : conv'[d].greeted = conv[d].greeted
        /\ conv'[c].exists
        /\ \A d \in Convs \ {c} : conv'[d] = conv[d]
    BY <1>1, <1>4 DEF InboxInv, ShapeOK, Conv
  <2>2. NewOnce'
    BY <1>1, <1>4, <2>1 DEF InboxInv, ShapeOK, NewOnce, Upto2
  <2>3. /\ handler' \in [Handlers -> Handler]
        /\ \A k \in Handlers \ {h} : handler'[k] = handler[k]
        /\ handler'[h].pc = "schedule" => handler'[h].message = m
    BY <1>1, <1>4, InboxAssumption DEF InboxInv, ShapeOK, Stop, IdleHandler, Handler
  <2>4. WorkIsOnThreads'
    <3>1. \A d \in Convs : conv[d].exists => conv'[d].exists
      BY <2>1
    <3>2. \A k \in Handlers : handler[k].message \in Messages
      BY DEF InboxInv, ShapeOK, Handler
    <3>3. \A w \in Workers : worker[w].conv \in Convs
      BY DEF InboxInv, ShapeOK, Worker
    <3> QED
      BY <1>1, <1>2, <2>1, <2>3, <3>1, <3>2, <3>3, InboxAssumption
      DEF InboxInv, WorkIsOnThreads
  <2>5. TablesAgree'
    BY <1>1, <1>4, CommitKeepsTables DEF InboxInv, ShapeOK
  <2>6. ShapeOK'
    <3>1. sentAt[m] + Window \in Nat
      BY <1>1, InboxAssumption DEF InboxInv, ShapeOK
    <3>2. conv' \in [Convs -> Conv]
      BY <1>1, <1>4, <3>1, CommitWritesConv DEF InboxInv, ShapeOK
    <3>3. stored' \in [Messages -> 0..2] /\ firsts' \in [Convs -> 0..2]
      BY <1>1, <1>4 DEF InboxInv, ShapeOK, Upto2
    <3> QED
      BY <1>2, <2>3, <3>2, <3>3 DEF InboxInv, ShapeOK
  <2>7. ClaimIsExclusive' /\ GreetedIsFlagged'
    BY <1>2, <2>1
    DEF InboxInv, ShapeOK, Worker, ClaimIsExclusive, Claimed, GreetedIsFlagged
  <2> QED
    BY <2>2, <2>4, <2>5, <2>6, <2>7 DEF InboxInv
<1> QED
  BY <1>3, <1>4 DEF Commit

LEMMA ScheduleStep ==
    ASSUME InboxInv, NEW h \in Handlers, ScheduleFirstContactReply(h)
    PROVE  InboxInv'
<1> DEFINE c == From(handler[h].message)
<1>1. /\ handler[h].pc = "schedule" /\ c \in Convs
      /\ UNCHANGED <<now, sentAt, conv, stored, worker, firsts, greetings>>
      /\ Stop(h)
  BY InboxAssumption DEF InboxInv, ShapeOK, Handler, ScheduleFirstContactReply
<1>2. /\ slot' \in [Convs -> Queue!SlotStates]
      /\ \A d \in Convs \ {c} : slot'[d] = slot[d]
  BY <1>1 DEF ScheduleFirstContactReply, Queue!Add, Queue!SlotStates, InboxInv, ShapeOK
<1>3. /\ handler' \in [Handlers -> Handler]
      /\ \A k \in Handlers : handler'[k] = handler[k] \/ handler'[k].pc # "schedule"
  BY <1>1, InboxAssumption DEF InboxInv, ShapeOK, Stop, IdleHandler, Handler
<1>4. TablesAgree'
  BY <1>1, TablesUntouched DEF InboxInv, ShapeOK, Conv
<1>5. WorkIsOnThreads'
  <2>1. conv[c].exists
    BY <1>1 DEF InboxInv, WorkIsOnThreads
  <2> QED
    BY <1>1, <1>2, <1>3, <2>1 DEF InboxInv, WorkIsOnThreads
<1> QED
  BY <1>1, <1>2, <1>3, <1>4, <1>5
  DEF InboxInv, ShapeOK, ClaimIsExclusive, Claimed, GreetedIsFlagged, NewOnce

-----------------------------------------------------------------------------

(* A worker's step that neither claims nor greets: the worker and its slot *)
(* move, for a conversation that is in the table.                          *)
LEMMA WorkerMoves ==
    ASSUME InboxInv, NEW w \in Workers, NEW record \in Worker,
           UNCHANGED <<now, sentAt, conv, stored, handler, firsts, greetings>>,
           slot' \in [Convs -> Queue!SlotStates],
           \A c \in Convs : slot'[c] # "empty" => slot[c] # "empty",
           worker' = [worker EXCEPT ![w] = record],
           record.pc # "idle" => conv[record.conv].exists,
           record.pc \in {"window", "call"} => Claimed(w) /\ record.conv = worker[w].conv
    PROVE  InboxInv'
<1>1. worker' \in [Workers -> Worker]
      /\ worker'[w] = record /\ \A v \in Workers \ {w} : worker'[v] = worker[v]
  BY DEF InboxInv, ShapeOK
<1>2. ShapeOK'
  BY <1>1 DEF InboxInv, ShapeOK
<1>3. TablesAgree'
  BY TablesUntouched DEF InboxInv, ShapeOK, Conv
<1>4. WorkIsOnThreads'
  BY <1>1 DEF InboxInv, WorkIsOnThreads
<1>5. \A v \in Workers : Claimed(v)' => Claimed(v) /\ worker'[v].conv = worker[v].conv
  BY <1>1 DEF Claimed
<1>6. ClaimIsExclusive'
  BY <1>5 DEF InboxInv, ClaimIsExclusive
<1>7. GreetedIsFlagged' /\ NewOnce'
  BY DEF InboxInv, GreetedIsFlagged, NewOnce
<1> QED
  BY <1>2, <1>3, <1>4, <1>6, <1>7 DEF InboxInv

LEMMA QuietWorkerStep ==
    ASSUME InboxInv, NEW w \in Workers,
           \/ \E c \in Convs : TakeJob(w, c)
           \/ LoadGreeting(w) \/ ReplyWindow(w) \/ FinishJob(w) \/ WorkerDies(w)
    PROVE  InboxInv'
<1>1. worker[w] \in Worker /\ worker[w].conv \in Convs
  BY DEF InboxInv, ShapeOK, Worker
<1>2. ASSUME NEW c \in Convs, TakeJob(w, c) PROVE InboxInv'
  <2> DEFINE record == [pc |-> "load", conv |-> c, result |-> "nil"]
  <2>1. record \in Worker /\ worker' = [worker EXCEPT ![w] = record]
    BY <1>2 DEF Worker, TakeJob
  <2>2. conv[c].exists
    BY <1>2 DEF TakeJob, Queue!Take, InboxInv, WorkIsOnThreads
  <2>3. /\ slot' \in [Convs -> Queue!SlotStates]
        /\ \A d \in Convs : slot'[d] # "empty" => slot[d] # "empty"
    BY <1>2 DEF TakeJob, Queue!Take, Queue!SlotStates, InboxInv, ShapeOK
  <2> QED
    BY <1>2, <2>1, <2>2, <2>3, WorkerMoves DEF TakeJob
<1>3. ASSUME LoadGreeting(w) \/ ReplyWindow(w) PROVE InboxInv'
  <2>1. conv[worker[w].conv].exists
    BY <1>3 DEF LoadGreeting, ReplyWindow, InboxInv, WorkIsOnThreads
  <2>2. PICK pc \in {"claim", "call", "finish"}, result \in {"nil", "error", "permanent"} :
            /\ worker' = [worker EXCEPT ![w] = [pc |-> pc, conv |-> worker[w].conv,
                                                result |-> result]]
            /\ pc = "call" => worker[w].pc = "window"
    BY <1>1, <1>3 DEF LoadGreeting, ReplyWindow, Return, Worker
  <2>3. UNCHANGED <<now, sentAt, conv, stored, handler, firsts, greetings, slot>>
    BY <1>3 DEF LoadGreeting, ReplyWindow
  <2> DEFINE record == [pc |-> pc, conv |-> worker[w].conv, result |-> result]
  <2>4. /\ record \in Worker
        /\ record.pc \in {"window", "call"} => Claimed(w) /\ record.conv = worker[w].conv
    BY <1>1, <2>2 DEF Worker, Claimed
  <2> QED
    BY <2>1, <2>2, <2>3, <2>4, WorkerMoves DEF InboxInv, ShapeOK
<1>4. ASSUME FinishJob(w) \/ WorkerDies(w) PROVE InboxInv'
  <2>1. IdleWorker \in Worker /\ IdleWorker.pc = "idle"
    BY InboxAssumption DEF IdleWorker, Worker
  <2>2. /\ worker' = [worker EXCEPT ![w] = IdleWorker]
        /\ UNCHANGED <<now, sentAt, conv, stored, handler, firsts, greetings>>
    BY <1>4 DEF FinishJob, WorkerDies
  <2>3. /\ slot' \in [Convs -> Queue!SlotStates]
        /\ \A d \in Convs : slot'[d] # "empty" => slot[d] # "empty"
    BY <1>1, <1>4
    DEF FinishJob, WorkerDies, Queue!Finish, Queue!GiveBack, Queue!Lose,
        Queue!SlotStates, InboxInv, ShapeOK
  <2> QED
    BY <2>1, <2>2, <2>3, WorkerMoves
<1> QED
  BY <1>2, <1>3, <1>4

LEMMA ClaimStep ==
    ASSUME InboxInv, NEW w \in Workers, ClaimConversation(w)
    PROVE  InboxInv'
<1> DEFINE c == worker[w].conv
<1>1. /\ worker[w] \in Worker /\ worker[w].pc = "claim" /\ c \in Convs
      /\ conv[c].exists /\ slot' = slot
      /\ UNCHANGED <<now, sentAt, stored, handler, slot, firsts, greetings>>
  BY DEF ClaimConversation, InboxInv, ShapeOK, Worker, WorkIsOnThreads
<1>2. CASE UNCHANGED conv /\ (Return(w, "nil") \/ Return(w, "error"))
  <2>1. PICK result \in {"nil", "error"} :
          worker' = [worker EXCEPT ![w] = [pc |-> "finish", conv |-> c, result |-> result]]
    BY <1>1, <1>2 DEF Return, Worker
  <2> DEFINE record == [pc |-> "finish", conv |-> c, result |-> result]
  <2>2. record \in Worker /\ record.pc \notin {"window", "call"}
    BY <1>1 DEF Worker
  <2> QED
    BY <1>1, <1>2, <2>1, <2>2, WorkerMoves DEF InboxInv, ShapeOK
<1>3. CASE /\ ~conv[c].greeted
           /\ conv' = [conv EXCEPT ![c].greeted = TRUE]
           /\ worker' = [worker EXCEPT ![w].pc = "window"]
  <2>1. /\ conv' \in [Convs -> Conv]
        /\ \A d \in Convs : conv'[d].exists = conv[d].exists /\ conv'[d].unread = conv[d].unread
        /\ conv'[c].greeted /\ \A d \in Convs \ {c} : conv'[d] = conv[d]
    BY <1>1, <1>3 DEF InboxInv, ShapeOK, Conv
  <2>2. /\ worker' \in [Workers -> Worker]
        /\ worker'[w].pc = "window" /\ worker'[w].conv = c
        /\ \A v \in Workers \ {w} : worker'[v] = worker[v]
    BY <1>1, <1>3 DEF InboxInv, ShapeOK, Worker
  <2>3. ShapeOK'
    BY <1>1, <2>1, <2>2 DEF InboxInv, ShapeOK
  <2>4. TablesAgree'
    <3>1. \A d \in Convs : conv'[d].unread <= conv[d].unread
      BY <2>1 DEF InboxInv, ShapeOK, Conv
    <3> QED
      BY <1>1, <2>1, <3>1, TablesUntouched DEF InboxInv, ShapeOK
  <2>5. WorkIsOnThreads' /\ NewOnce'
    <3>1. /\ \A k \in Handlers : From(handler[k].message) \in Convs
          /\ \A v \in Workers : worker[v].conv \in Convs
      BY InboxAssumption DEF InboxInv, ShapeOK, Handler, Worker
    <3> QED
      BY <1>1, <2>1, <2>2, <3>1 DEF InboxInv, WorkIsOnThreads, NewOnce
  <2>6. ClaimIsExclusive'
    <3>1. greetings[c] = 0 /\ \A v \in Workers : Claimed(v) => worker[v].conv # c
      BY <1>1, <1>3 DEF InboxInv, ClaimIsExclusive, GreetedIsFlagged
    <3>2. \A v \in Workers : Claimed(v)' => v = w \/ (Claimed(v) /\ worker'[v] = worker[v])
      BY <2>2 DEF Claimed
    <3>3. \A v \in Workers : worker[v].conv \in Convs
      BY DEF InboxInv, ShapeOK, Worker
    <3> QED
      BY <1>1, <2>1, <2>2, <3>1, <3>2, <3>3 DEF InboxInv, ClaimIsExclusive
  <2>7. GreetedIsFlagged'
    BY <1>1, <1>3, <2>1 DEF InboxInv, GreetedIsFlagged
  <2> QED
    BY <2>3, <2>4, <2>5, <2>6, <2>7 DEF InboxInv
<1> QED
  BY <1>2, <1>3 DEF ClaimConversation

LEMMA CallStep ==
    ASSUME InboxInv, NEW w \in Workers, CallMeta(w)
    PROVE  InboxInv'
<1> DEFINE c == worker[w].conv
<1>1. /\ worker[w] \in Worker /\ worker[w].pc = "call" /\ c \in Convs
      /\ conv[c].exists /\ conv[c].greeted /\ greetings[c] = 0
      /\ UNCHANGED <<now, sentAt, conv, stored, handler, slot, firsts>>
  BY DEF CallMeta, Claimed, InboxInv, ShapeOK, Worker, WorkIsOnThreads, ClaimIsExclusive
<1>2. PICK result \in {"nil", "error"} :
          worker' = [worker EXCEPT ![w] = [pc |-> "finish", conv |-> c, result |-> result]]
  BY <1>1 DEF CallMeta, Return, Worker
<1> DEFINE record == [pc |-> "finish", conv |-> c, result |-> result]
<1>3. record \in Worker /\ record.pc \notin {"window", "call"}
  BY <1>1 DEF Worker
<1>4. CASE UNCHANGED greetings
  BY <1>1, <1>2, <1>3, <1>4, WorkerMoves DEF InboxInv, ShapeOK
<1>5. CASE greetings' = [greetings EXCEPT ![c] = Upto2(@)]
  <2>1. /\ greetings' \in [Convs -> 0..2] /\ greetings'[c] = 1
        /\ \A d \in Convs \ {c} : greetings'[d] = greetings[d]
    BY <1>1, <1>5 DEF InboxInv, ShapeOK, Upto2
  <2>2. /\ worker' \in [Workers -> Worker]
        /\ worker'[w].pc = "finish" /\ worker'[w].conv = c
        /\ \A v \in Workers \ {w} : worker'[v] = worker[v]
    BY <1>2, <1>3 DEF InboxInv, ShapeOK
  <2>3. ShapeOK'
    BY <1>1, <2>1, <2>2 DEF InboxInv, ShapeOK
  <2>4. TablesAgree'
    BY <1>1, TablesUntouched DEF InboxInv, ShapeOK, Conv
  <2>5. WorkIsOnThreads' /\ NewOnce'
    BY <1>1, <2>2 DEF InboxInv, WorkIsOnThreads, NewOnce
  <2>6. ClaimIsExclusive'
    <3>1. \A v \in Workers : Claimed(v)' =>
              Claimed(v) /\ worker'[v] = worker[v] /\ worker[v].conv # c
      BY <1>1, <2>2 DEF Claimed, InboxInv, ClaimIsExclusive
    <3>2. \A v \in Workers : worker[v].conv \in Convs
      BY DEF InboxInv, ShapeOK, Worker
    <3> QED
      BY <1>1, <2>1, <3>1, <3>2 DEF InboxInv, ClaimIsExclusive
  <2>7. GreetedIsFlagged'
    BY <1>1, <2>1 DEF InboxInv, GreetedIsFlagged
  <2> QED
    BY <2>3, <2>4, <2>5, <2>6, <2>7 DEF InboxInv
<1> QED
  BY <1>4, <1>5 DEF CallMeta

-----------------------------------------------------------------------------

(* The steps that leave the requests and the workers alone.                *)
LEMMA OutsideStep ==
    ASSUME InboxInv,
           \/ \E m \in Messages : CustomerWrites(m)
           \/ \E c \in Convs : MarkThreadRead(c)
           \/ SaveFirstContactAutoreply \/ Tick \/ UNCHANGED inboxVars
    PROVE  InboxInv'
<1>1. UNCHANGED <<stored, handler, slot, worker, firsts, greetings>>
  BY DEF CustomerWrites, MarkThreadRead, SaveFirstContactAutoreply, Tick, inboxVars
<1>2. /\ conv' \in [Convs -> Conv]
      /\ \A c \in Convs : /\ conv'[c].exists = conv[c].exists
                          /\ conv'[c].greeted = conv[c].greeted
                          /\ conv'[c].unread <= conv[c].unread
  BY DEF CustomerWrites, MarkThreadRead, SaveFirstContactAutoreply, Tick, inboxVars,
         InboxInv, ShapeOK, Conv
<1>3. now' \in Nat /\ sentAt' \in [Messages -> Nat]
  BY DEF CustomerWrites, MarkThreadRead, SaveFirstContactAutoreply, Tick, inboxVars,
         InboxInv, ShapeOK
<1>4. ShapeOK'
  BY <1>1, <1>2, <1>3 DEF InboxInv, ShapeOK
<1>5. TablesAgree'
  BY <1>1, <1>2, TablesUntouched DEF InboxInv, ShapeOK
<1>6. /\ \A h \in Handlers : From(handler[h].message) \in Convs
      /\ \A w \in Workers : worker[w].conv \in Convs
  BY InboxAssumption DEF InboxInv, ShapeOK, Handler, Worker
<1>7. WorkIsOnThreads' /\ NewOnce'
  BY <1>1, <1>2, <1>6 DEF InboxInv, WorkIsOnThreads, NewOnce
<1>8. ClaimIsExclusive' /\ GreetedIsFlagged'
  BY <1>1, <1>2, <1>6 DEF InboxInv, ClaimIsExclusive, Claimed, GreetedIsFlagged
<1> QED
  BY <1>4, <1>5, <1>7, <1>8 DEF InboxInv

LEMMA InboxStep == InboxInv /\ [Next]_inboxVars => InboxInv'
<1> SUFFICES ASSUME InboxInv, [Next]_inboxVars PROVE InboxInv'
  OBVIOUS
<1>1. ASSUME NEW h \in Handlers, Handle(h) \/ HandlerDies(h) PROVE InboxInv'
  BY <1>1, RequestStep, CommitStep, ScheduleStep DEF Handle
<1>2. ASSUME NEW w \in Workers, Greet(w) \/ WorkerDies(w) PROVE InboxInv'
  BY <1>2, QuietWorkerStep, ClaimStep, CallStep DEF Greet
<1>3. ASSUME NEW h \in Handlers, NEW m \in Messages, Receive(h, m) PROVE InboxInv'
  BY <1>3, RequestStep
<1>4. ASSUME NEW w \in Workers, NEW c \in Convs, TakeJob(w, c) PROVE InboxInv'
  BY <1>4, QuietWorkerStep
<1> QED
  BY <1>1, <1>2, <1>3, <1>4, OutsideStep DEF Next

LEMMA InboxHolds == Spec => []InboxInv
BY InboxStarts, InboxStep, PTL DEF Spec

(* A conversation is greeted once at most, however often its first message *)
(* is delivered, the job retried, or a run lost after Meta had accepted.   *)
THEOREM GreetedOnce == Spec => []GreetedAtMostOnce
<1>1. InboxInv => GreetedAtMostOnce
  BY DEF InboxInv, GreetedIsFlagged, GreetedAtMostOnce
<1> QED
  BY <1>1, InboxHolds, PTL

(* However many requests race to create a conversation, one of them is     *)
(* told that it is new, and nobody greets a conversation before that.      *)
THEOREM NewThreadOnce == Spec => []FirstContactOnce
<1>1. InboxInv => FirstContactOnce
  BY DEF InboxInv, NewOnce, WorkIsOnThreads, FirstContactOnce
<1> QED
  BY <1>1, InboxHolds, PTL

(* A conversation exists exactly when a message of it is stored, and its   *)
(* unread count never exceeds what is stored, requests that fail half way  *)
(* included.                                                               *)
THEOREM TablesMatch == Spec => []ThreadsMatchMessages
<1>1. InboxInv => ThreadsMatchMessages
  BY DEF InboxInv, TablesAgree, Mine, ThreadsMatchMessages
<1> QED
  BY <1>1, InboxHolds, PTL

-----------------------------------------------------------------------------
(* What the shape leaves open: the bounds of the clock, the faults and the *)
(* runs of the greeting jobs.                                              *)
RestTyped ==
    /\ now \in 1..(MaxTime + 1)
    /\ sentAt \in [Messages -> 0..(MaxTime + 1)]
    /\ deliveries \subseteq Messages
    /\ tries \in [Convs -> 0..MaxAttempts]
    /\ enabled \in BOOLEAN
    /\ faults \in 0..MaxFaults

LEMMA RestStarts == Init => RestTyped
BY InboxAssumption DEF Init, RestTyped, Queue!SlotInit

(* The queue counts no run beyond the last one.                            *)
LEMMA RunsAreBounded ==
    ASSUME RestTyped, NEW c \in Convs,
           \/ Queue!Add(c) \/ Queue!Take({c}) \/ Queue!Finish(c) \/ Queue!GiveBack(c)
           \/ Queue!Lose({c})
    PROVE  tries' \in [Convs -> 0..MaxAttempts]
<1>1. tries \in [Convs -> 0..MaxAttempts] /\ MaxAttempts \in Nat
  BY InboxAssumption DEF RestTyped
<1>2. CASE UNCHANGED tries
  BY <1>1, <1>2
<1>3. CASE Queue!Take({c})
  <2>1. tries[c] + 1 \in 0..MaxAttempts
    BY <1>1, <1>3 DEF Queue!Take
  <2>2. tries' = [w \in Convs |-> IF w \in {c} THEN tries[w] + 1 ELSE tries[w]]
    BY <1>3 DEF Queue!Take
  <2> QED
    BY <1>1, <2>1, <2>2
<1>4. CASE Queue!Finish(c)
  <2>1. 0 \in 0..MaxAttempts
    BY <1>1
  <2> QED
    BY <1>1, <1>4, <2>1 DEF Queue!Finish
<1> QED
  BY <1>2, <1>3, <1>4 DEF Queue!Add, Queue!GiveBack, Queue!Lose

LEMMA RestStep == ShapeOK /\ RestTyped /\ [Next]_inboxVars => RestTyped'
<1> SUFFICES ASSUME ShapeOK, RestTyped, [Next]_inboxVars PROVE RestTyped'
  OBVIOUS
<1>0. /\ \A h \in Handlers : From(handler[h].message) \in Convs
      /\ \A w \in Workers : worker[w].conv \in Convs
  BY InboxAssumption DEF ShapeOK, Handler, Worker
<1>1. ASSUME UNCHANGED faults \/ Fault PROVE faults' \in 0..MaxFaults
  BY <1>1, InboxAssumption DEF RestTyped, Fault
<1>2. CASE UNCHANGED inboxVars
  BY <1>2 DEF inboxVars, RestTyped
<1>3. ASSUME NEW m \in Messages, CustomerWrites(m) PROVE RestTyped'
  <2>1. now \in 0..(MaxTime + 1)
    BY InboxAssumption DEF RestTyped
  <2> QED
    BY <1>3, <2>1 DEF CustomerWrites, RestTyped
<1>4. ASSUME NEW c \in Convs, MarkThreadRead(c) PROVE RestTyped'
  BY <1>4 DEF MarkThreadRead, RestTyped
<1>5. CASE SaveFirstContactAutoreply
  BY <1>5 DEF SaveFirstContactAutoreply, RestTyped
<1>6. CASE Tick
  BY <1>6, InboxAssumption DEF Tick, RestTyped
<1>7. ASSUME NEW h \in Handlers, NEW m \in Messages, Receive(h, m) PROVE RestTyped'
  BY <1>7 DEF Receive, RestTyped
<1>8. ASSUME NEW h \in Handlers, Exists(h) \/ Commit(h) \/ HandlerDies(h) PROVE RestTyped'
  <2>1. UNCHANGED faults \/ Fault
    BY <1>8 DEF Exists, Commit, HandlerDies
  <2>2. UNCHANGED <<now, sentAt, deliveries, tries, enabled>>
    BY <1>8 DEF Exists, Commit, HandlerDies
  <2> QED
    BY <1>1, <2>1, <2>2 DEF RestTyped
<1>9. ASSUME NEW h \in Handlers, ScheduleFirstContactReply(h) PROVE RestTyped'
  <2>1. UNCHANGED faults \/ Fault
    BY <1>9 DEF ScheduleFirstContactReply
  <2>2. UNCHANGED <<now, sentAt, deliveries, enabled>>
    BY <1>9 DEF ScheduleFirstContactReply
  <2>3. UNCHANGED tries \/ Queue!Add(From(handler[h].message))
    BY <1>9 DEF ScheduleFirstContactReply
  <2>4. tries' \in [Convs -> 0..MaxAttempts]
    BY <1>0, <2>3, RunsAreBounded DEF RestTyped
  <2> QED
    BY <1>1, <2>1, <2>2, <2>4 DEF RestTyped
<1>10. ASSUME NEW w \in Workers, NEW c \in Convs, TakeJob(w, c) PROVE RestTyped'
  <2>1. tries' \in [Convs -> 0..MaxAttempts]
    BY <1>10, RunsAreBounded DEF TakeJob
  <2> QED
    BY <1>10, <2>1 DEF TakeJob, RestTyped
<1>11. ASSUME NEW w \in Workers, FinishJob(w) \/ WorkerDies(w) PROVE RestTyped'
  <2>1. tries' \in [Convs -> 0..MaxAttempts]
    BY <1>0, <1>11, RunsAreBounded DEF FinishJob, WorkerDies
  <2>2. UNCHANGED faults \/ Fault
    BY <1>11 DEF FinishJob, WorkerDies
  <2>3. UNCHANGED <<now, sentAt, deliveries, enabled>>
    BY <1>11 DEF FinishJob, WorkerDies
  <2> QED
    BY <1>1, <2>1, <2>2, <2>3 DEF RestTyped
<1>12. ASSUME NEW w \in Workers,
              LoadGreeting(w) \/ ClaimConversation(w) \/ ReplyWindow(w) \/ CallMeta(w)
       PROVE  RestTyped'
  <2>1. UNCHANGED faults \/ Fault
    BY <1>12 DEF LoadGreeting, ClaimConversation, ReplyWindow, CallMeta
  <2>2. UNCHANGED <<now, sentAt, deliveries, tries, enabled>>
    BY <1>12 DEF LoadGreeting, ClaimConversation, ReplyWindow, CallMeta
  <2> QED
    BY <1>1, <2>1, <2>2 DEF RestTyped
<1> QED
  BY <1>2, <1>3, <1>4, <1>5, <1>6, <1>7, <1>8, <1>9, <1>10, <1>11, <1>12
  DEF Next, Handle, Greet

(* The tables, the requests and the greeting jobs keep their types: a      *)
(* request knows the message it is about, and no job runs more often than  *)
(* the queue allows.                                                       *)
THEOREM InboxTypes == Spec => []TypeOK
<1>1. InboxInv => ShapeOK
  BY DEF InboxInv
<1>2. ShapeOK /\ RestTyped => TypeOK
  BY DEF ShapeOK, RestTyped, TypeOK
<1>3. Spec => []RestTyped
  BY <1>1, RestStarts, RestStep, InboxHolds, PTL DEF Spec
<1> QED
  BY <1>1, <1>2, <1>3, InboxHolds, PTL

=============================================================================
