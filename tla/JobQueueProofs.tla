--------------------------- MODULE JobQueueProofs ---------------------------
(* Proofs about JobQueue for every number of rows, instances, attempts and *)
(* faults: the inductive invariant, and the properties that follow from it.*)
EXTENDS JobQueueRefinement, FiniteSetTheorems, TLAPS

USE DEF Unleased

(* The retry spacing is a number of ticks between 0 and the cap, whatever  *)
(* the attempts: the doubling never escapes it.                            *)
LEMMA BackoffBounded ==
    ASSUME NEW a \in Nat
    PROVE  Backoff(a) \in 0..RetryCap
<1> DEFINE b == IF a < 1 THEN 1 ELSE a
<1>1. b - 1 \in Nat
    OBVIOUS
<1>2. 2^(b - 1) \in Nat
    <2>1. IsFiniteSet(1..(b - 1)) /\ Cardinality(1..(b - 1)) = b - 1
        BY <1>1, FS_Interval
    <2>2. IsFiniteSet(SUBSET (1..(b - 1)))
        BY <2>1, FS_SUBSET
    <2>3. Cardinality(SUBSET (1..(b - 1))) = 2^(b - 1)
        BY <2>1, FS_SUBSET
    <2> QED
        BY <2>2, <2>3, FS_CardinalityType
<1>3. RetryBase * 2^(b - 1) \in Nat
    <2> HIDE DEF b
    <2>1. \A m, n \in Nat : m * n \in Nat
        OBVIOUS
    <2> QED
        BY <1>2, <2>1, QueueAssumption
<1> QED
    BY <1>3, QueueAssumption DEF Backoff

-----------------------------------------------------------------------------

LEMMA InitInvariant == Init => IInv
<1> SUFFICES ASSUME Init PROVE IInv
    OBVIOUS
<1>1. TypeOK
    BY QueueAssumption DEF Init, TypeOK, Row, Phases
<1>2. HeldIsLeased /\ OneHolder
    BY DEF Init, HeldIsLeased, OneHolder, Held
<1>3. OneRowPerWork /\ AttemptsBounded /\ BackoffOwed
    BY DEF Init, OneRowPerWork, AttemptsBounded, BackoffOwed
<1> QED
    BY <1>1, <1>2, <1>3 DEF IInv

(* Enqueue: a fresh id, held by nobody, and the only row of its work.      *)
LEMMA EnqueueInvariant ==
    ASSUME IInv,
           NEW j \in Jobs, NEW w \in Work \cup {NoKey}, NEW d \in Delays,
           Enqueue(j, w, d)
    PROVE  IInv'
<1> USE DEF Enqueue, IInv
<1>1. /\ TypeOK'
      /\ j \notin present
      /\ row' \in [Jobs -> Row]
      /\ \A i \in Jobs \ {j} : row'[i] = row[i]
      /\ row'[j] = [work |-> w, delay |-> d, attempts |-> 0, lease |-> Unleased]
    BY QueueAssumption DEF TypeOK, Row
<1>2. \A r \in Runners : ~Held(r, j)
    BY <1>1 DEF HeldIsLeased
<1>3. HeldIsLeased' /\ OneHolder'
    BY <1>1, <1>2 DEF HeldIsLeased, OneHolder, Held
<1>4. OneRowPerWork'
    BY <1>1 DEF OneRowPerWork, Conflict, TypeOK
<1>5. AttemptsBounded' /\ BackoffOwed'
    BY <1>1, QueueAssumption DEF AttemptsBounded, BackoffOwed, TypeOK
<1> QED
    BY <1>1, <1>3, <1>4, <1>5

(* The claim: only rows without a lease, hence without a holder, are taken.*)
LEMMA DrainInvariant ==
    ASSUME IInv, NEW r \in Runners, Drain(r)
    PROVE  IInv'
<1> USE DEF IInv
<1> PICK batch \in SUBSET Claimable : Claim(r, batch)
    BY DEF Drain
<1>1. \A j \in batch : /\ j \in present /\ j \in Jobs
                       /\ row[j].lease = Unleased /\ row[j].attempts < MaxAttempts
                       /\ \A q \in Runners : run[q][j] = "none"
    BY DEF Claimable, AttemptsBounded, HeldIsLeased, Held, TypeOK
<1>2. \A j \in Jobs : row[j] \in Row
    BY DEF TypeOK
<1>3. /\ UNCHANGED <<present, used, faults, succeeded, rest>>
      /\ DOMAIN row' = Jobs
      /\ row' = [j \in Jobs |-> row'[j]]
    BY DEF Claim
<1>4. \A j \in batch : /\ row'[j] \in Row
                       /\ row'[j].work = row[j].work /\ row'[j].delay = row[j].delay
                       /\ row'[j].lease = Lease
                       /\ row'[j].attempts = row[j].attempts + 1
    <2> SUFFICES ASSUME NEW j \in batch
                 PROVE  /\ row'[j] \in Row
                        /\ row'[j].work = row[j].work /\ row'[j].delay = row[j].delay
                        /\ row'[j].lease = Lease
                        /\ row'[j].attempts = row[j].attempts + 1
        OBVIOUS
    <2>1. row'[j] = [row[j] EXCEPT !.lease = Lease,
                                   !.attempts = row[j].attempts + 1]
        BY <1>1 DEF Claim
    <2>2. row[j] \in Row /\ row[j].attempts + 1 \in Nat
        BY <1>1, <1>2 DEF Row
    <2>3. Lease \in Nat
        BY QueueAssumption
    <2> HIDE DEF IInv
    <2> QED
        BY <2>1, <2>2, <2>3 DEF Row
<1>5. \A j \in Jobs \ batch : row'[j] = row[j]
    BY DEF Claim
<1>6. \A q \in Runners, j \in Jobs :
          run'[q][j] = IF q = r /\ j \in batch THEN "running" ELSE run[q][j]
    BY DEF TypeOK, Claim
<1>7. TypeOK'
    <2>1. row' \in [Jobs -> Row]
        BY <1>2, <1>3, <1>4, <1>5
    <2>2. run' \in [Runners -> [Jobs -> Phases]]
        BY DEF TypeOK, Phases, Claim
    <2> QED
        BY <1>3, <2>1, <2>2 DEF TypeOK
<1>8. HeldIsLeased'
    BY <1>1, <1>3, <1>4, <1>5, <1>6, QueueAssumption DEF HeldIsLeased, Held
<1>9. OneHolder'
    BY <1>1, <1>6 DEF OneHolder, Held
<1>10. OneRowPerWork'
    <2>1. \A j \in Jobs : row'[j].work = row[j].work
        BY <1>4, <1>5
    <2> QED
        BY <1>3, <2>1 DEF OneRowPerWork, TypeOK
<1>11. AttemptsBounded' /\ BackoffOwed'
    <2> SUFFICES ASSUME NEW j \in present
                 PROVE  /\ row'[j].attempts <= MaxAttempts
                        /\ row'[j].lease = Unleased =>
                              /\ row'[j].attempts < MaxAttempts
                              /\ row'[j].attempts > 0 =>
                                    rest[j] + row'[j].delay >= Backoff(row'[j].attempts)
        BY <1>3 DEF AttemptsBounded, BackoffOwed
    <2>0. j \in Jobs
        BY DEF TypeOK
    <2>1. CASE j \in batch
        <3>1. row[j].attempts + 1 <= MaxAttempts
            BY <2>1, <1>1, <1>2, QueueAssumption DEF Row
        <3>2. row'[j].lease # Unleased
            BY <2>1, <1>4, QueueAssumption
        <3> QED
            BY <2>1, <1>4, <3>1, <3>2
    <2>2. CASE j \notin batch
        BY <2>0, <2>2, <1>5 DEF AttemptsBounded, BackoffOwed
    <2> QED
        BY <2>1, <2>2
<1> QED
    BY <1>7, <1>8, <1>9, <1>10, <1>11

(* A result only changes what the holder knows.                            *)
LEMMA ReturnInvariant ==
    ASSUME IInv, NEW r \in Runners, NEW j \in Jobs, NEW result \in Results,
           HandlerReturns(r, j, result)
    PROVE  IInv'
<1> USE DEF IInv
<1>1. /\ UNCHANGED <<present, used, row, faults, rest>>
      /\ run[r][j] = "running"
      /\ Held(r, j)
      /\ j \in present /\ row[j].lease # Unleased
    BY DEF HandlerReturns, HeldIsLeased, Held
<1>2. \A q \in Runners, i \in Jobs :
          run'[q][i] = IF q = r /\ i = j THEN result ELSE run[q][i]
    BY DEF HandlerReturns, TypeOK
<1>3. TypeOK'
    BY <1>1 DEF HandlerReturns, TypeOK, Phases
<1>4. HeldIsLeased' /\ OneHolder'
    BY <1>1, <1>2 DEF HeldIsLeased, OneHolder, Held, Results
<1>5. OneRowPerWork' /\ AttemptsBounded' /\ BackoffOwed'
    BY <1>1 DEF OneRowPerWork, AttemptsBounded, BackoffOwed
<1> QED
    BY <1>3, <1>4, <1>5

(* The row goes and so does its only holder.                               *)
LEMMA RemoveInvariant ==
    ASSUME IInv, NEW r \in Runners, NEW j \in Jobs,
           Remove(r, j) \/ DropOrphan(r, j)
    PROVE  IInv'
<1> USE DEF IInv
<1>1. /\ UNCHANGED <<used, row, faults, succeeded, rest>>
      /\ present' = present \ {j}
      /\ run' = [run EXCEPT ![r][j] = "none"]
      /\ Held(r, j)
    BY DEF Remove, DropOrphan, Held, Results
<1>2. \A q \in Runners, i \in Jobs :
          run'[q][i] = IF q = r /\ i = j THEN "none" ELSE run[q][i]
    BY <1>1 DEF TypeOK
<1>3. TypeOK'
    BY <1>1 DEF TypeOK, Phases
<1>4. HeldIsLeased' /\ OneHolder'
    BY <1>1, <1>2 DEF HeldIsLeased, OneHolder, Held
<1>5. OneRowPerWork' /\ AttemptsBounded' /\ BackoffOwed'
    BY <1>1, <1>2 DEF OneRowPerWork, AttemptsBounded, BackoffOwed, TypeOK
<1> QED
    BY <1>3, <1>4, <1>5

(* Only a failed job with attempts left is released, and it owes its whole *)
(* backoff.                                                                *)
LEMMA RetryInvariant ==
    ASSUME IInv, NEW r \in Runners, NEW j \in Jobs, Retry(r, j)
    PROVE  IInv'
<1> USE DEF IInv
<1>1. /\ UNCHANGED <<present, used, faults, succeeded>>
      /\ Held(r, j) /\ j \in present
      /\ run[r][j] = "error"
      /\ row[j].attempts < MaxAttempts
    <2>1. row[j].attempts \in Nat
        BY DEF TypeOK, Row
    <2>2. /\ run[r][j] \in Results
          /\ Decide(run[r][j], row[j].attempts) = "retry"
          /\ UNCHANGED <<present, used, faults, succeeded>>
        BY DEF Retry
    <2>3. Held(r, j) /\ j \in present
        BY <2>2 DEF Held, HeldIsLeased, Results
    <2> QED
        BY <2>1, <2>2, <2>3, QueueAssumption DEF Decide, Results
<1>2. \A q \in Runners, i \in Jobs :
          run'[q][i] = IF q = r /\ i = j THEN "none" ELSE run[q][i]
    BY DEF Retry, TypeOK
<1>3. row[j] \in Row
    BY DEF TypeOK
<1>4. Backoff(row[j].attempts) \in 0..RetryCap
    BY <1>3, BackoffBounded DEF Row
<1>5. /\ row' \in [Jobs -> Row]
      /\ \A i \in Jobs \ {j} : row'[i] = row[i]
      /\ row'[j].work = row[j].work
      /\ row'[j].attempts = row[j].attempts
      /\ row'[j].lease = Unleased
      /\ row'[j].delay = Backoff(row[j].attempts)
    <2> DEFINE b == Backoff(row[j].attempts)
    <2>1. row' = [row EXCEPT ![j] = [row[j] EXCEPT !.lease = Unleased, !.delay = b]]
        BY DEF Retry
    <2>2. b \in Nat
        BY <1>4, QueueAssumption
    <2>3. row \in [Jobs -> Row]
        BY DEF TypeOK
    <2> HIDE DEF IInv, b
    <2> DEFINE c == [row[j] EXCEPT !.lease = Unleased, !.delay = b]
    <2>4. /\ c \in Row /\ c.work = row[j].work /\ c.attempts = row[j].attempts
          /\ c.lease = Unleased /\ c.delay = b
        BY <1>3, <2>2 DEF Row
    <2>5. row'[j] = c /\ row' \in [Jobs -> Row] /\ \A i \in Jobs \ {j} : row'[i] = row[i]
        BY <2>1, <2>3, <2>4
    <2> QED
        BY <2>4, <2>5 DEF b
<1>6. rest' \in [Jobs -> 0..RetryCap] /\ rest'[j] = 0
      /\ \A i \in Jobs \ {j} : rest'[i] = rest[i]
    BY QueueAssumption DEF Retry, TypeOK
<1>7. TypeOK'
    BY <1>1, <1>5, <1>6 DEF TypeOK, Retry, Phases
<1>8. HeldIsLeased' /\ OneHolder'
    BY <1>1, <1>2, <1>5 DEF HeldIsLeased, OneHolder, Held
<1>9. OneRowPerWork'
    BY <1>1, <1>5 DEF OneRowPerWork, TypeOK
<1>10. AttemptsBounded' /\ BackoffOwed'
    <2> SUFFICES ASSUME NEW i \in present
                 PROVE  /\ row'[i].attempts <= MaxAttempts
                        /\ row'[i].lease = Unleased =>
                              /\ row'[i].attempts < MaxAttempts
                              /\ row'[i].attempts > 0 =>
                                    rest'[i] + row'[i].delay >= Backoff(row'[i].attempts)
        BY <1>1 DEF AttemptsBounded, BackoffOwed
    <2>1. CASE i = j
        <3>1. row[j].attempts \in Nat
            BY <1>3 DEF Row
        <3> QED
            BY <1>1, <1>4, <1>5, <1>6, <2>1, <3>1, QueueAssumption
    <2>2. CASE i # j
        BY <1>5, <1>6, <2>2 DEF AttemptsBounded, BackoffOwed, TypeOK
    <2> QED
        BY <2>1, <2>2
<1> QED
    BY <1>7, <1>8, <1>9, <1>10

(* A fault takes holders away and touches no row.                          *)
LEMMA FaultInvariant ==
    ASSUME IInv, NEW r \in Runners,
           Crash(r) \/ \E j \in Jobs : BookkeepingFails(r, j)
    PROVE  IInv'
<1> USE DEF IInv
<1>1. /\ UNCHANGED <<present, used, row, succeeded, rest>>
      /\ faults < MaxFaults /\ faults' = faults + 1
    BY DEF Crash, BookkeepingFails
<1>2. run' \in [Runners -> [Jobs -> Phases]]
    BY DEF Crash, BookkeepingFails, TypeOK, Phases
<1>3. \A q \in Runners, i \in Jobs : run'[q][i] \in {run[q][i], "none"}
    BY DEF Crash, BookkeepingFails, TypeOK
<1>4. TypeOK'
    BY <1>1, <1>2, QueueAssumption DEF TypeOK
<1>5. HeldIsLeased' /\ OneHolder'
    BY <1>1, <1>3 DEF HeldIsLeased, OneHolder, Held
<1>6. OneRowPerWork' /\ AttemptsBounded' /\ BackoffOwed'
    BY <1>1 DEF OneRowPerWork, AttemptsBounded, BackoffOwed
<1> QED
    BY <1>4, <1>5, <1>6

(* Time moves a tick from the delay still owed to the rest already had.    *)
LEMMA TickInvariant ==
    ASSUME IInv, Tick
    PROVE  IInv'
<1> USE DEF IInv
<1>1. UNCHANGED <<present, used, run, faults, succeeded>>
    BY DEF Tick
<1>2. \A j \in Jobs :
          /\ row'[j] \in Row
          /\ row'[j].work = row[j].work
          /\ row'[j].attempts = row[j].attempts
          /\ row'[j].lease = Unleased <=> row[j].lease = Unleased
          /\ row'[j].delay = IF row[j].delay > 0 THEN row[j].delay - 1 ELSE row[j].delay
    <2> SUFFICES ASSUME NEW j \in Jobs
                 PROVE  /\ row'[j] \in Row
                        /\ row'[j].work = row[j].work
                        /\ row'[j].attempts = row[j].attempts
                        /\ row'[j].lease = Unleased <=> row[j].lease = Unleased
                        /\ row'[j].delay = IF row[j].delay > 0
                                           THEN row[j].delay - 1 ELSE row[j].delay
        OBVIOUS
    <2> DEFINE d == IF row[j].delay > 0 THEN row[j].delay - 1 ELSE row[j].delay
               l == IF row[j].lease > 0 THEN row[j].lease - 1 ELSE row[j].lease
    <2>1. row[j] \in Row
        BY DEF TypeOK
    <2>2. d \in Nat /\ l \in Nat \cup {Unleased}
          /\ (l = Unleased <=> row[j].lease = Unleased)
        BY <2>1 DEF Row
    <2>3. row'[j] = [row[j] EXCEPT !.delay = d, !.lease = l]
        BY DEF Tick
    <2> HIDE DEF IInv, d, l
    <2>4. /\ row'[j] \in Row
          /\ row'[j].work = row[j].work /\ row'[j].attempts = row[j].attempts
          /\ row'[j].delay = d /\ row'[j].lease = l
        BY <2>1, <2>2, <2>3 DEF Row
    <2> QED
        BY <2>2, <2>4 DEF d
<1>3. \A j \in Jobs : /\ rest'[j] \in 0..RetryCap
                      /\ rest'[j] = IF rest[j] < RetryCap THEN rest[j] + 1 ELSE rest[j]
    <2>1. \A j \in Jobs : rest[j] \in 0..RetryCap
        BY DEF TypeOK
    <2>2. \A j \in Jobs :
              rest'[j] = IF rest[j] < RetryCap THEN rest[j] + 1 ELSE rest[j]
        BY DEF Tick
    <2> HIDE DEF IInv
    <2> QED
        BY <2>1, <2>2, QueueAssumption
<1>4. TypeOK'
    <2>1. row' \in [Jobs -> Row] /\ rest' \in [Jobs -> 0..RetryCap]
        BY <1>2, <1>3 DEF Tick
    <2> QED
        BY <1>1, <2>1 DEF TypeOK
<1>5. HeldIsLeased' /\ OneHolder'
    BY <1>1, <1>2 DEF HeldIsLeased, OneHolder, Held, TypeOK
<1>6. OneRowPerWork' /\ AttemptsBounded'
    BY <1>1, <1>2 DEF OneRowPerWork, AttemptsBounded, TypeOK
<1>7. BackoffOwed'
    <2> SUFFICES ASSUME NEW j \in present,
                        row[j].lease = Unleased, row[j].attempts > 0
                 PROVE  rest'[j] + row'[j].delay >= Backoff(row[j].attempts)
        BY <1>1, <1>2 DEF BackoffOwed, TypeOK
    <2>1. j \in Jobs /\ row[j] \in Row /\ rest[j] \in 0..RetryCap
        BY DEF TypeOK
    <2>2. Backoff(row[j].attempts) \in 0..RetryCap
        BY <2>1, BackoffBounded DEF Row
    <2>3. rest[j] + row[j].delay >= Backoff(row[j].attempts)
        BY DEF BackoffOwed
    <2>4. row[j].delay \in Nat /\ row'[j].delay \in Nat
        BY <1>2, <2>1 DEF Row
    <2> QED
        BY <1>2, <1>3, <2>1, <2>2, <2>3, <2>4, QueueAssumption
<1> QED
    BY <1>4, <1>5, <1>6, <1>7

(* Every step keeps the inductive invariant.                               *)
LEMMA NextInvariant == IInv /\ [Next]_vars => IInv'
<1> SUFFICES ASSUME IInv, [Next]_vars PROVE IInv'
    OBVIOUS
<1>1. ASSUME NEW j \in Jobs, NEW w \in Work \cup {NoKey}, NEW d \in Delays,
             Enqueue(j, w, d)
      PROVE  IInv'
    BY <1>1, EnqueueInvariant
<1>2. ASSUME NEW r \in Runners, Drain(r) PROVE IInv'
    BY <1>2, DrainInvariant
<1>3. ASSUME NEW r \in Runners, NEW j \in Jobs, NEW result \in Results,
             HandlerReturns(r, j, result)
      PROVE  IInv'
    BY <1>3, ReturnInvariant
<1>4. ASSUME NEW r \in Runners, NEW j \in Jobs, Remove(r, j) \/ DropOrphan(r, j)
      PROVE  IInv'
    BY <1>4, RemoveInvariant
<1>5. ASSUME NEW r \in Runners, NEW j \in Jobs, Retry(r, j) PROVE IInv'
    BY <1>5, RetryInvariant
<1>6. ASSUME NEW r \in Runners, Crash(r) \/ \E j \in Jobs : BookkeepingFails(r, j)
      PROVE  IInv'
    BY <1>6, FaultInvariant
<1>7. CASE Tick
    BY <1>7, TickInvariant
<1>8. CASE UNCHANGED vars
    <2>1. /\ present' = present /\ used' = used /\ row' = row /\ run' = run
          /\ faults' = faults /\ succeeded' = succeeded /\ rest' = rest
        BY <1>8 DEF vars
    <2> QED
        BY <2>1 DEF IInv, TypeOK, HeldIsLeased, OneHolder, OneRowPerWork,
                    AttemptsBounded, BackoffOwed, Held
<1> QED
    BY <1>1, <1>2, <1>3, <1>4, <1>5, <1>6, <1>7, <1>8
    DEF Next, RunnerStep, EnqueueDuplicate

-----------------------------------------------------------------------------

(* The inductive invariant holds throughout, with crashes and failed       *)
(* bookkeeping at any point.                                               *)
THEOREM InvariantCorrect == Spec => []IInv
<1>1. Init => IInv
    BY InitInvariant
<1>2. IInv /\ [Next]_vars => IInv'
    BY NextInvariant
<1> QED
    BY <1>1, <1>2, PTL DEF Spec

(* Type correctness of the table and of the instances' memory.             *)
THEOREM TypeCorrect == Spec => []TypeOK
<1>1. IInv => TypeOK
    BY DEF IInv
<1> QED
    BY <1>1, InvariantCorrect, PTL

(* No two instances, and no instance twice, hold the same keyed work.      *)
THEOREM WorkIsExclusive == Spec => []ExclusiveWork
<1>1. IInv => ExclusiveWork
    BY DEF IInv, ExclusiveWork, HeldIsLeased, OneHolder, OneRowPerWork
<1> QED
    BY <1>1, InvariantCorrect, PTL

(* A row an instance holds is in the table and leased.                     *)
THEOREM HolderIsProtected == Spec => []HeldIsLeased
<1>1. IInv => HeldIsLeased
    BY DEF IInv
<1> QED
    BY <1>1, InvariantCorrect, PTL

(* The attempts budget is never exceeded, and never spent while waiting.   *)
THEOREM AttemptsStayBounded == Spec => []AttemptsBounded
<1>1. IInv => AttemptsBounded
    BY DEF IInv
<1> QED
    BY <1>1, InvariantCorrect, PTL

(* Only a claim starts a run, and it starts one only for a row that is due *)
(* and has no lease.                                                       *)
LEMMA OnlyClaimsStartRuns ==
    ASSUME IInv, [Next]_vars, NEW r \in Runners, NEW j \in Jobs,
           run[r][j] = "none", run'[r][j] = "running"
    PROVE  j \in Claimable
<1>0. /\ run \in [Runners -> [Jobs -> Phases]]
      /\ run[r][j] # run'[r][j]
    BY DEF IInv, TypeOK
<1>1. ASSUME NEW q \in Runners, Drain(q) PROVE j \in Claimable
    <2> PICK batch \in SUBSET Claimable : Claim(q, batch)
        BY <1>1 DEF Drain
    <2>1. run' = [run EXCEPT ![q] = [i \in Jobs |->
                    IF i \in batch THEN "running" ELSE run[q][i]]]
        BY DEF Claim
    <2>2. j \in batch
        BY <1>0, <2>1
    <2> QED
        BY <2>2
<1>2. ASSUME NEW q \in Runners, NEW i \in Jobs, NEW result \in Results,
             HandlerReturns(q, i, result)
      PROVE  FALSE
    BY <1>0, <1>2 DEF HandlerReturns, Results
<1>3. ASSUME NEW q \in Runners, NEW i \in Jobs,
             \/ Remove(q, i) \/ DropOrphan(q, i)
             \/ Retry(q, i) \/ BookkeepingFails(q, i)
      PROVE  FALSE
    BY <1>0, <1>3 DEF Remove, DropOrphan, Retry, BookkeepingFails
<1>4. ASSUME NEW q \in Runners, Crash(q) PROVE FALSE
    BY <1>0, <1>4 DEF Crash
<1>5. ASSUME \/ \E i \in Jobs, w \in Work \cup {NoKey}, d \in Delays : Enqueue(i, w, d)
             \/ Tick
             \/ UNCHANGED vars
      PROVE  FALSE
    BY <1>0, <1>5 DEF Enqueue, Tick, vars
<1> QED
    BY <1>1, <1>2, <1>3, <1>4, <1>5 DEF Next, RunnerStep, EnqueueDuplicate

(* A failed job rests for its whole backoff before it is claimed again.    *)
THEOREM RetriesArePaced == Spec => PacedRetries
<1>1. IInv /\ [Next]_vars =>
          [\A r \in Runners, j \in Jobs :
              run[r][j] = "none" /\ run'[r][j] = "running" /\ row[j].attempts > 0
                => rest[j] >= Backoff(row[j].attempts)]_vars
    <2> SUFFICES ASSUME IInv, [Next]_vars, NEW r \in Runners, NEW j \in Jobs,
                        run[r][j] = "none", run'[r][j] = "running",
                        row[j].attempts > 0
                 PROVE  rest[j] >= Backoff(row[j].attempts)
        OBVIOUS
    <2>1. j \in Claimable
        BY OnlyClaimsStartRuns
    <2>2. rest[j] \in 0..RetryCap /\ rest[j] + 0 = rest[j]
        BY QueueAssumption DEF IInv, TypeOK
    <2> QED
        BY <2>1, <2>2 DEF Claimable, IInv, BackoffOwed
<1> QED
    BY <1>1, InvariantCorrect, PTL DEF Spec, PacedRetries

-----------------------------------------------------------------------------

(* An instance that remembers a nil got it from the job's handler.         *)
NilIsSuccess == \A r \in Runners, j \in Jobs : run[r][j] = "nil" => j \in succeeded

LEMMA NilHolds == Spec => []NilIsSuccess
<1>1. Init => NilIsSuccess
    BY DEF Init, NilIsSuccess
<1>2. IInv /\ NilIsSuccess /\ [Next]_vars => NilIsSuccess'
    <2> SUFFICES ASSUME IInv, NilIsSuccess, [Next]_vars PROVE NilIsSuccess'
        OBVIOUS
    <2>0. run \in [Runners -> [Jobs -> Phases]]
        BY DEF IInv, TypeOK
    <2>1. ASSUME NEW r \in Runners, Drain(r) PROVE NilIsSuccess'
        <3> PICK batch \in SUBSET Claimable : Claim(r, batch)
            BY <2>1 DEF Drain
        <3>1. \A q \in Runners, j \in Jobs :
                  run'[q][j] = IF q = r /\ j \in batch THEN "running" ELSE run[q][j]
            BY <2>0 DEF Claim
        <3>2. succeeded' = succeeded
            BY DEF Claim
        <3> QED
            BY <3>1, <3>2 DEF NilIsSuccess
    <2>2. ASSUME NEW r \in Runners, NEW j \in Jobs, NEW result \in Results,
                 HandlerReturns(r, j, result)
          PROVE  NilIsSuccess'
        BY <2>0, <2>2 DEF HandlerReturns, NilIsSuccess
    <2>3. ASSUME NEW r \in Runners, NEW j \in Jobs,
                 \/ Remove(r, j) \/ DropOrphan(r, j)
                 \/ Retry(r, j) \/ BookkeepingFails(r, j)
          PROVE  NilIsSuccess'
        BY <2>0, <2>3 DEF Remove, DropOrphan, Retry, BookkeepingFails, NilIsSuccess
    <2>4. ASSUME NEW r \in Runners, Crash(r) PROVE NilIsSuccess'
        BY <2>0, <2>4 DEF Crash, NilIsSuccess
    <2>5. ASSUME \/ \E i \in Jobs, w \in Work \cup {NoKey}, d \in Delays : Enqueue(i, w, d)
                 \/ Tick
                 \/ UNCHANGED vars
          PROVE  NilIsSuccess'
        BY <2>5 DEF Enqueue, Tick, vars, NilIsSuccess
    <2> QED
        BY <2>1, <2>2, <2>3, <2>4, <2>5 DEF Next, RunnerStep, EnqueueDuplicate
<1> QED
    BY <1>1, <1>2, InvariantCorrect, PTL DEF Spec

(* A row is only deleted for a success, a permanent failure, an exhausted  *)
(* budget or a missing handler.                                            *)
THEOREM NothingIsGivenUpEarly == Spec => NoEarlyGiveUp
<1> DEFINE Excused(j) == \/ j \in succeeded
                         \/ row[j].work \in Orphans
                         \/ row[j].attempts = MaxAttempts
                         \/ \E r \in Runners : run[r][j] = "permanent"
<1>1. IInv /\ NilIsSuccess /\ [Next]_vars => [\A j \in present \ present' : Excused(j)]_vars
    <2> SUFFICES ASSUME IInv, NilIsSuccess, [Next]_vars, NEW j \in present, j \notin present'
                 PROVE  Excused(j)
        OBVIOUS
    <2>0. j \in Jobs /\ row[j] \in Row /\ row[j].attempts <= MaxAttempts
        BY DEF IInv, TypeOK, AttemptsBounded
    <2>1. PICK r \in Runners, i \in Jobs : Remove(r, i) \/ DropOrphan(r, i)
        BY DEF Next, RunnerStep, EnqueueDuplicate, Enqueue, Drain, Claim, HandlerReturns,
               Retry, BookkeepingFails, Crash, Tick, vars
    <2>2. i = j
        BY <2>1 DEF Remove, DropOrphan
    <2>3. CASE DropOrphan(r, j)
        BY <2>3 DEF DropOrphan
    <2>4. CASE Remove(r, j)
        <3>1. run[r][j] # "nil" /\ run[r][j] # "permanent" => row[j].attempts >= MaxAttempts
            BY <2>4 DEF Remove, Decide
        <3> QED
            BY <2>0, <3>1, QueueAssumption DEF NilIsSuccess, Row
    <2> QED
        BY <2>1, <2>2, <2>3, <2>4
<1> QED
    BY <1>1, InvariantCorrect, NilHolds, PTL DEF Spec, NoEarlyGiveUp

-----------------------------------------------------------------------------
(* The queue implements the slots.                                         *)

(* What a row shows of its piece of work.                                  *)
Shown(j) == IF row[j].lease = Unleased THEN "waiting"
            ELSE IF \E r \in Runners : Held(r, j) THEN "held"
            ELSE "stranded"

(* A pair has no row, or one that shows its slot.                          *)
SlotsAreRows ==
    /\ \A w \in Work : (\A j \in present : row[j].work # w) =>
          SlotOf(w) = "empty" /\ TriesOf(w) = 0
    /\ \A j \in present : row[j].work \in Work =>
          SlotOf(row[j].work) = Shown(j) /\ TriesOf(row[j].work) = row[j].attempts

LEMMA RowsShowSlots == IInv => SlotsAreRows
<1> SUFFICES ASSUME IInv PROVE SlotsAreRows
    OBVIOUS
<1>1. ASSUME NEW w \in Work, \A j \in present : row[j].work # w
      PROVE  SlotOf(w) = "empty" /\ TriesOf(w) = 0
    BY <1>1 DEF SlotOf, TriesOf, RowsOf
<1>2. ASSUME NEW j \in present, row[j].work \in Work
      PROVE  SlotOf(row[j].work) = Shown(j) /\ TriesOf(row[j].work) = row[j].attempts
    <2> DEFINE w == row[j].work
    <2>1. RowsOf(w) = {j}
        BY <1>2, QueueAssumption DEF IInv, OneRowPerWork, RowsOf
    <2>2. (CHOOSE i \in RowsOf(w) : TRUE) = j
        BY <2>1
    <2> QED
        BY <2>1, <2>2 DEF SlotOf, TriesOf, Shown
<1> QED
    BY <1>1, <1>2 DEF SlotsAreRows

SlotMap == [w \in Work |-> SlotOf(w)]
TryMap  == [w \in Work |-> TriesOf(w)]

(* The slots of the work whose rows stay, and show the same, do not move.  *)
LEMMA SlotsRest ==
    ASSUME SlotsAreRows, SlotsAreRows', NEW w \in Work,
           \A j \in present' : row'[j].work = w => j \in present,
           \A j \in present : row[j].work = w =>
              /\ j \in present' /\ row'[j].work = w
              /\ Shown(j)' = Shown(j) /\ row'[j].attempts = row[j].attempts,
           \A j \in present \cap present' : row'[j].work = row[j].work
    PROVE  SlotMap'[w] = SlotMap[w] /\ TryMap'[w] = TryMap[w]
<1>0. SlotMap'[w] = SlotOf(w)' /\ SlotMap[w] = SlotOf(w) /\ TryMap'[w] = TriesOf(w)' /\ TryMap[w] = TriesOf(w)
    BY DEF SlotMap, TryMap
<1>1. CASE \E j \in present : row[j].work = w
    <2> PICK j \in present : row[j].work = w
        BY <1>1
    <2>1. SlotOf(w) = Shown(j) /\ TriesOf(w) = row[j].attempts
        BY DEF SlotsAreRows
    <2>2. SlotOf(w)' = Shown(j)' /\ TriesOf(w)' = row'[j].attempts
        BY DEF SlotsAreRows
    <2> QED
        BY <1>0, <2>1, <2>2
<1>2. CASE \A j \in present : row[j].work # w
    <2>1. SlotOf(w) = "empty" /\ TriesOf(w) = 0
        BY <1>2 DEF SlotsAreRows
    <2>2. \A j \in present' : row'[j].work # w
        BY <1>2
    <2>3. SlotOf(w)' = "empty" /\ TriesOf(w)' = 0
        BY <2>2 DEF SlotsAreRows
    <2> QED
        BY <1>0, <2>1, <2>3
<1> QED
    BY <1>1, <1>2

SlotStep == Slots!SlotNext \/ (SlotMap' = SlotMap /\ TryMap' = TryMap)

LEMMA EnqueueFillsSlot ==
    ASSUME IInv, SlotsAreRows, SlotsAreRows',
           NEW j \in Jobs, NEW w \in Work \cup {NoKey}, NEW d \in Delays,
           Enqueue(j, w, d)
    PROVE  SlotStep
<1>0. /\ j \notin present /\ present' = present \cup {j} /\ run' = run
      /\ row' = [row EXCEPT ![j] = [work |-> w, delay |-> d, attempts |-> 0, lease |-> Unleased]]
      /\ row \in [Jobs -> Row] /\ present \subseteq Jobs
    BY DEF Enqueue, IInv, TypeOK
<1>1. \A i \in present : row'[i] = row[i] /\ Shown(i)' = Shown(i)
    BY <1>0 DEF Shown, Held
<1>2. ASSUME NEW x \in Work, x # w
      PROVE  SlotMap'[x] = SlotMap[x] /\ TryMap'[x] = TryMap[x]
    BY <1>0, <1>1, <1>2, SlotsRest
<1>3. CASE w = NoKey
    BY <1>2, <1>3, QueueAssumption DEF SlotStep, SlotMap, TryMap
<1>4. CASE w \in Work
    <2>1. \A i \in present : row[i].work # w
        BY <1>4, QueueAssumption DEF Enqueue, Conflict
    <2>2. SlotMap[w] = "empty" /\ TryMap[w] = 0
        BY <1>4, <2>1 DEF SlotsAreRows, SlotMap, TryMap
    <2>3. row'[j].work = w /\ row'[j].attempts = 0 /\ Shown(j)' = "waiting" /\ j \in present'
        BY <1>0 DEF Shown
    <2>4. SlotOf(w)' = "waiting" /\ TriesOf(w)' = 0
        BY <1>4, <2>3 DEF SlotsAreRows
    <2>5. Slots!Add(w)
        BY <1>2, <1>4, <2>2, <2>4 DEF Slots!Add, SlotMap, TryMap
    <2> QED
        BY <1>4, <2>5 DEF SlotStep, Slots!SlotNext
<1> QED
    BY <1>3, <1>4

(* A claim takes the slots of the rows of its batch that have a key.       *)
LEMMA DrainTakesSlots ==
    ASSUME IInv, SlotsAreRows, SlotsAreRows', NEW r \in Runners, Drain(r)
    PROVE  SlotStep
<1> PICK batch \in SUBSET Claimable : Claim(r, batch)
    BY DEF Drain
<1> DEFINE taken == {row[j].work : j \in batch} \cap Work
<1>1. /\ present' = present /\ present \subseteq Jobs
      /\ row \in [Jobs -> Row] /\ run \in [Runners -> [Jobs -> Phases]]
      /\ batch \subseteq present
    BY DEF Claim, Claimable, IInv, TypeOK
<1>2. \A j \in Jobs : /\ j \in batch => /\ row'[j].work = row[j].work
                                        /\ row'[j].attempts = row[j].attempts + 1
                                        /\ row'[j].lease = Lease
                      /\ j \notin batch => row'[j] = row[j]
    BY <1>1 DEF Claim, Row
<1>3. \A q \in Runners, j \in Jobs :
          run'[q][j] = IF q = r /\ j \in batch THEN "running" ELSE run[q][j]
    BY <1>1 DEF Claim
<1>4. ASSUME NEW j \in batch
      PROVE  /\ Shown(j) = "waiting" /\ Shown(j)' = "held"
             /\ row[j].attempts < MaxAttempts
    <2>1. j \in Jobs /\ row[j].lease = Unleased
        BY <1>1 DEF Claimable
    <2>2. row'[j].lease # Unleased /\ run'[r][j] # "none"
        BY <1>2, <1>3, <2>1, QueueAssumption
    <2> QED
        BY <1>1, <2>1, <2>2 DEF Shown, Held, IInv, AttemptsBounded
<1>5. \A j \in present \ batch : Shown(j)' = Shown(j)
    BY <1>1, <1>2, <1>3 DEF Shown, Held
<1>6. ASSUME NEW x \in Work, x \notin taken
      PROVE  SlotMap'[x] = SlotMap[x] /\ TryMap'[x] = TryMap[x]
    <2>1. \A j \in present : row[j].work = x => j \notin batch
        BY <1>6
    <2>2. \A j \in present : row'[j].work = row[j].work
        BY <1>1, <1>2
    <2> QED
        BY <1>1, <1>2, <1>5, <2>1, <2>2, SlotsRest
<1>7. ASSUME NEW x \in taken
      PROVE  /\ SlotMap[x] = "waiting" /\ TryMap[x] < MaxAttempts
             /\ SlotMap'[x] = "held" /\ TryMap'[x] = TryMap[x] + 1
    <2> PICK j \in batch : row[j].work = x
        BY <1>7
    <2>1. SlotOf(x) = "waiting" /\ TriesOf(x) = row[j].attempts
        BY <1>1, <1>4 DEF SlotsAreRows
    <2>2. SlotOf(x)' = "held" /\ TriesOf(x)' = row[j].attempts + 1
        BY <1>1, <1>2, <1>4 DEF SlotsAreRows
    <2> QED
        BY <1>4, <2>1, <2>2 DEF SlotMap, TryMap
<1>8. CASE taken = {}
    BY <1>6, <1>8 DEF SlotStep, SlotMap, TryMap
<1>9. CASE taken # {}
    <2> HIDE DEF taken
    <2>1. taken \in SUBSET Work
        BY DEF taken
    <2>2. Slots!Take(taken)
        BY <1>6, <1>7, <1>9, <2>1 DEF Slots!Take, SlotMap, TryMap
    <2> QED
        BY <2>1, <2>2 DEF SlotStep, Slots!SlotNext
<1> QED
    BY <1>8, <1>9

(* The bookkeeping of a run empties the slot it holds, gives it back, or   *)
(* is lost.                                                                *)
LEMMA HolderShowsHeld ==
    ASSUME IInv, SlotsAreRows, NEW r \in Runners, NEW j \in Jobs, Held(r, j)
    PROVE  /\ j \in present /\ Shown(j) = "held"
           /\ row[j].work \in Work =>
                 SlotMap[row[j].work] = "held" /\ TryMap[row[j].work] = row[j].attempts
           /\ \A q \in Runners : Held(q, j) => q = r
           /\ \A i \in present : i # j /\ row[i].work = row[j].work => row[j].work \notin Work
<1>1. j \in present /\ Shown(j) = "held"
    BY DEF IInv, HeldIsLeased, Shown
<1>2. row[j].work \in Work =>
         SlotMap[row[j].work] = "held" /\ TryMap[row[j].work] = row[j].attempts
    BY <1>1 DEF SlotsAreRows, SlotMap, TryMap
<1>3. \A q \in Runners : Held(q, j) => q = r
    BY DEF IInv, OneHolder
<1>4. \A i \in present : i # j /\ row[i].work = row[j].work => row[j].work \notin Work
    BY <1>1, QueueAssumption DEF IInv, OneRowPerWork
<1> QED
    BY <1>1, <1>2, <1>3, <1>4

LEMMA RemoveEmptiesSlot ==
    ASSUME IInv, SlotsAreRows, SlotsAreRows', NEW r \in Runners, NEW j \in Jobs,
           Remove(r, j) \/ DropOrphan(r, j)
    PROVE  SlotStep
<1> DEFINE w == row[j].work
<1>0. /\ present' = present \ {j} /\ row' = row /\ run' = [run EXCEPT ![r][j] = "none"]
      /\ run \in [Runners -> [Jobs -> Phases]] /\ present \subseteq Jobs /\ Held(r, j)
    BY DEF Remove, DropOrphan, IInv, TypeOK, Held, Results
<1>1. /\ j \in present
      /\ w \in Work => SlotMap[w] = "held"
      /\ \A i \in present : i # j /\ row[i].work = w => w \notin Work
    BY <1>0, HolderShowsHeld
<1>2. \A i \in present : i # j => Shown(i)' = Shown(i)
    BY <1>0 DEF Shown, Held
<1>3. ASSUME NEW x \in Work, x # w
      PROVE  SlotMap'[x] = SlotMap[x] /\ TryMap'[x] = TryMap[x]
    BY <1>0, <1>2, <1>3, SlotsRest
<1>4. CASE w \notin Work
    BY <1>3, <1>4 DEF SlotStep, SlotMap, TryMap
<1>5. CASE w \in Work
    <2>1. \A i \in present' : row'[i].work # w
        BY <1>0, <1>1, <1>5
    <2> HIDE DEF w
    <2>2. SlotMap'[w] = "empty" /\ TryMap'[w] = 0
        BY <1>5, <2>1 DEF SlotsAreRows, SlotMap, TryMap
    <2>3. Slots!Finish(w)
        BY <1>1, <1>3, <1>5, <2>2 DEF Slots!Finish, SlotMap, TryMap
    <2> QED
        BY <1>5, <2>3 DEF SlotStep, Slots!SlotNext
<1> QED
    BY <1>4, <1>5

LEMMA RetryGivesSlotBack ==
    ASSUME IInv, SlotsAreRows, SlotsAreRows', NEW r \in Runners, NEW j \in Jobs,
           Retry(r, j)
    PROVE  SlotStep
<1> DEFINE w == row[j].work
<1>0. /\ present' = present /\ run' = [run EXCEPT ![r][j] = "none"]
      /\ run \in [Runners -> [Jobs -> Phases]] /\ present \subseteq Jobs /\ Held(r, j)
      /\ row \in [Jobs -> Row]
    BY DEF Retry, IInv, TypeOK, Held, Results
<1>1. /\ j \in present
      /\ w \in Work => SlotMap[w] = "held" /\ TryMap[w] = row[j].attempts
    BY <1>0, HolderShowsHeld
<1>2. /\ \A i \in Jobs : i # j => row'[i] = row[i]
      /\ row'[j].work = w /\ row'[j].attempts = row[j].attempts /\ row'[j].lease = Unleased
      /\ row[j].attempts \in Nat
    BY <1>0 DEF Retry, Row
<1>3. \A i \in present : i # j => Shown(i)' = Shown(i)
    BY <1>0, <1>2 DEF Shown, Held
<1>4. ASSUME NEW x \in Work, x # w
      PROVE  SlotMap'[x] = SlotMap[x] /\ TryMap'[x] = TryMap[x]
    BY <1>0, <1>2, <1>3, <1>4, SlotsRest
<1>5. row[j].attempts < MaxAttempts
    BY <1>2, QueueAssumption DEF Retry, Decide, Results
<1>6. CASE w \notin Work
    BY <1>4, <1>6 DEF SlotStep, SlotMap, TryMap
<1>7. CASE w \in Work
    <2>1. SlotOf(w)' = "waiting" /\ TriesOf(w)' = row[j].attempts
        BY <1>0, <1>1, <1>2, <1>7 DEF SlotsAreRows, Shown
    <2>2. SlotMap'[w] = "waiting" /\ TryMap'[w] = row[j].attempts
        BY <1>2, <1>7, <2>1 DEF SlotMap, TryMap
    <2> HIDE DEF w
    <2>3. Slots!GiveBack(w)
        BY <1>1, <1>4, <1>5, <1>7, <2>2 DEF Slots!GiveBack, SlotMap, TryMap
    <2> QED
        BY <1>7, <2>3 DEF SlotStep, Slots!SlotNext
<1> QED
    BY <1>6, <1>7

(* A crash, or bookkeeping that fails, strands what was held.              *)
LEMMA FaultStrandsSlots ==
    ASSUME IInv, SlotsAreRows, SlotsAreRows', NEW r \in Runners,
           Crash(r) \/ \E j \in Jobs : BookkeepingFails(r, j)
    PROVE  SlotStep
<1> DEFINE dropped == {j \in Jobs : run[r][j] # run'[r][j]}
           lost == {row[j].work : j \in dropped} \cap Work
<1>0. /\ present' = present /\ row' = row /\ present \subseteq Jobs
      /\ run \in [Runners -> [Jobs -> Phases]]
      /\ \A q \in Runners, j \in Jobs :
            run'[q][j] = IF q = r /\ j \in dropped THEN "none" ELSE run[q][j]
    BY DEF Crash, BookkeepingFails, IInv, TypeOK, Phases
<1>1. ASSUME NEW j \in dropped
      PROVE  /\ j \in present /\ Shown(j) = "held" /\ Shown(j)' = "stranded"
    <2>1. Held(r, j)
        BY <1>0 DEF Held
    <2>2. /\ j \in present /\ Shown(j) = "held"
          /\ \A q \in Runners : Held(q, j) => q = r
        BY <2>1, HolderShowsHeld
    <2>3. \A q \in Runners : run'[q][j] = "none"
        BY <1>0, <2>2 DEF Held
    <2>4. row'[j].lease # Unleased
        BY <1>0, <2>1 DEF IInv, HeldIsLeased
    <2> QED
        BY <2>2, <2>3, <2>4 DEF Shown, Held
<1>2. \A j \in present \ dropped : Shown(j)' = Shown(j)
    <2> HIDE DEF dropped
    <2> QED
        BY <1>0 DEF Shown, Held
<1>3. ASSUME NEW x \in Work, x \notin lost
      PROVE  SlotMap'[x] = SlotMap[x] /\ TryMap'[x] = TryMap[x]
    <2>1. \A j \in present : row[j].work = x => j \notin dropped
        BY <1>3
    <2> QED
        BY <1>0, <1>2, <2>1, SlotsRest
<1>4. ASSUME NEW x \in lost
      PROVE  /\ SlotMap[x] = "held" /\ SlotMap'[x] = "stranded"
             /\ TryMap'[x] = TryMap[x]
    <2> PICK j \in dropped : row[j].work = x
        BY <1>4
    <2>1. j \in present /\ Shown(j) = "held" /\ Shown(j)' = "stranded"
        BY <1>1
    <2>2. SlotOf(x) = "held" /\ TriesOf(x) = row[j].attempts
        BY <2>1 DEF SlotsAreRows
    <2>3. SlotOf(x)' = "stranded" /\ TriesOf(x)' = row[j].attempts
        BY <1>0, <2>1 DEF SlotsAreRows
    <2> QED
        BY <2>2, <2>3 DEF SlotMap, TryMap
<1>5. CASE lost = {}
    BY <1>3, <1>5 DEF SlotStep, SlotMap, TryMap
<1>6. CASE lost # {}
    <2> HIDE DEF lost
    <2>1. lost \in SUBSET Work
        BY DEF lost
    <2>2. Slots!Lose(lost)
        BY <1>3, <1>4, <1>6, <2>1 DEF Slots!Lose, SlotMap, TryMap
    <2> QED
        BY <2>1, <2>2 DEF SlotStep, Slots!SlotNext
<1> QED
    BY <1>5, <1>6

(* A result that comes back and a tick of the clock move no slot.          *)
LEMMA OthersLeaveSlots ==
    ASSUME IInv, SlotsAreRows, SlotsAreRows',
           \/ Tick
           \/ UNCHANGED vars
           \/ \E r \in Runners, j \in Jobs, result \in Results : HandlerReturns(r, j, result)
    PROVE  SlotStep
<1>1. present' = present /\ present \subseteq Jobs
    BY DEF Tick, HandlerReturns, vars, IInv, TypeOK
<1>2. \A j \in Jobs : /\ row'[j].work = row[j].work /\ row'[j].attempts = row[j].attempts
                      /\ row'[j].lease = Unleased <=> row[j].lease = Unleased
    <2>1. row \in [Jobs -> Row]
        BY DEF IInv, TypeOK
    <2>2. CASE Tick
        <3> SUFFICES ASSUME NEW j \in Jobs
                     PROVE  /\ row'[j].work = row[j].work /\ row'[j].attempts = row[j].attempts
                            /\ row'[j].lease = Unleased <=> row[j].lease = Unleased
            OBVIOUS
        <3>1. row[j] \in Row
            BY <2>1
        <3>2. row'[j] = [row[j] EXCEPT !.delay = IF @ > 0 THEN @ - 1 ELSE @,
                                       !.lease = IF @ > 0 THEN @ - 1 ELSE @]
            BY <2>2 DEF Tick
        <3> QED
            BY <3>1, <3>2 DEF Row
    <2>3. CASE row' = row
        BY <2>3
    <2> QED
        BY <2>2, <2>3 DEF HandlerReturns, vars
<1>3. \A r \in Runners, j \in Jobs : Held(r, j)' <=> Held(r, j)
    <2>1. run \in [Runners -> [Jobs -> Phases]]
        BY DEF IInv, TypeOK
    <2>2. CASE run' = run
        BY <2>2 DEF Held
    <2>3. ASSUME NEW r \in Runners, NEW j \in Jobs, NEW result \in Results, HandlerReturns(r, j, result)
          PROVE  \A q \in Runners, i \in Jobs : Held(q, i)' <=> Held(q, i)
        BY <2>1, <2>3 DEF HandlerReturns, Held, Results
    <2> QED
        BY <2>2, <2>3 DEF Tick, vars
<1>4. \A j \in present : Shown(j)' = Shown(j)
    BY <1>1, <1>2, <1>3 DEF Shown
<1>5. \A x \in Work : SlotMap'[x] = SlotMap[x] /\ TryMap'[x] = TryMap[x]
    BY <1>1, <1>2, <1>4, SlotsRest
<1> QED
    BY <1>5 DEF SlotStep, SlotMap, TryMap

(* The queue keeps the promise its callers rely on: see ImplementsSlots.   *)
THEOREM QueueImplementsSlots == Spec => ImplementsSlots
<1>1. Init => Slots!SlotInit
    BY DEF Init, Slots!SlotInit, SlotOf, TriesOf, RowsOf
<1>2. IInv /\ SlotsAreRows /\ SlotsAreRows' /\ [Next]_vars => [Slots!SlotNext]_(Slots!slotVars)
    <2> SUFFICES ASSUME IInv, SlotsAreRows, SlotsAreRows', [Next]_vars
                 PROVE  [Slots!SlotNext]_(Slots!slotVars)
        OBVIOUS
    <2>1. SlotStep
        BY EnqueueFillsSlot, DrainTakesSlots, RemoveEmptiesSlot, RetryGivesSlotBack,
           FaultStrandsSlots, OthersLeaveSlots
        DEF Next, RunnerStep, EnqueueDuplicate
    <2> QED
        BY <2>1 DEF SlotStep, Slots!slotVars, SlotMap, TryMap
<1> QED
    BY <1>1, <1>2, RowsShowSlots, InvariantCorrect, PTL DEF Spec, ImplementsSlots, Slots!SlotSpec

=============================================================================
