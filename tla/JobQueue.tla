------------------------------ MODULE JobQueue ------------------------------
(***************************************************************************)
(* The Postgres-backed job queue of internal/queue/queue.go: rows of the   *)
(* job_queue table, the instances that drain it, and what becomes of a row *)
(* whose run, or whose bookkeeping, does not end.                          *)
(*                                                                         *)
(* Each SQL statement is one atomic step.  Between the claim of a row and  *)
(* the statement that records its fate the handler runs outside any        *)
(* transaction, so other instances, other callers of Enqueue and a crash   *)
(* may come in between.                                                    *)
(*                                                                         *)
(* Time is measured in ticks of the database clock and kept relative: a    *)
(* row carries the ticks left until run_at and until lease_until.  "run_at *)
(* <= now()" is delay = 0, and "ORDER BY run_at" among rows that are due   *)
(* is left open (any batch of due rows may be taken).                      *)
(***************************************************************************)
EXTENDS Integers, FiniteSets

CONSTANTS
    Jobs,          \* row ids (gen_random_uuid: an id is never used twice)
    Work,          \* the (kind, dedupe_key) pairs callers enqueue
    NoKey,         \* the pair of a job enqueued without a dedupe key
    Orphans,       \* the pairs whose kind has no registered handler
    Runners,       \* the instances whose runner drains the table
    Batch,         \* defaultBatch, rows one claim may take
    Lease,         \* defaultLease, in ticks
    MaxAttempts,   \* defaultMaxAttempts; no caller passes another value
    RetryBase,     \* retryBase, in ticks
    RetryCap,      \* retryCap, in ticks
    ShiftLimit,    \* retryShiftLimit
    Delays,        \* the delays callers ask for with RunAt (0: at once)
    MaxFaults      \* bound: crashes and failed bookkeeping writes

Unleased == -1     \* lease_until IS NULL

ASSUME QueueAssumption ==
    /\ NoKey \notin Work
    /\ Orphans \subseteq Work
    /\ Batch \in Nat \ {0}
    /\ Lease \in Nat \ {0}
    /\ MaxAttempts \in Nat \ {0}
    /\ RetryBase \in Nat \ {0}
    /\ RetryCap \in Nat \ {0}
    /\ ShiftLimit \in Nat \ {0}
    /\ Delays \subseteq Nat
    /\ MaxFaults \in Nat

VARIABLES
    present,       \* ids of the rows in job_queue
    used,          \* ids ever inserted
    row,           \* the columns of each row
    run,           \* run[r][j]: how far instance r is with job j
    faults,        \* faults so far
    succeeded,     \* history: jobs whose handler once returned nil
    rest           \* history: ticks since the job's last failed run ended

vars == <<present, used, row, run, faults, succeeded, rest>>

-----------------------------------------------------------------------------

Results  == {"nil", "error", "permanent"}  \* what a handler returns
Phases   == {"none", "running"} \cup Results

Row == [work     : Work \cup {NoKey},
        delay    : Nat,
        attempts : Nat,
        lease    : Nat \cup {Unleased}]

(* The retry spacing: it doubles per attempt up to the cap.                *)
Backoff(attempts) ==
    LET a == IF attempts < 1 THEN 1 ELSE attempts
        d == RetryBase * 2^(a - 1)
    IN  IF a > ShiftLimit \/ d > RetryCap THEN RetryCap ELSE d

(* Mutated forms, here and below: what a slip in the code would make of    *)
(* the definition that follows.  Here: the attempts budget is off by one,  *)
(* upwards and downwards.                                                  *)
DecideLate(result, attempts) ==
    IF result = "nil" THEN "complete"
    ELSE IF result = "permanent" \/ attempts > MaxAttempts THEN "drop"
    ELSE "retry"

DecideEarly(result, attempts) ==
    IF result = "nil" THEN "complete"
    ELSE IF result = "permanent" \/ attempts + 1 >= MaxAttempts THEN "drop"
    ELSE "retry"

(* The fate of a job, from what its handler returned and its attempts.     *)
Decide(result, attempts) ==
    IF result = "nil" THEN "complete"
    ELSE IF result = "permanent" \/ attempts >= MaxAttempts THEN "drop"
    ELSE "retry"

(* Mutated form: the index only covers rows nobody has claimed.            *)
ConflictUnclaimed(w) ==
    w # NoKey /\ \E j \in present : row[j].work = w /\ row[j].lease = Unleased

(* The unique index on (kind, dedupe_key) WHERE dedupe_key <> ''.          *)
Conflict(w) == w # NoKey /\ \E j \in present : row[j].work = w

Idle(r) == \A j \in Jobs : run[r][j] = "none"

(* Mutated form: run_at is ignored.                                        *)
ClaimableEarly == {j \in present : row[j].lease = Unleased}

(* The rows the claim statement selects.                                   *)
Claimable == {j \in present : row[j].lease = Unleased /\ row[j].delay = 0}

-----------------------------------------------------------------------------

Init ==
    /\ present = {}
    /\ used = {}
    /\ row = [j \in Jobs |-> [work |-> NoKey, delay |-> 0,
                              attempts |-> 0, lease |-> Unleased]]
    /\ run = [r \in Runners |-> [j \in Jobs |-> "none"]]
    /\ faults = 0
    /\ succeeded = {}
    /\ rest = [j \in Jobs |-> 0]

(* Enqueue: INSERT ... ON CONFLICT DO NOTHING.  A duplicate is no error.   *)
Enqueue(j, w, d) ==
    /\ j \notin used
    /\ ~Conflict(w)
    /\ present' = present \cup {j}
    /\ used' = used \cup {j}
    /\ row' = [row EXCEPT ![j] = [work |-> w, delay |-> d,
                                  attempts |-> 0, lease |-> Unleased]]
    /\ UNCHANGED <<run, faults, succeeded, rest>>

EnqueueDuplicate(w) ==
    /\ Conflict(w)
    /\ UNCHANGED vars

(* Drain: one claim statement leases a batch of due rows and counts the    *)
(* attempt; every job claimed is then run, and the next claim waits for    *)
(* the whole batch (wg.Wait).  FOR UPDATE SKIP LOCKED makes two concurrent *)
(* claims behave as one after the other.                                   *)
ClaimSize ==
    IF Cardinality(Claimable) < Batch THEN Cardinality(Claimable) ELSE Batch

Claim(r, batch) ==
    /\ Idle(r)
    /\ batch # {}
    /\ batch \subseteq Claimable
    /\ Cardinality(batch) = ClaimSize
    /\ row' = [j \in Jobs |->
                 IF j \in batch
                 THEN [row[j] EXCEPT !.lease = Lease, !.attempts = @ + 1]
                 ELSE row[j]]
    /\ run' = [run EXCEPT ![r] = [j \in Jobs |->
                 IF j \in batch THEN "running" ELSE run[r][j]]]
    /\ UNCHANGED <<present, used, faults, succeeded, rest>>

Drain(r) == \E batch \in SUBSET Claimable : Claim(r, batch)

(* A registered handler returns; its context ends after handlerTimeout, so *)
(* it does return.                                                         *)
HandlerReturns(r, j, result) ==
    /\ run[r][j] = "running"
    /\ row[j].work \notin Orphans
    /\ run' = [run EXCEPT ![r][j] = result]
    /\ succeeded' = IF result = "nil" THEN succeeded \cup {j} ELSE succeeded
    /\ UNCHANGED <<present, used, row, faults, rest>>

(* complete and drop: the row is deleted.                                  *)
Remove(r, j) ==
    /\ run[r][j] \in Results
    /\ Decide(run[r][j], row[j].attempts) \in {"complete", "drop"}
    /\ present' = present \ {j}
    /\ run' = [run EXCEPT ![r][j] = "none"]
    /\ UNCHANGED <<used, row, faults, succeeded, rest>>

(* No handler for the kind: the job is dropped without being run.          *)
DropOrphan(r, j) ==
    /\ run[r][j] = "running"
    /\ row[j].work \in Orphans
    /\ present' = present \ {j}
    /\ run' = [run EXCEPT ![r][j] = "none"]
    /\ UNCHANGED <<used, row, faults, succeeded, rest>>

(* Mutated form: the lease is kept.                                        *)
RetryLeased(r, j) ==
    /\ run[r][j] \in Results
    /\ Decide(run[r][j], row[j].attempts) = "retry"
    /\ row' = [row EXCEPT ![j].delay = Backoff(row[j].attempts)]
    /\ run' = [run EXCEPT ![r][j] = "none"]
    /\ rest' = [rest EXCEPT ![j] = 0]
    /\ UNCHANGED <<present, used, faults, succeeded>>

(* retry: the lease is given up and run_at moved by the backoff.           *)
Retry(r, j) ==
    /\ run[r][j] \in Results
    /\ Decide(run[r][j], row[j].attempts) = "retry"
    /\ row' = [row EXCEPT ![j].lease = Unleased,
                          ![j].delay = Backoff(row[j].attempts)]
    /\ run' = [run EXCEPT ![r][j] = "none"]
    /\ rest' = [rest EXCEPT ![j] = 0]
    /\ UNCHANGED <<present, used, faults, succeeded>>

(* The bookkeeping write of complete, drop or retry fails (the database is *)
(* away, or Shutdown has closed the pool): it is logged and the run ends   *)
(* with the row as the claim left it.                                      *)
BookkeepingFails(r, j) ==
    /\ faults < MaxFaults
    /\ \/ run[r][j] \in Results
       \/ run[r][j] = "running" /\ row[j].work \in Orphans
    /\ run' = [run EXCEPT ![r][j] = "none"]
    /\ faults' = faults + 1
    /\ UNCHANGED <<present, used, row, succeeded, rest>>

(* The process of r dies and a new one takes its place: the jobs it was    *)
(* running are gone from memory, their rows stay as the claim left them.   *)
Crash(r) ==
    /\ faults < MaxFaults
    /\ ~Idle(r)
    /\ run' = [run EXCEPT ![r] = [j \in Jobs |-> "none"]]
    /\ faults' = faults + 1
    /\ UNCHANGED <<present, used, row, succeeded, rest>>

(* Time passes.  A lease that has run out stays at 0: the column keeps its *)
(* value and only the clock moves on.                                      *)
Tick ==
    /\ row' = [j \in Jobs |->
                 [row[j] EXCEPT !.delay = IF @ > 0 THEN @ - 1 ELSE @,
                                !.lease = IF @ > 0 THEN @ - 1 ELSE @]]
    /\ rest' = [j \in Jobs |->
                 IF rest[j] < RetryCap THEN rest[j] + 1 ELSE rest[j]]
    /\ UNCHANGED <<present, used, run, faults, succeeded>>

RunnerStep(r) ==
    \/ Drain(r)
    \/ \E j \in Jobs :
          \/ \E result \in Results : HandlerReturns(r, j, result)
          \/ Remove(r, j)
          \/ DropOrphan(r, j)
          \/ Retry(r, j)

Next ==
    \/ \E j \in Jobs, w \in Work \cup {NoKey}, d \in Delays : Enqueue(j, w, d)
    \/ \E w \in Work : EnqueueDuplicate(w)
    \/ \E r \in Runners : RunnerStep(r)
    \/ \E r \in Runners, j \in Jobs : BookkeepingFails(r, j)
    \/ \E r \in Runners : Crash(r)
    \/ Tick

Spec == Init /\ [][Next]_vars

(* Every instance keeps draining (a ticker every DefaultInterval), every   *)
(* handler returns (handlerTimeout) and is followed by its bookkeeping,    *)
(* and time passes.  Nothing makes a caller enqueue, or a fault happen.    *)
Fairness ==
    /\ WF_vars(Tick)
    /\ \A r \in Runners :
          /\ WF_vars(Drain(r))
          /\ \A j \in Jobs :
                /\ WF_vars(\E result \in Results : HandlerReturns(r, j, result))
                /\ WF_vars(Remove(r, j) \/ DropOrphan(r, j) \/ Retry(r, j))

FairSpec == Spec /\ Fairness

-----------------------------------------------------------------------------

(* The shape of the table and of the instances' memory; a row leased or    *)
(* not has counted between 0 and MaxAttempts attempts.                     *)
TypeOK ==
    /\ present \subseteq used
    /\ used \subseteq Jobs
    /\ row \in [Jobs -> Row]
    /\ run \in [Runners -> [Jobs -> Phases]]
    /\ faults \in 0..MaxFaults
    /\ succeeded \subseteq used
    /\ rest \in [Jobs -> 0..RetryCap]

(* A job in the hands of an instance: claimed and not yet recorded.        *)
Held(r, j) == run[r][j] # "none"

(* "Claims are leased, so two runners never take the same row", and the    *)
(* dedupe index extends that from a row to the work itself: two instances  *)
(* (or one of them twice) never hold the same keyed work at the same time, *)
(* whatever crashed, failed or was enqueued again in between.              *)
ExclusiveWork ==
    \A r1, r2 \in Runners : \A j1, j2 \in Jobs :
        Held(r1, j1) /\ Held(r2, j2) =>
            \/ <<r1, j1>> = <<r2, j2>>
            \/ j1 # j2 /\ (row[j1].work # row[j2].work \/ row[j1].work = NoKey)

(* A job an instance holds still has its row, leased, in the table: nobody *)
(* else deletes or releases it before the holder records its fate.         *)
HeldIsLeased ==
    \A r \in Runners, j \in Jobs :
        Held(r, j) => j \in present /\ row[j].lease # Unleased

(* The inductive invariant behind the properties: a row has one holder,    *)
(* a keyed pair one row, and the rest a failed job has had plus the delay  *)
(* it still has make up its backoff.                                       *)
OneHolder ==
    \A r1, r2 \in Runners, j \in Jobs : Held(r1, j) /\ Held(r2, j) => r1 = r2

OneRowPerWork ==
    \A i, j \in present : row[i].work = row[j].work /\ i # j => row[i].work = NoKey

BackoffOwed ==
    \A j \in present :
        row[j].lease = Unleased /\ row[j].attempts > 0 =>
            rest[j] + row[j].delay >= Backoff(row[j].attempts)

(* The attempts budget survives crashes and lost bookkeeping: no row is    *)
(* ever claimed more than MaxAttempts times, and one that waits to be      *)
(* claimed still has an attempt left.                                      *)
AttemptsBounded ==
    \A j \in present :
        /\ row[j].attempts <= MaxAttempts
        /\ row[j].lease = Unleased => row[j].attempts < MaxAttempts

IInv ==
    /\ TypeOK
    /\ HeldIsLeased
    /\ OneHolder
    /\ OneRowPerWork
    /\ AttemptsBounded
    /\ BackoffOwed

(* A failed job is left alone for its whole backoff before it is claimed   *)
(* again, "so an outage does not become a burst".                          *)
PacedRetries ==
    [][\A r \in Runners, j \in Jobs :
          run[r][j] = "none" /\ run'[r][j] = "running" /\ row[j].attempts > 0
            => rest[j] >= Backoff(row[j].attempts)]_vars

(* A row leaves the table only when its handler succeeded, called the      *)
(* failure permanent, has failed MaxAttempts times, or does not exist.     *)
NoEarlyGiveUp ==
    [][\A j \in present \ present' :
          \/ j \in succeeded
          \/ row[j].work \in Orphans
          \/ row[j].attempts = MaxAttempts
          \/ \E r \in Runners : run[r][j] = "permanent"]_vars

(* A row a fault left leased with no instance working on it.               *)
Stranded(j) ==
    /\ faults > 0
    /\ j \in present
    /\ row[j].lease # Unleased
    /\ \A r \in Runners : ~Held(r, j)

(* Every job enqueued is eventually settled: retries end, batches end,     *)
(* nobody starves, and a stranded row holds up no row but itself.          *)
EveryJobSettles ==
    \A j \in Jobs : j \in present ~> j \notin present \/ Stranded(j)

-----------------------------------------------------------------------------
(* Promises of comments and documents which the code does not keep: TLC    *)
(* finds a counterexample to each.                                         *)

(* The promise of claim's comment: a crash mid-job releases the row once   *)
(* its lease expires, "instead of stranding it forever".                   *)
ExpiredLeaseReleased ==
    \A j \in Jobs :
        j \in present /\ row[j].lease = 0 ~>
            \/ j \notin present
            \/ row[j].lease # 0

=============================================================================
