------------------------------ MODULE JobSlots ------------------------------
(***************************************************************************)
(* What the job queue promises its callers about one piece of keyed work   *)
(* (a job kind with a dedupe key), whatever the number of instances: there *)
(* is one slot for it; the slot is handed to one handler run at a time and *)
(* at most MaxAttempts times; it is emptied, or offered again, by the run  *)
(* that holds it; and it is lost for good when that run cannot record its  *)
(* end.  JobQueue implements this module, SendPipeline builds on it.       *)
(***************************************************************************)
EXTENDS Naturals

CONSTANTS
    Work,          \* the (kind, dedupe_key) pairs
    MaxAttempts    \* runs a slot is worth

VARIABLES
    slot,          \* what the queue knows of each piece of work
    tries          \* runs started since it was last enqueued

slotVars == <<slot, tries>>

SlotStates == {"empty", "waiting", "held", "stranded"}

SlotInit ==
    /\ slot = [w \in Work |-> "empty"]
    /\ tries = [w \in Work |-> 0]

(* Enqueue with a free key; with a taken one nothing happens.              *)
Add(w) ==
    /\ slot[w] = "empty"
    /\ slot' = [slot EXCEPT ![w] = "waiting"]
    /\ UNCHANGED tries

(* One claim hands a batch of slots to an instance.                        *)
Take(batch) ==
    /\ batch # {}
    /\ \A w \in batch : slot[w] = "waiting" /\ tries[w] < MaxAttempts
    /\ slot' = [w \in Work |-> IF w \in batch THEN "held" ELSE slot[w]]
    /\ tries' = [w \in Work |-> IF w \in batch THEN tries[w] + 1 ELSE tries[w]]

(* The holder deletes the row.                                             *)
Finish(w) ==
    /\ slot[w] = "held"
    /\ slot' = [slot EXCEPT ![w] = "empty"]
    /\ tries' = [tries EXCEPT ![w] = 0]

(* The holder gives a failed run another try.                              *)
GiveBack(w) ==
    /\ slot[w] = "held"
    /\ tries[w] < MaxAttempts
    /\ slot' = [slot EXCEPT ![w] = "waiting"]
    /\ UNCHANGED tries

(* The holders crash, or their bookkeeping fails: nobody gives the slots   *)
(* back.                                                                   *)
Lose(batch) ==
    /\ batch # {}
    /\ \A w \in batch : slot[w] = "held"
    /\ slot' = [w \in Work |-> IF w \in batch THEN "stranded" ELSE slot[w]]
    /\ UNCHANGED tries

SlotNext ==
    \/ \E w \in Work : Add(w) \/ Finish(w) \/ GiveBack(w)
    \/ \E batch \in SUBSET Work : Take(batch) \/ Lose(batch)

SlotSpec == SlotInit /\ [][SlotNext]_slotVars

=============================================================================
