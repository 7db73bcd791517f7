------------------------- MODULE JobQueueRefinement -------------------------
(***************************************************************************)
(* JobQueue implements JobSlots: the rows of job_queue and the memory of   *)
(* the instances, seen as one slot per keyed piece of work.                *)
(***************************************************************************)
EXTENDS JobQueue

RowsOf(w) == {j \in present : row[j].work = w}

SlotOf(w) ==
    IF RowsOf(w) = {} THEN "empty"
    ELSE LET j == CHOOSE j \in RowsOf(w) : TRUE
         IN  IF row[j].lease = Unleased THEN "waiting"
             ELSE IF \E r \in Runners : Held(r, j) THEN "held"
             ELSE "stranded"

TriesOf(w) ==
    IF RowsOf(w) = {} THEN 0
    ELSE row[CHOOSE j \in RowsOf(w) : TRUE].attempts

Slots == INSTANCE JobSlots
    WITH slot  <- [w \in Work |-> SlotOf(w)],
         tries <- [w \in Work |-> TriesOf(w)]

(* Every step of the queue is a step of the slots, or leaves them alone:   *)
(* with any interleaving of instances, crashes and lost writes, keyed work *)
(* is held once at a time, tried at most MaxAttempts times, given back     *)
(* only by its holder and never rescued once stranded.                     *)
ImplementsSlots == Slots!SlotSpec

=============================================================================
