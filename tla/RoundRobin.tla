----------------------------- MODULE RoundRobin -----------------------------
(***************************************************************************)
(* The scheduler under an arbitrary caller, with the history its fairness  *)
(* is about: which Bulk queues had a turn while another one was waiting.   *)
(***************************************************************************)
EXTENDS Scheduler

CONSTANT MaxPending     \* bound: frames one queue holds when a frame is added

ASSUME MaxPendingAssumption == MaxPending \in Nat \ {0}

VARIABLE
    overtook    \* per place in bulk_order, the places that had a turn since
                \* that queue last became non-empty or had a turn itself

rrVars == <<queues, bulk_order, next_bulk_channel, overtook>>

Init == SchedInit /\ overtook = <<>>

\* A caller hands over a frame.
Enqueue(frame) ==
    /\ \A i \in QueuesOf(frame) : Len(queues[i].pending) < MaxPending
    /\ enqueue(frame)
    /\ overtook' = IF Len(bulk_order') = Len(bulk_order)
                   THEN overtook
                   ELSE Append(overtook, {})

\* The writer takes the next frame from queue number i.
Pop(i) ==
    /\ pop_next(i)
    /\ overtook' =
           [p \in DOMAIN overtook |->
               IF queues[i].priority = "Latency" THEN overtook[p]
               ELSE IF bulk_order[p] = i \/ ~Pending(bulk_order[p]) THEN {}
               ELSE overtook[p] \cup
                        {q \in DOMAIN bulk_order : bulk_order[q] = i}]

Next ==
    \/ \E frame \in Frame : Enqueue(frame)
    \/ \E i \in DOMAIN queues : Pop(i)

Spec == Init /\ [][Next]_rrVars

-----------------------------------------------------------------------------

TypeOK ==
    /\ SchedTypeOK
    /\ overtook \in Seq(SUBSET Nat)
    /\ Len(overtook) = Len(bulk_order)

\* Round robin: while a Bulk queue waits, no other Bulk queue gets a second
\* turn, even though queues created in between change the modulus of the
\* search. This is what "one frame at a time, round-robin across channels"
\* promises a channel.
RoundRobinFair ==
    [][\A p, q \in DOMAIN bulk_order :
          p # q /\ Pending(bulk_order[p]) /\ q \in overtook[p]
             => ~Pop(bulk_order[q])]_rrVars

\* The scheduler is sound in every state: its queues have their shape, the
\* places it keeps in its vectors, which the code uses unchecked, exist, and
\* pop_next answers None only when nothing is queued.
SchedulerSafe == TypeOK /\ IndicesInRange /\ NoFrameStuck
=============================================================================
