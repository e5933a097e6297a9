-------------------------- MODULE RoundRobinProofs --------------------------
(***************************************************************************)
(* The scheduler's index invariants and its round-robin promise, for any   *)
(* set of channels.                                                        *)
(*                                                                         *)
(* Overtakers is the strengthening the promise needs: a queue that had a   *)
(* turn while p was waiting now comes after p in the order of the search.  *)
(* The order is stated by comparing places with the cursor, so that no     *)
(* step of the main argument has to reason about the modulus.              *)
(***************************************************************************)
EXTENDS RoundRobin, SchedulerProofs

Overtakers ==
    \A p \in DOMAIN overtook : \A q \in overtook[p] :
        /\ q \in DOMAIN bulk_order
        /\ Pending(bulk_order[p])
        /\ After(q, p)

IInv == TypeOK /\ IndicesInRange /\ Overtakers

LEMMA EnqueueKeeps ==
    ASSUME IInv, NEW frame \in Frame, Enqueue(frame)
    PROVE  IInv'
<1> DEFINE L == Len(bulk_order)
<1>1. SchedTypeOK /\ IndicesInRange /\ Overtakers
  BY DEF IInv, TypeOK
<1>2. /\ bulk_order \in Seq(Nat) /\ L \in Nat
      /\ DOMAIN bulk_order = 1 .. L
      /\ overtook \in Seq(SUBSET Nat) /\ DOMAIN overtook = 1 .. L
      /\ Len(overtook) = L
  BY <1>1 DEF SchedTypeOK, IInv, TypeOK
<1>3. /\ SchedTypeOK' /\ IndicesInRange'
      /\ next_bulk_channel' = next_bulk_channel
      /\ \A j \in DOMAIN queues : Pending(j) => Pending(j)'
      /\ \/ bulk_order' = bulk_order
         \/ /\ Len(bulk_order') = L + 1
            /\ \A p \in 1 .. L : bulk_order'[p] = bulk_order[p]
  <2>1. AppendTo(frame) \/ OpenQueue(frame)
    BY DEF Enqueue, enqueue
  <2>2. QED
    BY <1>1, <1>2, <2>1, AppendToEffect, OpenQueueEffect
<1>4. \A p \in 1 .. L : bulk_order'[p] = bulk_order[p]
  BY <1>3
<1>5. bulk_order' \in Seq(Nat)
  BY <1>3 DEF SchedTypeOK
<1>6. \/ Len(bulk_order') = L /\ overtook' = overtook
      \/ Len(bulk_order') = L + 1 /\ overtook' = Append(overtook, {})
  BY <1>2, <1>3 DEF Enqueue
<1> HIDE DEF L
<1>7. /\ overtook' \in Seq(SUBSET Nat) /\ Len(overtook') = Len(bulk_order')
      /\ \A p \in DOMAIN overtook' : \A q \in overtook'[p] :
            p \in 1 .. L /\ q \in overtook[p]
  <2>1. CASE Len(bulk_order') = L /\ overtook' = overtook
    BY <1>2, <2>1
  <2>2. CASE Len(bulk_order') = L + 1 /\ overtook' = Append(overtook, {})
    <3>1. /\ overtook' \in Seq(SUBSET Nat)
          /\ Len(overtook') = L + 1
          /\ \A p \in 1 .. L : overtook'[p] = overtook[p]
          /\ overtook'[L + 1] = {}
      BY <1>2, <2>2, AppendProperties, {} \in SUBSET Nat
    <3>2. \A p \in DOMAIN overtook' : p \in 1 .. L \/ p = L + 1
      BY <1>2, <3>1
    <3>3. QED
      BY <2>2, <3>1, <3>2
  <2>3. QED
    BY <1>6, <2>1, <2>2
<1>8. ASSUME NEW p \in DOMAIN overtook', NEW q \in overtook'[p]
      PROVE  /\ q \in DOMAIN bulk_order'
             /\ Pending(bulk_order[p])'
             /\ After(q, p)'
  <2>1. p \in 1 .. L /\ q \in overtook[p]
    BY <1>7
  <2>2. q \in 1 .. L /\ Pending(bulk_order[p]) /\ After(q, p)
    BY <1>1, <1>2, <2>1 DEF Overtakers
  <2>3. bulk_order[p] \in DOMAIN queues
    BY <1>1, <1>2, <2>1 DEF IndicesInRange
  <2>4. q \in DOMAIN bulk_order'
    BY <1>2, <1>5, <1>6, <2>2
  <2>5. Pending(bulk_order[p])'
    BY <1>3, <1>4, <2>1, <2>2, <2>3 DEF Pending
  <2>6. After(q, p)'
    BY <1>3, <2>2 DEF After
  <2>7. QED
    BY <2>4, <2>5, <2>6
<1>9. Overtakers'
  BY <1>8 DEF Overtakers
<1>10. QED
  BY <1>3, <1>7, <1>9 DEF IInv, TypeOK

LEMMA PopLatencyKeeps ==
    ASSUME IInv, NEW i \in DOMAIN queues, PopLatency(i), Pop(i)
    PROVE  IInv'
<1>1. SchedTypeOK /\ IndicesInRange /\ Overtakers
  BY DEF IInv, TypeOK
<1>2. /\ SchedTypeOK' /\ IndicesInRange'
      /\ queues[i].priority = "Latency"
      /\ UNCHANGED <<bulk_order, next_bulk_channel>>
      /\ \A j \in DOMAIN queues : j # i => (Pending(j)' <=> Pending(j))
  BY <1>1, PopLatencyEffect
<1>3. overtook' = overtook
  <2>1. overtook' = [p \in DOMAIN overtook |-> overtook[p]]
    BY <1>2 DEF Pop
  <2>2. QED
    BY <2>1 DEF IInv, TypeOK
<1>4. ASSUME NEW p \in DOMAIN overtook, NEW r \in overtook[p]
      PROVE  /\ r \in DOMAIN bulk_order
             /\ Pending(bulk_order[p])'
             /\ After(r, p)'
  <2>1. p \in DOMAIN bulk_order
    BY <1>1 DEF IInv, TypeOK, SchedTypeOK
  <2>2. r \in DOMAIN bulk_order /\ After(r, p) /\ Pending(bulk_order[p])
    BY <1>1 DEF Overtakers
  <2>3. /\ bulk_order[p] \in DOMAIN queues
        /\ queues[bulk_order[p]].priority = "Bulk"
    BY <1>1, <2>1 DEF IndicesInRange
  <2>4. bulk_order[p] # i
    BY <1>2, <2>3
  <2>5. QED
    BY <1>2, <2>2, <2>3, <2>4 DEF After, Pending
<1>5. Overtakers'
  BY <1>2, <1>3, <1>4 DEF Overtakers
<1>6. QED
  BY <1>2, <1>3, <1>5 DEF IInv, TypeOK

LEMMA PopBulkKeeps ==
    ASSUME IInv, NEW i \in DOMAIN queues, PopBulk(i), Pop(i)
    PROVE  /\ IInv'
           /\ \A p, q \in DOMAIN bulk_order :
                 /\ bulk_order[q] = i
                 /\ p # q
                 /\ Pending(bulk_order[p])
                 => q \notin overtook[p]
<1> DEFINE L == Len(bulk_order)
           n == next_bulk_channel
<1>1. SchedTypeOK /\ IndicesInRange /\ Overtakers
  BY DEF IInv, TypeOK
<1>2. /\ DOMAIN bulk_order = 1 .. L /\ L \in Nat
      /\ DOMAIN overtook = 1 .. L /\ overtook \in Seq(SUBSET Nat)
      /\ n \in Nat /\ (n = 0 \/ n < L)
  BY <1>1 DEF IInv, TypeOK, SchedTypeOK, IndicesInRange
<1>3. PICK q \in 1 .. L :
        /\ SchedTypeOK' /\ IndicesInRange'
        /\ queues[i].priority = "Bulk" /\ Pending(i)
        /\ bulk_order' = bulk_order
        /\ DOMAIN queues' = DOMAIN queues
        /\ \A j \in DOMAIN queues : j # i => (Pending(j)' <=> Pending(j))
        /\ \A p \in 1 .. L : bulk_order[p] = i <=> p = q
        /\ \A p \in 1 .. L : Pending(bulk_order[p]) /\ p # q => After(p, q)
        /\ (q = L /\ n' = 0) \/ (q # L /\ n' = q)
  BY <1>1, PopBulkEffect
<1>4. \A p \in 1 .. L : bulk_order[p] \in DOMAIN queues
  BY <1>1, <1>2 DEF IndicesInRange
<1>5. (q = L /\ n' = 0) \/ (q # L /\ n' = q)
  BY <1>3
<1>6. q \in 1 .. L
  OBVIOUS
<1> HIDE DEF L, n
<1>7. overtook' = [p \in 1 .. L |->
                      IF p = q \/ ~Pending(bulk_order[p]) THEN {}
                      ELSE overtook[p] \cup {q}]
  <2>1. queues[i].priority # "Latency"
    BY <1>3
  <2>2. \A p \in 1 .. L : bulk_order[p] = i <=> p = q
    BY <1>3
  <2>3. {r \in DOMAIN bulk_order : bulk_order[r] = i} = {q}
    BY <1>2, <2>2
  <2>4. QED
    BY <1>2, <2>1, <2>2, <2>3 DEF Pop
<1>8. ASSUME NEW p \in 1 .. L, Pending(bulk_order[p]), p # q
      PROVE  /\ Later(n', q, p)
             /\ q \notin overtook[p]
             /\ \A r \in overtook[p] : r \in 1 .. L /\ Later(n', r, p)
  <2>0. p \in 1 .. L
    OBVIOUS
  <2>1. Later(n, p, q)
    BY <1>3, <1>8 DEF After, n
  <2>2. \A r \in overtook[p] : r \in 1 .. L /\ Later(n, r, p)
    BY <1>1, <1>2 DEF Overtakers, After, n
  <2>3. /\ Later(n', q, p)
        /\ ~Later(n, q, p)
        /\ \A r \in 1 .. L : Later(n, r, p) => Later(n', r, p)
    <3>1. L \in Nat /\ n \in Nat
      BY <1>2
    <3>2. n = 0 \/ n < L
      BY <1>2
    <3> DEFINE m == n'
    <3>3. (q = L /\ m = 0) \/ (q # L /\ m = q)
      BY <1>5
    <3> HIDE DEF m
    <3>4. /\ Later(m, q, p)
          /\ ~Later(n, q, p)
          /\ \A r \in 1 .. L : Later(n, r, p) => Later(m, r, p)
      BY <1>6, <2>0, <2>1, <3>1, <3>2, <3>3 DEF Later
    <3>5. QED
      BY <3>4 DEF m
  <2>4. QED
    BY <2>2, <2>3
<1>9. TypeOK'
  <2>1. overtook' \in [1 .. L -> SUBSET Nat]
    BY <1>2, <1>7
  <2>2. overtook' \in Seq(SUBSET Nat) /\ Len(overtook') = L
    BY <1>2, <2>1
  <2>3. QED
    BY <1>3, <2>2 DEF TypeOK, L
<1>10. Overtakers'
  <2>1. ASSUME NEW p \in 1 .. L, NEW r \in overtook'[p]
        PROVE  /\ r \in 1 .. L
               /\ Pending(bulk_order[p])'
               /\ After(r, p)'
    <3>1. p # q /\ Pending(bulk_order[p]) /\ r \in overtook[p] \cup {q}
      BY <1>7
    <3>2. r \in 1 .. L /\ Later(n', r, p)
      BY <1>3, <1>8, <3>1
    <3>3. bulk_order[p] # i /\ bulk_order[p] \in DOMAIN queues
      BY <1>3, <1>4, <3>1
    <3>4. Pending(bulk_order[p])'
      BY <1>3, <3>1, <3>3 DEF Pending
    <3>5. QED
      BY <3>2, <3>4 DEF After, n
  <2>2. QED
    BY <1>2, <1>3, <1>7, <2>1 DEF Overtakers
<1>11. IInv'
  BY <1>3, <1>9, <1>10 DEF IInv
<1>12. QED
  BY <1>2, <1>3, <1>8, <1>11

-----------------------------------------------------------------------------
\* IInv is inductive.
LEMMA InitIInv == Init => IInv
BY DEF Init, SchedInit, IInv, TypeOK, SchedTypeOK, IndicesInRange, Overtakers

LEMMA NextIInv == IInv /\ [Next]_rrVars => IInv'
<1> SUFFICES ASSUME IInv, [Next]_rrVars
             PROVE  IInv'
  OBVIOUS
<1>1. ASSUME NEW frame \in Frame, Enqueue(frame)
      PROVE  IInv'
  BY <1>1, EnqueueKeeps
<1>2. ASSUME NEW i \in DOMAIN queues, Pop(i)
      PROVE  IInv'
  BY <1>2, PopLatencyKeeps, PopBulkKeeps DEF Pop, pop_next
<1>3. CASE UNCHANGED rrVars
  BY <1>3 DEF rrVars, IInv, TypeOK, SchedTypeOK, IndicesInRange, Overtakers, Pending, After
<1>4. QED
  BY <1>1, <1>2, <1>3 DEF Next

THEOREM Invariance == Spec => []IInv
<1>1. QED
  BY InitIInv, NextIInv, PTL DEF Spec

\* The state of the scheduler is well typed.
THEOREM TypeCorrect == Spec => []TypeOK
<1>1. IInv => TypeOK
  BY DEF IInv
<1>2. QED
  BY Invariance, <1>1, PTL

\* queues[idx] and bulk_order[..] never index out of range in enqueue and
\* pop_next, whatever frames arrive and however often the writer calls.
THEOREM IndicesSafe == Spec => []IndicesInRange
<1>1. IInv => IndicesInRange
  BY DEF IInv
<1>2. QED
  BY Invariance, <1>1, PTL

\* pop_next returns None only when nothing is queued.
THEOREM NothingStuck == Spec => []NoFrameStuck
<1>1. IInv => NoFrameStuck
  BY NoneMeansEmpty DEF IInv, TypeOK
<1>2. QED
  BY Invariance, <1>1, PTL

\* The three together: the scheduler's shape, its indices and its None.
THEOREM SchedulerIsSafe == Spec => []SchedulerSafe
BY TypeCorrect, IndicesSafe, NothingStuck, PTL DEF SchedulerSafe

\* While a Bulk queue waits no other Bulk queue is served twice.
THEOREM Fairness == Spec => RoundRobinFair
<1> DEFINE Fair ==
        \A p, q \in DOMAIN bulk_order :
           p # q /\ Pending(bulk_order[p]) /\ q \in overtook[p]
              => ~Pop(bulk_order[q])
<1>1. IInv /\ [Next]_rrVars => [Fair]_rrVars
  <2> SUFFICES ASSUME IInv, NEW p \in DOMAIN bulk_order,
                      NEW q \in DOMAIN bulk_order,
                      p # q, Pending(bulk_order[p]), Pop(bulk_order[q])
               PROVE  q \notin overtook[p]
    OBVIOUS
  <2> DEFINE i == bulk_order[q]
  <2>0. i \in DOMAIN queues /\ queues[i].priority = "Bulk"
    BY DEF IInv, IndicesInRange
  <2>1. ~PopLatency(i)
    <3>1. LatencyPending \subseteq Nat
      BY DEF IInv, TypeOK, SchedTypeOK, LatencyPending
    <3>2. QED
      BY <2>0, <3>1, FirstOfIsLeast DEF PopLatency, LatencyPending
  <2>2. PopBulk(i)
    BY <2>1 DEF Pop, pop_next
  <2>3. QED
    BY <2>0, <2>2, PopBulkKeeps
<1>2. QED
  BY Invariance, <1>1, PTL DEF Spec, RoundRobinFair

=============================================================================
