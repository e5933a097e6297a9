--------------------------- MODULE SchedulerProofs ---------------------------
(***************************************************************************)
(* What enqueue and pop_next do to the scheduler, for any set of channels: *)
(* the facts the modules that use the scheduler rest their proofs on.      *)
(* The order of the round-robin search is stated by comparing places with  *)
(* the cursor, so that only the first few lemmas reason about the modulus. *)
(***************************************************************************)
EXTENDS Scheduler, Integers, WellFoundedInduction, SequenceTheorems, TLAPS

\* In a search that starts at cursor n, place q is reached after place p.
Later(n, q, p) ==
    \/ p > n /\ q <= n
    \/ p > n /\ q > n /\ q > p
    \/ p <= n /\ q <= n /\ q > p

After(q, p) == Later(next_bulk_channel, q, p)

-----------------------------------------------------------------------------
\* FirstOf picks the least element, which is what iterating in order finds.
LEMMA FirstOfIsLeast ==
    ASSUME NEW S, S \subseteq Nat, S # {}
    PROVE  /\ FirstOf(S) \in S
           /\ \A j \in S : FirstOf(S) <= j
<1>1. \E x \in S : \A y \in S : ~(<<y, x>> \in OpToRel(<, Nat))
  BY NatLessThanWellFounded, WFMin, Zenon
<1>2. PICK x \in S : \A y \in S : ~(<<y, x>> \in OpToRel(<, Nat))
  BY <1>1
<1>3. \A y \in S : ~(y < x)
  BY <1>2 DEF OpToRel
<1>4. \A y \in S : x <= y
  BY <1>3
<1>5. QED
  BY <1>4 DEF FirstOf

\* The remainder on the two rounds a search can span.
LEMMA RemainderFirstRound ==
    ASSUME NEW n \in Nat, NEW x \in Nat, x < n
    PROVE  x % n = x
BY Z3

LEMMA RemainderSecondRound ==
    ASSUME NEW n \in Nat, NEW x \in Nat, n <= x, x < n + n
    PROVE  x % n = x - n
BY Z3

LEMMA RemainderBothRounds ==
    ASSUME NEW n \in Nat, NEW x \in Nat, x < n + n
    PROVE  x % n = IF x < n THEN x ELSE x - n
<1>1. CASE x < n
  BY <1>1, RemainderFirstRound
<1>2. CASE n <= x
  <2>1. x % n = x - n
    BY <1>2, RemainderSecondRound
  <2>2. ~(x < n)
    BY <1>2
  <2>3. QED
    BY <2>1, <2>2, Zenon
<1>3. QED
  BY <1>1, <1>2

\* The cursor after a turn of the queue at place q.
LEMMA CursorMoves ==
    ASSUME NEW L \in Nat, NEW n \in Nat, NEW o \in 0 .. L - 1,
           n = 0 \/ n < L,
           NEW q \in 1 .. L,
           q = IF n + o < L THEN n + o + 1 ELSE n + o + 1 - L,
           NEW r \in Int,
           r = IF n + o + 1 < L THEN n + o + 1 ELSE n + o + 1 - L
    PROVE  r = IF q = L THEN 0 ELSE q
OBVIOUS

\* Where the search is after some places, without the modulus.
LEMMA PlaceOfOffset ==
    ASSUME SchedTypeOK, IndicesInRange,
           NEW offset \in 0 .. Len(bulk_order) - 1
    PROVE  BulkPlace(offset) =
               IF next_bulk_channel + offset < Len(bulk_order)
               THEN next_bulk_channel + offset + 1
               ELSE next_bulk_channel + offset + 1 - Len(bulk_order)
<1> DEFINE L == Len(bulk_order)
           x == next_bulk_channel + offset
<1>1. L \in Nat /\ x \in Nat /\ x < L + L
  BY DEF SchedTypeOK, IndicesInRange
<1>2. CASE x < L
  BY <1>1, <1>2, RemainderFirstRound DEF BulkPlace
<1>3. CASE L <= x
  <2>1. x % L = x - L
    BY <1>1, <1>3, RemainderSecondRound
  <2>2. QED
    BY <1>1, <1>3, <2>1 DEF BulkPlace
<1>4. QED
  BY <1>1, <1>2, <1>3

\* The search reaches every place.
LEMMA OffsetOfPlace ==
    ASSUME SchedTypeOK, IndicesInRange, NEW p \in DOMAIN bulk_order
    PROVE  \E offset \in 0 .. Len(bulk_order) - 1 :
               /\ BulkPlace(offset) = p
               /\ offset = IF p > next_bulk_channel
                           THEN p - 1 - next_bulk_channel
                           ELSE p - 1 - next_bulk_channel + Len(bulk_order)
<1> DEFINE o == IF p > next_bulk_channel
                THEN p - 1 - next_bulk_channel
                ELSE p - 1 - next_bulk_channel + Len(bulk_order)
<1>1. /\ p \in 1 .. Len(bulk_order)
      /\ Len(bulk_order) \in Nat
      /\ next_bulk_channel \in Nat
      /\ next_bulk_channel = 0 \/ next_bulk_channel < Len(bulk_order)
  BY DEF SchedTypeOK, IndicesInRange
<1>2. o \in 0 .. Len(bulk_order) - 1
  BY <1>1
<1>3. BulkPlace(o) = p
  <2> HIDE DEF o
  <2>1. BulkPlace(o) = IF next_bulk_channel + o < Len(bulk_order)
                       THEN next_bulk_channel + o + 1
                       ELSE next_bulk_channel + o + 1 - Len(bulk_order)
    BY <1>2, PlaceOfOffset
  <2>2. QED
    BY <1>1, <2>1, SMTT(30) DEF o
<1>4. QED
  BY <1>2, <1>3

\* The Bulk queue that is served is the first waiting one in search order, and
\* the cursor moves just past it.
LEMMA ServedIsFirst ==
    ASSUME SchedTypeOK, IndicesInRange, BulkOffsets # {}
    PROVE  LET offset == FirstOf(BulkOffsets)
               q == BulkPlace(offset)
               L == Len(bulk_order)
           IN  /\ q \in DOMAIN bulk_order
               /\ Pending(bulk_order[q])
               /\ \A p \in DOMAIN bulk_order :
                     Pending(bulk_order[p]) /\ p # q => After(p, q)
               /\ (next_bulk_channel + offset + 1) % L = IF q = L THEN 0 ELSE q
<1> DEFINE offset == FirstOf(BulkOffsets)
           q == BulkPlace(offset)
           L == Len(bulk_order)
           n == next_bulk_channel
<1>1. /\ L \in Nat /\ n \in Nat
      /\ n = 0 \/ n < L
      /\ DOMAIN bulk_order = 1 .. L
  BY DEF SchedTypeOK, IndicesInRange
<1>2. BulkOffsets \subseteq Nat
  BY <1>1 DEF BulkOffsets
<1>3. offset \in BulkOffsets /\ \A o \in BulkOffsets : offset <= o
  BY <1>2, FirstOfIsLeast
<1>4. offset \in 0 .. L - 1 /\ Pending(bulk_order[q])
  BY <1>3 DEF BulkOffsets
<1>5. q = IF n + offset < L THEN n + offset + 1 ELSE n + offset + 1 - L
  BY <1>4, PlaceOfOffset
<1> HIDE DEF offset, q
<1>6. q \in 1 .. L
  BY <1>1, <1>4, <1>5
<1>7. ASSUME NEW p \in DOMAIN bulk_order, Pending(bulk_order[p]), p # q
      PROVE  After(p, q)
  <2>1. PICK o \in 0 .. L - 1 :
             /\ BulkPlace(o) = p
             /\ o = IF p > n THEN p - 1 - n ELSE p - 1 - n + L
    BY OffsetOfPlace
  <2>2. o \in BulkOffsets
    BY <1>7, <2>1 DEF BulkOffsets
  <2>3. offset <= o
    BY <1>3, <2>2
  <2>4. p \in 1 .. L
    BY <1>1
  <2>5. QED
    BY <1>1, <1>4, <1>5, <1>7, <2>1, <2>3, <2>4, SMTT(60) DEF After, Later
<1>8. (n + offset + 1) % L = IF q = L THEN 0 ELSE q
  <2> DEFINE x == n + offset + 1
             r == x % L
  <2>1. x \in Nat /\ x < L + L
    BY <1>1, <1>4
  <2>2. r = (IF x < L THEN x ELSE x - L) /\ r \in Int
    <3> HIDE DEF x
    <3>1. r = IF x < L THEN x ELSE x - L
      BY <1>1, <2>1, RemainderBothRounds
    <3> HIDE DEF r
    <3>2. QED
      BY <1>1, <2>1, <3>1
  <2> HIDE DEF r
  <2>3. r = IF q = L THEN 0 ELSE q
    <3> HIDE DEF L, n
    <3>1. L \in Nat /\ n \in Nat /\ offset \in 0 .. L - 1 /\ q \in 1 .. L
      BY <1>1, <1>4, <1>6
    <3>2. n = 0 \/ n < L
      BY <1>1
    <3>3. QED
      BY <1>5, <2>2, <3>1, <3>2, CursorMoves
  <2>4. QED
    BY <2>3, Zenon DEF r
<1>9. QED
  BY <1>1, <1>4, <1>6, <1>7, <1>8 DEF q, offset

-----------------------------------------------------------------------------
\* A frame for an existing queue changes only what that queue holds.
LEMMA AppendToEffect ==
    ASSUME SchedTypeOK, IndicesInRange, NEW frame \in Frame, AppendTo(frame)
    PROVE  /\ SchedTypeOK' /\ IndicesInRange'
           /\ bulk_order' = bulk_order /\ next_bulk_channel' = next_bulk_channel
           /\ DOMAIN queues' = DOMAIN queues
           /\ \A j \in DOMAIN queues : Pending(j) => Pending(j)'
<1> DEFINE i == FirstOf(QueuesOf(frame))
           q == [queues[i] EXCEPT !.pending = Append(@, frame.bytes)]
<1>1. i \in DOMAIN queues
  <2>1. QueuesOf(frame) \subseteq Nat
    BY DEF QueuesOf, SchedTypeOK
  <2>2. QED
    BY <2>1, FirstOfIsLeast DEF AppendTo, QueuesOf
<1>2. /\ q \in ChannelQueue
      /\ q.key = queues[i].key
      /\ q.priority = queues[i].priority
      /\ q.pending # <<>>
  <2>1. queues[i] \in ChannelQueue
    BY <1>1 DEF SchedTypeOK
  <2>2. /\ Append(queues[i].pending, frame.bytes) \in Seq(Bytes)
        /\ Append(queues[i].pending, frame.bytes) # <<>>
    BY <2>1, AppendProperties DEF ChannelQueue, Frame
  <2>3. QED
    BY <2>1, <2>2 DEF ChannelQueue
<1>3. queues' = [queues EXCEPT ![i] = q]
  BY DEF AppendTo
<1> HIDE DEF i, q
<1>4. /\ queues' \in Seq(ChannelQueue)
      /\ DOMAIN queues' = DOMAIN queues
      /\ \A j \in DOMAIN queues :
            /\ queues'[j].key = queues[j].key
            /\ queues'[j].priority = queues[j].priority
            /\ Pending(j) => Pending(j)'
  <2>1. queues \in Seq(ChannelQueue) /\ i \in 1 .. Len(queues)
    BY <1>1 DEF SchedTypeOK
  <2>2. /\ queues' \in Seq(ChannelQueue)
        /\ Len(queues') = Len(queues)
        /\ \A j \in 1 .. Len(queues) :
              queues'[j] = IF j = i THEN q ELSE queues[j]
    BY <1>2, <1>3, <2>1, ExceptSeq
  <2>3. DOMAIN queues = 1 .. Len(queues) /\ DOMAIN queues' = 1 .. Len(queues)
    BY <2>1, <2>2
  <2>4. ASSUME NEW j \in DOMAIN queues
        PROVE  /\ queues'[j].key = queues[j].key
               /\ queues'[j].priority = queues[j].priority
               /\ Pending(j) => Pending(j)'
    BY <1>2, <2>2, <2>3, Zenon DEF Pending
  <2>5. QED
    BY <2>2, <2>3, <2>4
<1>5. UNCHANGED <<bulk_order, next_bulk_channel>>
  BY DEF AppendTo
<1>6. SchedTypeOK'
  BY <1>4, <1>5 DEF SchedTypeOK
<1>7. IndicesInRange'
  BY <1>4, <1>5 DEF IndicesInRange, SchedTypeOK
<1>8. QED
  BY <1>4, <1>5, <1>6, <1>7

\* A new queue goes to the end of both lists, behind every place in use.
LEMMA OpenQueueEffect ==
    ASSUME SchedTypeOK, IndicesInRange, NEW frame \in Frame, OpenQueue(frame)
    PROVE  /\ SchedTypeOK' /\ IndicesInRange'
           /\ next_bulk_channel' = next_bulk_channel
           /\ \A j \in DOMAIN queues : Pending(j)' = Pending(j)
           /\ \/ bulk_order' = bulk_order
              \/ /\ Len(bulk_order') = Len(bulk_order) + 1
                 /\ \A p \in DOMAIN bulk_order :
                       bulk_order'[p] = bulk_order[p]
<1> DEFINE q == [key      |-> frame.channel,
                 priority |-> frame.priority,
                 pending  |-> <<frame.bytes>>]
           n == Len(queues)
           L == Len(bulk_order)
<1>1. q \in ChannelQueue
  BY DEF ChannelQueue, Frame
<1>2. /\ queues \in Seq(ChannelQueue) /\ n \in Nat /\ DOMAIN queues = 1 .. n
      /\ bulk_order \in Seq(Nat) /\ L \in Nat /\ DOMAIN bulk_order = 1 .. L
  BY DEF SchedTypeOK
<1>3. /\ queues' \in Seq(ChannelQueue)
      /\ DOMAIN queues' = 1 .. n + 1
      /\ \A j \in 1 .. n : queues'[j] = queues[j]
      /\ queues'[n + 1] = q
  <2>1. queues' = Append(queues, q)
    BY DEF OpenQueue
  <2> HIDE DEF q
  <2>2. QED
    BY <1>1, <1>2, <2>1, AppendProperties
<1>4. \A j \in 1 .. n : ~(/\ queues[j].key = frame.channel
                          /\ queues[j].priority = frame.priority)
  BY <1>2 DEF OpenQueue, QueuesOf
<1>5. next_bulk_channel' = next_bulk_channel /\ next_bulk_channel \in Nat
  BY DEF OpenQueue, SchedTypeOK
<1>6. \A j \in 1 .. n : Pending(j)' = Pending(j)
  BY <1>3 DEF Pending
<1>7. \A p \in 1 .. L : bulk_order[p] \in 1 .. n
  BY <1>2 DEF IndicesInRange
<1>8. q.key = frame.channel /\ q.priority = frame.priority
  OBVIOUS
<1>12. \A p \in 1 .. L : queues[bulk_order[p]].priority = "Bulk"
  BY <1>2 DEF IndicesInRange
<1>13. \A i \in 1 .. n : queues[i].priority = "Bulk" =>
          \E p \in 1 .. L : bulk_order[p] = i
  BY <1>2 DEF IndicesInRange
<1>14. \A p, r \in 1 .. L : p < r => bulk_order[p] < bulk_order[r]
  BY <1>2 DEF IndicesInRange
<1>15. next_bulk_channel = 0 \/ next_bulk_channel < L
  BY DEF IndicesInRange
<1>16. \A i, j \in 1 .. n : /\ queues[i].key = queues[j].key
                            /\ queues[i].priority = queues[j].priority
                            => i = j
  BY <1>2 DEF IndicesInRange
<1> HIDE DEF q, n, L
<1>9. CASE frame.priority = "Bulk"
  <2>1. bulk_order' = Append(bulk_order, n + 1)
    BY <1>9 DEF OpenQueue, n
  <2>2. /\ bulk_order' \in Seq(Nat)
        /\ Len(bulk_order') = L + 1
        /\ DOMAIN bulk_order' = 1 .. L + 1
        /\ \A p \in 1 .. L : bulk_order'[p] = bulk_order[p]
        /\ bulk_order'[L + 1] = n + 1
    <3>1. n + 1 \in Nat
      BY <1>2
    <3>2. /\ bulk_order' \in Seq(Nat)
          /\ Len(bulk_order') = L + 1
          /\ \A p \in 1 .. L : bulk_order'[p] = bulk_order[p]
          /\ bulk_order'[L + 1] = n + 1
      <4>1. /\ Append(bulk_order, n + 1) \in Seq(Nat)
            /\ Len(Append(bulk_order, n + 1)) = L + 1
            /\ \A p \in 1 .. L : Append(bulk_order, n + 1)[p] = bulk_order[p]
            /\ Append(bulk_order, n + 1)[L + 1] = n + 1
        <5>1. bulk_order \in Seq(Nat)
          BY <1>2
        <5>2. QED
          BY <3>1, <5>1, AppendProperties DEF L
      <4>2. QED
        BY <2>1, <4>1, Zenon
    <3>3. DOMAIN bulk_order' = 1 .. L + 1
      BY <3>2, LenProperties
    <3>4. QED
      BY <3>2, <3>3
  <2>5. SchedTypeOK'
    BY <1>3, <1>5, <2>2 DEF SchedTypeOK
  <2>6. IndicesInRange'
    <3>1. ASSUME NEW p \in 1 .. L + 1
          PROVE  /\ bulk_order'[p] \in 1 .. n + 1
                 /\ queues'[bulk_order'[p]].priority = "Bulk"
      BY <1>2, <1>3, <1>7, <1>8, <1>9, <1>12, <2>2
    <3>2. ASSUME NEW i \in 1 .. n + 1, queues'[i].priority = "Bulk"
          PROVE  \E p \in 1 .. L + 1 : bulk_order'[p] = i
      <4>1. CASE i \in 1 .. n
        <5>1. queues[i].priority = "Bulk"
          BY <1>3, <3>2, <4>1
        <5>2. PICK p \in 1 .. L : bulk_order[p] = i
          BY <1>13, <4>1, <5>1
        <5>3. p \in 1 .. L + 1 /\ bulk_order'[p] = i
          BY <1>2, <2>2, <5>2
        <5>4. QED
          BY <5>3
      <4>2. CASE i = n + 1
        BY <1>2, <2>2, <4>2
      <4>3. QED
        BY <1>2, <4>1, <4>2
    <3>3. ASSUME NEW p \in 1 .. L + 1, NEW r \in 1 .. L + 1, p < r
          PROVE  bulk_order'[p] < bulk_order'[r]
      <4>1. CASE r \in 1 .. L
        BY <1>2, <1>14, <2>2, <3>3, <4>1
      <4>2. CASE r = L + 1
        BY <1>2, <1>7, <2>2, <3>3, <4>2
      <4>3. QED
        BY <1>2, <4>1, <4>2
    <3>4. \/ next_bulk_channel' = 0
          \/ next_bulk_channel' < Len(bulk_order')
      BY <1>2, <1>5, <1>15, <2>2
    <3>5. ASSUME NEW i \in 1 .. n + 1, NEW j \in 1 .. n + 1,
                 queues'[i].key = queues'[j].key,
                 queues'[i].priority = queues'[j].priority
          PROVE  i = j
      <4>1. CASE i \in 1 .. n /\ j \in 1 .. n
        BY <1>3, <1>16, <3>5, <4>1
      <4>2. CASE i \in 1 .. n /\ j = n + 1
        BY <1>3, <1>4, <1>8, <3>5, <4>2
      <4>3. CASE i = n + 1 /\ j \in 1 .. n
        BY <1>3, <1>4, <1>8, <3>5, <4>3
      <4>4. QED
        BY <1>2, <4>1, <4>2, <4>3
    <3>6. QED
      BY <1>3, <2>2, <3>1, <3>2, <3>3, <3>4, <3>5 DEF IndicesInRange
  <2>7. QED
    BY <1>2, <1>5, <1>6, <2>2, <2>5, <2>6 DEF L
<1>10. CASE frame.priority # "Bulk"
  <2>1. bulk_order' = bulk_order
    BY <1>10 DEF OpenQueue
  <2>2. SchedTypeOK'
    BY <1>3, <1>5, <2>1 DEF SchedTypeOK
  <2>3. IndicesInRange'
    <3>1. ASSUME NEW p \in 1 .. L
          PROVE  /\ bulk_order[p] \in 1 .. n + 1
                 /\ queues'[bulk_order[p]].priority = "Bulk"
      BY <1>2, <1>3, <1>7, <1>12
    <3>2. ASSUME NEW i \in 1 .. n + 1, queues'[i].priority = "Bulk"
          PROVE  \E p \in 1 .. L : bulk_order[p] = i
      <4>1. i # n + 1
        BY <1>3, <1>8, <1>10, <3>2
      <4>2. i \in 1 .. n /\ queues[i].priority = "Bulk"
        BY <1>2, <1>3, <3>2, <4>1
      <4>3. QED
        BY <1>13, <4>2
    <3>3. ASSUME NEW i \in 1 .. n + 1, NEW j \in 1 .. n + 1,
                 queues'[i].key = queues'[j].key,
                 queues'[i].priority = queues'[j].priority
          PROVE  i = j
      <4>1. CASE i \in 1 .. n /\ j \in 1 .. n
        BY <1>3, <1>16, <3>3, <4>1
      <4>2. CASE i \in 1 .. n /\ j = n + 1
        BY <1>3, <1>4, <1>8, <3>3, <4>2
      <4>3. CASE i = n + 1 /\ j \in 1 .. n
        BY <1>3, <1>4, <1>8, <3>3, <4>3
      <4>4. QED
        BY <1>2, <4>1, <4>2, <4>3
    <3>4. QED
      BY <1>2, <1>3, <1>5, <1>14, <1>15, <2>1, <3>1, <3>2, <3>3
         DEF IndicesInRange, L
  <2>4. QED
    BY <1>2, <1>5, <1>6, <2>1, <2>2, <2>3
<1>11. QED
  BY <1>9, <1>10

\* Taking a frame changes only what one queue holds.
LEMMA PopFrontEffect ==
    ASSUME SchedTypeOK, NEW i \in DOMAIN queues, Pending(i), PopFront(i)
    PROVE  /\ queues' \in Seq(ChannelQueue)
           /\ DOMAIN queues' = DOMAIN queues
           /\ \A j \in DOMAIN queues :
                 /\ queues'[j].key = queues[j].key
                 /\ queues'[j].priority = queues[j].priority
                 /\ j # i => (Pending(j)' <=> Pending(j))
<1> DEFINE q == [queues[i] EXCEPT !.pending = Tail(@)]
<1>1. queues \in Seq(ChannelQueue) /\ i \in 1 .. Len(queues)
  BY DEF SchedTypeOK
<1>2. queues[i] \in ChannelQueue
  BY <1>1
<1>3. Tail(queues[i].pending) \in Seq(Bytes)
  BY <1>2, HeadTailProperties DEF ChannelQueue, Pending
<1>4. /\ q \in ChannelQueue
      /\ q.key = queues[i].key
      /\ q.priority = queues[i].priority
  BY <1>2, <1>3 DEF ChannelQueue
<1>5. queues' = [queues EXCEPT ![i] = q]
  BY DEF PopFront
<1> HIDE DEF q
<1>6. /\ queues' \in Seq(ChannelQueue)
      /\ Len(queues') = Len(queues)
      /\ \A j \in 1 .. Len(queues) :
            queues'[j] = IF j = i THEN q ELSE queues[j]
  BY <1>1, <1>4, <1>5, ExceptSeq
<1>7. DOMAIN queues = 1 .. Len(queues) /\ DOMAIN queues' = 1 .. Len(queues)
  BY <1>1, <1>6
<1>8. ASSUME NEW j \in DOMAIN queues
      PROVE  /\ queues'[j].key = queues[j].key
             /\ queues'[j].priority = queues[j].priority
             /\ j # i => (Pending(j)' <=> Pending(j))
  BY <1>4, <1>6, <1>7, Zenon DEF Pending
<1>9. QED
  BY <1>6, <1>7, <1>8

LEMMA PopLatencyEffect ==
    ASSUME SchedTypeOK, IndicesInRange, NEW i \in DOMAIN queues, PopLatency(i)
    PROVE  /\ SchedTypeOK' /\ IndicesInRange'
           /\ queues[i].priority = "Latency" /\ Pending(i)
           /\ UNCHANGED <<bulk_order, next_bulk_channel>>
           /\ DOMAIN queues' = DOMAIN queues
           /\ \A j \in DOMAIN queues : j # i => (Pending(j)' <=> Pending(j))
<1>1. Pending(i) /\ queues[i].priority = "Latency"
  <2>1. LatencyPending \subseteq Nat
    BY DEF LatencyPending, SchedTypeOK
  <2>2. QED
    BY <2>1, FirstOfIsLeast DEF PopLatency, LatencyPending
<1>2. /\ queues' \in Seq(ChannelQueue)
      /\ DOMAIN queues' = DOMAIN queues
      /\ \A j \in DOMAIN queues :
            /\ queues'[j].key = queues[j].key
            /\ queues'[j].priority = queues[j].priority
            /\ j # i => (Pending(j)' <=> Pending(j))
  BY <1>1, PopFrontEffect DEF PopLatency
<1>3. UNCHANGED <<bulk_order, next_bulk_channel>>
  BY DEF PopLatency
<1>4. SchedTypeOK'
  BY <1>2, <1>3 DEF SchedTypeOK
<1>5. IndicesInRange'
  BY <1>2, <1>3 DEF IndicesInRange, SchedTypeOK
<1>6. QED
  BY <1>1, <1>2, <1>3, <1>4, <1>5

\* The queue at place q is served: it is the first waiting one in the order
\* of the search, and the cursor moves past it.
LEMMA PopBulkEffect ==
    ASSUME SchedTypeOK, IndicesInRange, NEW i \in DOMAIN queues, PopBulk(i)
    PROVE  \E q \in 1 .. Len(bulk_order) :
              /\ SchedTypeOK' /\ IndicesInRange'
              /\ queues[i].priority = "Bulk" /\ Pending(i)
              /\ bulk_order' = bulk_order
              /\ DOMAIN queues' = DOMAIN queues
              /\ \A j \in DOMAIN queues : j # i => (Pending(j)' <=> Pending(j))
              /\ \A p \in 1 .. Len(bulk_order) : bulk_order[p] = i <=> p = q
              /\ \A p \in 1 .. Len(bulk_order) :
                    Pending(bulk_order[p]) /\ p # q => After(p, q)
              /\ \/ q = Len(bulk_order) /\ next_bulk_channel' = 0
                 \/ q # Len(bulk_order) /\ next_bulk_channel' = q
<1> DEFINE L == Len(bulk_order)
           n == next_bulk_channel
           q == BulkPlace(FirstOf(BulkOffsets))
<1>1. /\ DOMAIN bulk_order = 1 .. L /\ L \in Nat
      /\ n \in Nat /\ (n = 0 \/ n < L)
  BY DEF SchedTypeOK, IndicesInRange
<1>2. /\ q \in 1 .. L
      /\ i = bulk_order[q]
      /\ Pending(i)
      /\ \A p \in 1 .. L : Pending(bulk_order[p]) /\ p # q => After(p, q)
      /\ n' = IF q = L THEN 0 ELSE q
  BY <1>1, ServedIsFirst DEF PopBulk
<1>3. bulk_order' = bulk_order
  BY DEF PopBulk
<1>4. \A p \in 1 .. L : /\ bulk_order[p] \in DOMAIN queues
                        /\ queues[bulk_order[p]].priority = "Bulk"
  BY <1>1 DEF IndicesInRange
<1>5. q \in 1 .. L
  BY <1>2
<1>6. (q = L /\ n' = 0) \/ (q # L /\ n' = q)
  BY <1>2, Zenon
<1> HIDE DEF q, L, n
<1>7. ASSUME NEW p \in 1 .. L
      PROVE  bulk_order[p] = i <=> p = q
  <2>1. \A r, t \in 1 .. L : r < t => bulk_order[r] < bulk_order[t]
    BY <1>1 DEF IndicesInRange
  <2>2. \A r \in 1 .. L : bulk_order[r] \in Nat
    BY <1>1 DEF SchedTypeOK
  <2>3. CASE bulk_order[p] = i
    <3>1. ~(p < q) /\ ~(q < p)
      BY <1>2, <2>1, <2>2, <2>3
    <3>2. QED
      BY <1>1, <1>5, <2>3, <3>1
  <2>4. CASE p = q
    BY <1>2, <2>4
  <2>5. QED
    BY <2>3, <2>4
<1>8. /\ queues' \in Seq(ChannelQueue)
      /\ DOMAIN queues' = DOMAIN queues
      /\ \A j \in DOMAIN queues :
            /\ queues'[j].key = queues[j].key
            /\ queues'[j].priority = queues[j].priority
            /\ j # i => (Pending(j)' <=> Pending(j))
  BY <1>2, PopFrontEffect DEF PopBulk
<1>9. SchedTypeOK'
  <2>1. n' \in Nat
    BY <1>1, <1>5, <1>6
  <2>2. QED
    BY <1>3, <1>8, <2>1 DEF SchedTypeOK, n
<1>10. IndicesInRange'
  <2>1. n' = 0 \/ n' < L
    BY <1>1, <1>5, <1>6
  <2>2. QED
    BY <1>3, <1>8, <2>1 DEF IndicesInRange, SchedTypeOK, n, L
<1>11. queues[i].priority = "Bulk"
  BY <1>2, <1>4
<1>12. QED
  <2>1. \A p \in 1 .. L : bulk_order[p] = i <=> p = q
    BY <1>7
  <2>2. \A j \in DOMAIN queues : j # i => (Pending(j)' <=> Pending(j))
    BY <1>8
  <2>3. QED
    BY <1>2, <1>3, <1>6, <1>8, <1>9, <1>10, <1>11, <2>1, <2>2, Zenon DEF n, L

\* When pop_next finds nothing, nothing is queued.
LEMMA NoneMeansEmpty ==
    ASSUME SchedTypeOK, IndicesInRange
    PROVE  NoFrameStuck
<1> SUFFICES ASSUME PopNone, NEW i \in DOMAIN queues, Pending(i)
             PROVE  FALSE
  BY DEF NoFrameStuck, has_pending
<1>1. queues[i].priority \in Priority
  <2>1. queues[i] \in ChannelQueue
    BY DEF SchedTypeOK
  <2>2. QED
    BY <2>1 DEF ChannelQueue
<1>2. CASE queues[i].priority = "Latency"
  BY <1>2 DEF PopNone, LatencyPending
<1>3. CASE queues[i].priority = "Bulk"
  <2>1. PICK p \in DOMAIN bulk_order : bulk_order[p] = i
    BY <1>3 DEF IndicesInRange
  <2>2. PICK offset \in 0 .. Len(bulk_order) - 1 : BulkPlace(offset) = p
    BY OffsetOfPlace
  <2>3. offset \in BulkOffsets
    BY <2>1, <2>2 DEF BulkOffsets
  <2>4. QED
    BY <2>3 DEF PopNone
<1>4. QED
  BY <1>1, <1>2, <1>3 DEF Priority
=============================================================================
