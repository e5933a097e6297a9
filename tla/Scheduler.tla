----------------------------- MODULE Scheduler -----------------------------
(***************************************************************************)
(* The write scheduler of one connection                                   *)
(* (crates/rdpcore-transport/src/scheduler.rs): one FIFO per pair of a     *)
(* channel and a priority, created on first use; Latency queues drain      *)
(* first, Bulk queues are served one frame at a time, round robin.         *)
(*                                                                         *)
(* Queue numbers are 1-based; next_bulk_channel keeps the code's 0-based   *)
(* value, because it is computed modulo the number of Bulk queues.         *)
(***************************************************************************)
EXTENDS Naturals, Sequences

CONSTANTS
    Channel,    \* ChannelKey: the I/O channel and the static channels in use
    Bytes       \* the wire bytes of a frame, as identities

VARIABLES
    queues,             \* the queues in order of creation
    bulk_order,         \* the numbers of the Bulk queues, in order of creation
    next_bulk_channel   \* where the next round-robin search starts

schedVars == <<queues, bulk_order, next_bulk_channel>>

Priority == {"Latency", "Bulk"}

Frame == [channel : Channel, priority : Priority, bytes : Bytes]

ChannelQueue == [key : Channel, priority : Priority, pending : Seq(Bytes)]

SchedInit ==
    /\ queues = <<>>
    /\ bulk_order = <<>>
    /\ next_bulk_channel = 0

-----------------------------------------------------------------------------

\* Mistake: one queue per channel, shared by the two priorities.
QueuesOfChannel(frame) ==
    {i \in DOMAIN queues : queues[i].key = frame.channel}

\* The queue numbers a frame may be appended to: the queues of its pair.
QueuesOf(frame) ==
    {i \in DOMAIN queues : /\ queues[i].key = frame.channel
                           /\ queues[i].priority = frame.priority}

FirstOf(S) == CHOOSE i \in S : \A j \in S : i <= j

AppendTo(frame) ==
    /\ QueuesOf(frame) # {}
    /\ LET i == FirstOf(QueuesOf(frame))
       IN  queues' = [queues EXCEPT ![i].pending = Append(@, frame.bytes)]
    /\ UNCHANGED <<bulk_order, next_bulk_channel>>

OpenQueue(frame) ==
    /\ QueuesOf(frame) = {}
    /\ queues' = Append(queues, [key      |-> frame.channel,
                                 priority |-> frame.priority,
                                 pending  |-> <<frame.bytes>>])
    /\ bulk_order' = IF frame.priority = "Bulk"
                     THEN Append(bulk_order, Len(queues) + 1)
                     ELSE bulk_order
    /\ UNCHANGED next_bulk_channel

enqueue(frame) == AppendTo(frame) \/ OpenQueue(frame)

-----------------------------------------------------------------------------

Pending(i) == queues[i].pending # <<>>

has_pending == \E i \in DOMAIN queues : Pending(i)

LatencyPending ==
    {i \in DOMAIN queues : queues[i].priority = "Latency" /\ Pending(i)}

\* The place in bulk_order that the search reaches after `offset' places.
BulkPlace(offset) == 1 + ((next_bulk_channel + offset) % Len(bulk_order))

\* Mistake: the search stops one place short of a whole round.
BulkOffsetsShort ==
    {offset \in 0 .. Len(bulk_order) - 2 :
        Pending(bulk_order[BulkPlace(offset)])}

BulkOffsets ==
    {offset \in 0 .. Len(bulk_order) - 1 :
        Pending(bulk_order[BulkPlace(offset)])}

PopFront(i) ==
    queues' = [queues EXCEPT ![i].pending = Tail(@)]

\* pop_next returns `bytes' from queue number i.
PopLatency(i) ==
    /\ LatencyPending # {}
    /\ i = FirstOf(LatencyPending)
    /\ PopFront(i)
    /\ UNCHANGED <<bulk_order, next_bulk_channel>>

\* Mistake: the cursor moves to the queue just served, not past it.
PopBulkStay(i) ==
    /\ LatencyPending = {}
    /\ BulkOffsets # {}
    /\ LET offset == FirstOf(BulkOffsets)
       IN  /\ i = bulk_order[BulkPlace(offset)]
           /\ next_bulk_channel' =
                  (next_bulk_channel + offset) % Len(bulk_order)
    /\ PopFront(i)
    /\ UNCHANGED bulk_order

PopBulk(i) ==
    /\ LatencyPending = {}
    /\ BulkOffsets # {}
    /\ LET offset == FirstOf(BulkOffsets)
       IN  /\ i = bulk_order[BulkPlace(offset)]
           /\ next_bulk_channel' =
                  (next_bulk_channel + offset + 1) % Len(bulk_order)
    /\ PopFront(i)
    /\ UNCHANGED bulk_order

pop_next(i) == PopLatency(i) \/ PopBulk(i)

\* pop_next returns None and changes nothing.
PopNone == LatencyPending = {} /\ BulkOffsets = {}

-----------------------------------------------------------------------------
SchedTypeOK ==
    /\ queues \in Seq(ChannelQueue)
    /\ bulk_order \in Seq(Nat)
    /\ next_bulk_channel \in Nat

\* The indices that enqueue and pop_next use without a check are in range:
\* bulk_order lists each Bulk queue once, in order of creation, and nothing
\* else; the search starts inside it; no pair of a channel and a priority has
\* two queues, so position() finds the only one.
IndicesInRange ==
    /\ \A p \in DOMAIN bulk_order :
          /\ bulk_order[p] \in DOMAIN queues
          /\ queues[bulk_order[p]].priority = "Bulk"
    /\ \A i \in DOMAIN queues : queues[i].priority = "Bulk" =>
          \E p \in DOMAIN bulk_order : bulk_order[p] = i
    /\ \A p, q \in DOMAIN bulk_order : p < q => bulk_order[p] < bulk_order[q]
    /\ \/ next_bulk_channel = 0
       \/ next_bulk_channel < Len(bulk_order)
    /\ \A i, j \in DOMAIN queues :
          /\ queues[i].key = queues[j].key
          /\ queues[i].priority = queues[j].priority
          => i = j

\* pop_next never says None while a frame is queued: the search over offsets
\* reaches every Bulk queue wherever it starts, also after a queue was added.
NoFrameStuck == PopNone => ~has_pending
=============================================================================
