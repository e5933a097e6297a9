----------------------------- MODULE Transport -----------------------------
(***************************************************************************)
(* One connection's outgoing half (crates/rdpcore-transport/src/lib.rs):   *)
(* the FrameSender handles the producers hold, the two bounded inboxes,    *)
(* the latest-wins slot for live audio, and the ConnectionWriter task      *)
(* that owns the socket.                                                   *)
(*                                                                         *)
(* A send is one step, except send_live, which stores the wave under the   *)
(* slot's lock and notifies the writer afterwards: two steps. The writer   *)
(* takes one step per loop head, per frame it moves from an inbox to the   *)
(* scheduler, per pop and per completed write, so that producers on other  *)
(* threads may run between any two of them.                                *)
(*                                                                         *)
(* Frames carry a serial number as their bytes. MaxFrames bounds them.     *)
(***************************************************************************)
EXTENDS Scheduler, Integers, FiniteSets

CONSTANTS
    Sender,             \* the handles: clones of FrameSender
    LATENCY_QUEUE_CAP,
    BULK_QUEUE_CAP,
    AudioChannel,       \* the channel whose waves go through the live slot
    MaxChunks,          \* bound: frames one wave is split into
    MaxFrames           \* bound: frames and waves handed over in a behaviour

ASSUME CapAssumption ==
    /\ LATENCY_QUEUE_CAP \in Nat \ {0}
    /\ BULK_QUEUE_CAP \in Nat \ {0}
    /\ MaxChunks \in Nat \ {0}
    /\ MaxFrames \in Nat
    /\ AudioChannel \in Channel
    /\ Bytes = 1 .. MaxFrames

VARIABLES
    latency, bulk,      \* the inboxes
    live,               \* the slot: the chunks of one wave, <<>> when empty
    live_notify,        \* the token in the channel of capacity one
    latency_open, bulk_open, live_open,
    pc,                 \* where ConnectionWriter::run is
    writing,            \* the frames of the write_all calls still to complete
    senders,            \* the handles not yet dropped
    notifying,          \* the handles between the two steps of send_live
    serial,             \* the number of frames and waves handed over so far
    late                \* how many frames, from the front of the latency
                        \* inbox, were there when a Bulk frame was popped

senderVars == <<senders, notifying, serial>>
openVars   == <<latency_open, bulk_open, live_open>>
vars == <<queues, bulk_order, next_bulk_channel, latency, bulk, live,
          live_notify, latency_open, bulk_open, live_open, pc, writing,
          senders, notifying, serial, late>>

Stopped == pc \in {"done", "failed"}

TransportInit ==
    /\ SchedInit
    /\ latency = <<>> /\ bulk = <<>>
    /\ live = <<>> /\ live_notify = 0
    /\ latency_open = TRUE /\ bulk_open = TRUE /\ live_open = TRUE
    /\ pc = "live"
    /\ writing = <<>>
    /\ senders = Sender
    /\ notifying = {}
    /\ serial = 0
    /\ late = 0

-----------------------------------------------------------------------------
\* FrameSender.

NewFrame(channel, priority) ==
    [channel |-> channel, priority |-> priority, bytes |-> serial + 1]

MayCall(s) ==
    /\ s \in senders \ notifying
    /\ serial < MaxFrames
    /\ serial' = serial + 1
    /\ UNCHANGED senders

HasRoom(priority) ==
    IF priority = "Latency" THEN Len(latency) < LATENCY_QUEUE_CAP
                            ELSE Len(bulk) < BULK_QUEUE_CAP

Push(frame) ==
    IF frame.priority = "Latency"
    THEN latency' = Append(latency, frame) /\ UNCHANGED bulk
    ELSE bulk' = Append(bulk, frame) /\ UNCHANGED latency

\* send: the frame comes back to the caller when the inbox is full or closed.
send(s, channel, priority) ==
    /\ MayCall(s)
    /\ IF HasRoom(priority) /\ ~Stopped
       THEN Push(NewFrame(channel, priority))
       ELSE UNCHANGED <<latency, bulk>>
    /\ UNCHANGED <<schedVars, live, live_notify, openVars, pc, writing,
                   notifying, late>>

\* send_all: the call completes once there is room, or the writer is gone.
send_all(s, channel, priority) ==
    /\ MayCall(s)
    /\ \/ /\ ~Stopped
          /\ HasRoom(priority)
          /\ Push(NewFrame(channel, priority))
       \/ Stopped /\ UNCHANGED <<latency, bulk>>
    /\ UNCHANGED <<schedVars, live, live_notify, openVars, pc, writing,
                   notifying, late>>

\* send_live, first step: the slot is overwritten, whatever was in it.
StoreLive(s, chunks) ==
    /\ MayCall(s)
    /\ live' = [c \in 1 .. chunks |-> NewFrame(AudioChannel, "Latency")]
    /\ notifying' = notifying \cup {s}
    /\ UNCHANGED <<schedVars, latency, bulk, live_notify, openVars, pc,
                   writing, late>>

\* send_live, second step: try_send of the token; Full is as good as Ok.
NotifyLive(s) ==
    /\ s \in notifying
    /\ notifying' = notifying \ {s}
    /\ live_notify' = IF Stopped THEN live_notify ELSE 1
    /\ UNCHANGED <<schedVars, latency, bulk, live, openVars, pc, writing,
                   senders, serial, late>>

DropSender(s) ==
    /\ s \in senders \ notifying
    /\ senders' = senders \ {s}
    /\ UNCHANGED <<schedVars, latency, bulk, live, live_notify, openVars, pc,
                   writing, notifying, serial, late>>

-----------------------------------------------------------------------------
\* ConnectionWriter::run.

\* The loop head: a wave in the slot goes out before anything else.
TakeLive ==
    /\ pc = "live"
    /\ IF live # <<>>
       THEN /\ writing' = live
            /\ live' = <<>>
            /\ pc' = "write"
       ELSE /\ pc' = "latency"
            /\ UNCHANGED <<live, writing>>
    /\ UNCHANGED <<schedVars, latency, bulk, live_notify, openVars, senderVars,
                   late>>

Max0(n) == IF n < 0 THEN 0 ELSE n

\* Mistake: the inboxes are only looked at when the scheduler ran empty.
DrainLatencyWhenIdle ==
    /\ pc = "latency"
    /\ IF latency # <<>> /\ ~has_pending
       THEN /\ enqueue(Head(latency))
            /\ latency' = Tail(latency)
            /\ late' = Max0(late - 1)
            /\ UNCHANGED pc
       ELSE /\ pc' = "bulk"
            /\ UNCHANGED <<schedVars, latency, late>>
    /\ UNCHANGED <<bulk, live, live_notify, openVars, writing, senderVars>>

\* One turn of the first try_recv loop.
DrainLatency ==
    /\ pc = "latency"
    /\ IF latency # <<>>
       THEN /\ enqueue(Head(latency))
            /\ latency' = Tail(latency)
            /\ late' = Max0(late - 1)
            /\ UNCHANGED pc
       ELSE /\ pc' = "bulk"
            /\ UNCHANGED <<schedVars, latency, late>>
    /\ UNCHANGED <<bulk, live, live_notify, openVars, writing, senderVars>>

\* One turn of the second try_recv loop.
DrainBulk ==
    /\ pc = "bulk"
    /\ IF bulk # <<>>
       THEN /\ enqueue(Head(bulk))
            /\ bulk' = Tail(bulk)
            /\ UNCHANGED pc
       ELSE /\ pc' = "pop"
            /\ UNCHANGED <<schedVars, bulk>>
    /\ UNCHANGED <<latency, live, live_notify, openVars, writing, senderVars,
                   late>>

FrameAtFront(i) ==
    [channel  |-> queues[i].key,
     priority |-> queues[i].priority,
     bytes    |-> Head(queues[i].pending)]

PopAndWrite(i) ==
    /\ pc = "pop"
    /\ pop_next(i)
    /\ writing' = <<FrameAtFront(i)>>
    /\ late' = IF queues[i].priority = "Bulk" THEN Len(latency) ELSE late
    /\ pc' = "write"
    /\ UNCHANGED <<latency, bulk, live, live_notify, openVars, senderVars>>

\* Mistake: a token that may be stale is thrown away before waiting.
NothingToWriteClears ==
    /\ pc = "pop"
    /\ PopNone
    /\ pc' = IF latency_open \/ bulk_open \/ live_open THEN "select" ELSE "done"
    /\ live_notify' = 0
    /\ UNCHANGED <<schedVars, latency, bulk, live, openVars, writing,
                   senderVars, late>>

\* Nothing to write: leave when every channel is closed, otherwise wait.
NothingToWrite ==
    /\ pc = "pop"
    /\ PopNone
    /\ pc' = IF latency_open \/ bulk_open \/ live_open THEN "select" ELSE "done"
    /\ UNCHANGED <<schedVars, latency, bulk, live, live_notify, openVars,
                   writing, senderVars, late>>

\* One write_all completes; a wave is written to its end before the loop
\* looks at anything else.
WriteDone ==
    /\ pc = "write"
    /\ writing' = Tail(writing)
    /\ pc' = IF Len(writing) = 1 THEN "live" ELSE "write"
    /\ UNCHANGED <<schedVars, latency, bulk, live, live_notify, openVars,
                   senderVars, late>>

\* The socket fails; run returns and its receivers close.
WriteFails ==
    /\ pc = "write"
    /\ pc' = "failed"
    /\ UNCHANGED <<schedVars, latency, bulk, live, live_notify, openVars,
                   writing, senderVars, late>>

\* The biased select: the first ready branch in this order. A channel is ready
\* when it holds something, and when all its senders are gone.
NotifyReady  == live_open /\ (live_notify = 1 \/ senders = {})
LatencyReady == latency_open /\ (latency # <<>> \/ senders = {})
BulkReady    == bulk_open /\ (bulk # <<>> \/ senders = {})

\* Mistake: the closed token channel stays among the branches.
SelectNotifyStaysOpen ==
    /\ pc = "select"
    /\ NotifyReady
    /\ live_notify' = 0
    /\ pc' = "live"
    /\ UNCHANGED <<schedVars, latency, bulk, live, openVars, writing,
                   senderVars, late>>

SelectNotify ==
    /\ pc = "select"
    /\ NotifyReady
    /\ live_notify' = 0
    /\ live_open' = (live_notify = 1)
    /\ pc' = "live"
    /\ UNCHANGED <<schedVars, latency, bulk, live, latency_open, bulk_open,
                   writing, senderVars, late>>

SelectLatency ==
    /\ pc = "select"
    /\ ~NotifyReady /\ LatencyReady
    /\ IF latency # <<>>
       THEN /\ enqueue(Head(latency))
            /\ latency' = Tail(latency)
            /\ late' = Max0(late - 1)
            /\ UNCHANGED latency_open
       ELSE /\ latency_open' = FALSE
            /\ UNCHANGED <<schedVars, latency, late>>
    /\ pc' = "live"
    /\ UNCHANGED <<bulk, live, live_notify, bulk_open, live_open, writing,
                   senderVars>>

SelectBulk ==
    /\ pc = "select"
    /\ ~NotifyReady /\ ~LatencyReady /\ BulkReady
    /\ IF bulk # <<>>
       THEN /\ enqueue(Head(bulk))
            /\ bulk' = Tail(bulk)
            /\ UNCHANGED bulk_open
       ELSE /\ bulk_open' = FALSE
            /\ UNCHANGED <<schedVars, bulk>>
    /\ pc' = "live"
    /\ UNCHANGED <<latency, live, live_notify, latency_open, live_open,
                   writing, senderVars, late>>

-----------------------------------------------------------------------------
Producers ==
    \E s \in Sender :
        \/ \E channel \in Channel, priority \in Priority :
              send(s, channel, priority) \/ send_all(s, channel, priority)
        \/ \E chunks \in 1 .. MaxChunks : StoreLive(s, chunks)
        \/ NotifyLive(s)
        \/ DropSender(s)

Writer ==
    \/ TakeLive
    \/ DrainLatency
    \/ DrainBulk
    \/ \E i \in DOMAIN queues : PopAndWrite(i)
    \/ NothingToWrite
    \/ WriteDone
    \/ SelectNotify
    \/ SelectLatency
    \/ SelectBulk

TransportNext == Producers \/ Writer \/ WriteFails

TransportSpec == TransportInit /\ [][TransportNext]_vars

\* The runtime keeps polling the writer task while the socket accepts bytes,
\* and a producer that stored a wave gets to the next line.
TransportFairness ==
    /\ WF_vars(Writer)
    /\ \A s \in Sender : WF_vars(NotifyLive(s))

FairTransportSpec == TransportSpec /\ TransportFairness

-----------------------------------------------------------------------------
\* Properties.

TransportTypeOK ==
    /\ SchedTypeOK
    /\ latency \in Seq(Frame) /\ bulk \in Seq(Frame)
    /\ Len(latency) <= LATENCY_QUEUE_CAP /\ Len(bulk) <= BULK_QUEUE_CAP
    /\ live \in Seq(Frame) /\ writing \in Seq(Frame)
    /\ live_notify \in {0, 1}
    /\ {latency_open, bulk_open, live_open} \subseteq BOOLEAN
    /\ pc \in {"live", "latency", "bulk", "pop", "write", "select", "done",
               "failed"}
    /\ senders \subseteq Sender /\ notifying \subseteq senders
    /\ serial \in 0 .. MaxFrames
    /\ late \in 0 .. Len(latency)

\* The writer never sleeps over a wave: when it waits in select while the slot
\* is occupied, the wake-up token is there or its producer is about to send
\* it. The store and the notification of send_live are two steps, and the
\* writer looks at the slot long before it waits for the token.
NoLostWakeUp ==
    pc = "select" /\ live # <<>> => live_notify = 1 \/ notifying # {}

\* run() ends by itself only after the last handle is dropped, and then
\* nothing a producer handed over is left behind in an inbox, in the slot or
\* in the scheduler.
NothingLeftAtExit ==
    pc = "done" =>
        /\ senders = {}
        /\ latency = <<>> /\ bulk = <<>> /\ live = <<>>
        /\ ~has_pending

\* The writer task at rest: the inboxes keep to their capacities, it does not
\* sleep over a wave, and it ends only with everything written.
WriterSafe == TransportTypeOK /\ NoLostWakeUp /\ NothingLeftAtExit

\* Re-checking the inboxes between writes bounds what a burst can do: from the
\* moment a Latency frame is in its inbox, at most one Bulk frame is popped
\* ahead of it. `late' counts the inbox frames that were already overtaken
\* once; frames that reached the scheduler are popped before any Bulk frame.
OvertakenAtMostOnce ==
    [][\A i \in DOMAIN queues :
          PopAndWrite(i) /\ queues[i].priority = "Bulk" =>
              /\ late = 0
              /\ \A j \in DOMAIN queues :
                    queues[j].priority = "Latency" => ~Pending(j)]_vars

Buffered ==
    {latency[k].bytes : k \in DOMAIN latency}
      \cup {bulk[k].bytes : k \in DOMAIN bulk}
      \cup {live[k].bytes : k \in DOMAIN live}
      \cup UNION {{queues[i].pending[k] : k \in DOMAIN queues[i].pending} :
                     i \in DOMAIN queues}

\* Every frame accepted is eventually taken out to be written (or, a wave in
\* the slot, replaced by a later one), unless the socket fails.
EventuallyTaken ==
    \A b \in Bytes : (b \in Buffered) ~> (b \notin Buffered \/ Stopped)

\* When the last handle is dropped the task ends: the three closed channels
\* are noticed one after the other.
WriterEnds == (senders = {}) ~> Stopped

\* lib.rs says of the two bounded inboxes that "a flood of graphics cannot
\* grow memory without bound". The Bulk frames a connection holds should then
\* be bounded by a small multiple of the Bulk inbox.
BulkHeld ==
    UNION ({{bulk[k].bytes : k \in DOMAIN bulk}} \cup
           {{queues[i].pending[k] : k \in DOMAIN queues[i].pending} :
               i \in {j \in DOMAIN queues : queues[j].priority = "Bulk"}})

MemoryBounded == Cardinality(BulkHeld) <= 3 * BULK_QUEUE_CAP

-----------------------------------------------------------------------------
\* The stream the producers see. A class's queue is what the scheduler holds
\* for it followed by what its inbox holds for it.
InScheduler(c) ==
    LET S == {i \in DOMAIN queues : queues[i].key = c[1] /\ queues[i].priority = c[2]}
    IN  IF S = {} THEN <<>> ELSE queues[FirstOf(S)].pending

InInbox(c) ==
    LET ofClass(frame) == frame.channel = c[1]
        frames == SelectSeq(IF c[2] = "Latency" THEN latency ELSE bulk, ofClass)
    IN  [k \in 1 .. Len(frames) |-> frames[k].bytes]

BytesOf(frames) == [k \in 1 .. Len(frames) |-> frames[k].bytes]

Stream == INSTANCE FrameStream WITH
    Item <- Bytes,
    Wave <- {[k \in 1 .. n |-> b] : n \in 1 .. MaxChunks, b \in Bytes},
    fifo <- [c \in Channel \X Priority |-> InScheduler(c) \o InInbox(c)],
    slot <- BytesOf(live),
    out  <- BytesOf(writing),
    open <- ~Stopped

\* Inboxes, scheduler and writer loop together keep the promises of
\* FrameStream: no frame is lost, duplicated or reordered within its class.
ImplementsFrameStream == Stream!Spec
=============================================================================
