--------------------------- MODULE TransportProofs ---------------------------
(***************************************************************************)
(* The writer task's safety for any channels, senders, inbox capacities    *)
(* and wave lengths. The properties of the runs are not inductive: the     *)
(* writer is asleep, or gone, long after the step that made it safe to     *)
(* sleep or go. TInv says what holds on the way there.                     *)
(***************************************************************************)
EXTENDS Transport, SchedulerProofs

\* From the moment the writer found the slot empty until it has consumed a
\* token, a wave in the slot comes with a token sent or about to be sent.
WakeUp ==
    pc \in {"latency", "bulk", "pop", "select"} /\ live # <<>> =>
        live_notify = 1 \/ notifying # {}

\* Past the first drain loop no frame waits that a Bulk frame overtook.
LateDrained == pc \in {"bulk", "pop"} => late = 0

\* A channel is seen closed only after its senders are gone and it is empty.
ClosedMeansEmpty ==
    /\ ~live_open => senders = {} /\ live_notify = 0
    /\ ~latency_open => senders = {} /\ latency = <<>>
    /\ ~bulk_open => senders = {} /\ bulk = <<>>

WritesSomething == pc = "write" => writing # <<>>

\* The inboxes and the counters.
Boxes ==
    /\ latency \in Seq(Frame) /\ bulk \in Seq(Frame)
    /\ Len(latency) <= LATENCY_QUEUE_CAP /\ Len(bulk) <= BULK_QUEUE_CAP
    /\ serial \in 0 .. MaxFrames
    /\ late \in 0 .. Len(latency)
    /\ LateDrained

\* The slot, the writer's program counter and the handles.
Flow ==
    /\ live \in Seq(Frame) /\ writing \in Seq(Frame)
    /\ live_notify \in {0, 1}
    /\ {latency_open, bulk_open, live_open} \subseteq BOOLEAN
    /\ pc \in {"live", "latency", "bulk", "pop", "write", "select", "done",
               "failed"}
    /\ senders \subseteq Sender /\ notifying \subseteq senders
    /\ WakeUp /\ ClosedMeansEmpty /\ WritesSomething

TInv ==
    SchedTypeOK /\ IndicesInRange /\ Boxes /\ Flow /\ NothingLeftAtExit

-----------------------------------------------------------------------------
\* A frame moves from an inbox into the scheduler.
LEMMA EnqueueEffect ==
    ASSUME SchedTypeOK, IndicesInRange, NEW frame \in Frame, enqueue(frame)
    PROVE  SchedTypeOK' /\ IndicesInRange'
BY AppendToEffect, OpenQueueEffect DEF enqueue

LEMMA SchedulerStays ==
    ASSUME SchedTypeOK, IndicesInRange, UNCHANGED schedVars
    PROVE  SchedTypeOK' /\ IndicesInRange' /\ (has_pending' <=> has_pending)
BY DEF SchedTypeOK, IndicesInRange, schedVars, has_pending, Pending

LEMMA FirstOut ==
    ASSUME NEW S, NEW s \in Seq(S), s # <<>>
    PROVE  /\ Head(s) \in S /\ Tail(s) \in Seq(S)
           /\ Len(Tail(s)) = Len(s) - 1 /\ Len(s) \in Nat \ {0}
BY HeadTailProperties, EmptySeq, LenProperties

LEMMA LastIn ==
    ASSUME NEW S, NEW s \in Seq(S), NEW e \in S
    PROVE  /\ Append(s, e) \in Seq(S) /\ Append(s, e) # <<>>
           /\ Len(Append(s, e)) = Len(s) + 1 /\ Len(s) \in Nat
BY AppendProperties, LenProperties

-----------------------------------------------------------------------------
LEMMA PushKeeps ==
    ASSUME TInv, NEW s, MayCall(s), NEW channel \in Channel,
           NEW priority \in Priority, HasRoom(priority), ~Stopped,
           Push(NewFrame(channel, priority)),
           UNCHANGED <<schedVars, live, live_notify, openVars, pc, writing,
                       notifying, late>>
    PROVE  TInv'
<1> DEFINE f == NewFrame(channel, priority)
<1>1. f \in Frame /\ f.priority = priority
  BY CapAssumption DEF TInv, NewFrame, Frame, MayCall, Boxes, Flow
<1> HIDE DEF f
<1>2. \/ /\ latency' = latency /\ bulk' = Append(bulk, f)
         /\ Len(bulk) < BULK_QUEUE_CAP
      \/ /\ bulk' = bulk /\ latency' = Append(latency, f)
         /\ Len(latency) < LATENCY_QUEUE_CAP
  BY <1>1 DEF Push, HasRoom, f
<1>3. /\ latency \in Seq(Frame) /\ bulk \in Seq(Frame)
      /\ Len(latency) <= LATENCY_QUEUE_CAP /\ Len(bulk) <= BULK_QUEUE_CAP
      /\ Len(latency) \in Nat
  BY LenProperties DEF TInv, Boxes
<1>8. /\ latency' \in Seq(Frame) /\ bulk' \in Seq(Frame)
      /\ Len(latency') <= LATENCY_QUEUE_CAP /\ Len(bulk') <= BULK_QUEUE_CAP
      /\ Len(latency') >= Len(latency) /\ Len(latency') \in Nat
  <2>1. CASE /\ latency' = latency /\ bulk' = Append(bulk, f)
             /\ Len(bulk) < BULK_QUEUE_CAP
    BY <1>1, <1>3, <2>1, LastIn, CapAssumption
  <2>2. CASE /\ bulk' = bulk /\ latency' = Append(latency, f)
             /\ Len(latency) < LATENCY_QUEUE_CAP
    BY <1>1, <1>3, <2>2, LastIn, CapAssumption
  <2>3. QED
    BY <1>2, <2>1, <2>2
<1>4. Boxes' /\ Flow'
  <2>1. Boxes'
    BY <1>3, <1>8, CapAssumption DEF TInv, MayCall, Stopped, openVars, Boxes, LateDrained
  <2>2. Flow'
    BY <1>3, <1>8, CapAssumption DEF TInv, MayCall, Stopped, openVars, Boxes, Flow, WakeUp,
      ClosedMeansEmpty, WritesSomething
  <2>3. QED
    BY <2>1, <2>2
<1>5. NothingLeftAtExit'
  BY DEF NothingLeftAtExit, Stopped
<1>6. QED
  BY <1>4, <1>5, SchedulerStays DEF TInv

LEMMA RefusedKeeps ==
    ASSUME TInv, NEW s, MayCall(s),
           UNCHANGED <<schedVars, latency, bulk, live, live_notify, openVars,
                       pc, writing, notifying, late>>
    PROVE  TInv'
<1>1. Boxes' /\ Flow'
  <2>1. Boxes'
    BY CapAssumption DEF TInv, MayCall, openVars, Boxes, LateDrained
  <2>2. Flow'
    BY CapAssumption DEF TInv, MayCall, openVars, Boxes, Flow, WakeUp,
      ClosedMeansEmpty, WritesSomething
  <2>3. QED
    BY <2>1, <2>2
<1>2. NothingLeftAtExit'
  BY SchedulerStays DEF TInv, NothingLeftAtExit, MayCall
<1>3. QED
  BY <1>1, <1>2, SchedulerStays DEF TInv

LEMMA StoreLiveKeeps ==
    ASSUME TInv, NEW s, NEW chunks \in 1 .. MaxChunks, StoreLive(s, chunks)
    PROVE  TInv'
<1>1. NewFrame(AudioChannel, "Latency") \in Frame
  BY CapAssumption
  DEF TInv, NewFrame, Frame, StoreLive, MayCall, Boxes, Flow, Priority
<1>2. live' \in Seq(Frame)
  BY <1>1, CapAssumption DEF StoreLive
<1>3. Boxes' /\ Flow'
  <2>1. Boxes'
    BY <1>2, CapAssumption DEF TInv, StoreLive, MayCall, openVars, Boxes,
      LateDrained
  <2>2. Flow'
    BY <1>2, CapAssumption DEF TInv, StoreLive, MayCall, openVars, Boxes,
      Flow, WakeUp, ClosedMeansEmpty, WritesSomething
  <2>3. QED
    BY <2>1, <2>2
<1>4. NothingLeftAtExit'
  BY DEF TInv, NothingLeftAtExit, StoreLive, MayCall
<1>5. QED
  BY <1>3, <1>4, SchedulerStays DEF TInv, StoreLive

LEMMA NotifyLiveKeeps ==
    ASSUME TInv, NEW s, NotifyLive(s)
    PROVE  TInv'
<1>1. Boxes' /\ Flow'
  <2>1. Boxes'
    BY DEF TInv, NotifyLive, Stopped, openVars, Boxes, LateDrained
  <2>2. Flow'
    BY DEF TInv, NotifyLive, Stopped, openVars, Boxes, Flow, WakeUp,
      ClosedMeansEmpty, WritesSomething
  <2>3. QED
    BY <2>1, <2>2
<1>2. NothingLeftAtExit'
  BY DEF TInv, Boxes, Flow, NothingLeftAtExit, NotifyLive
<1>3. QED
  BY <1>1, <1>2, SchedulerStays DEF TInv, NotifyLive

LEMMA DropSenderKeeps ==
    ASSUME TInv, NEW s, DropSender(s)
    PROVE  TInv'
<1>1. Boxes' /\ Flow'
  <2>1. Boxes'
    BY DEF TInv, DropSender, openVars, Boxes, LateDrained
  <2>2. Flow'
    BY DEF TInv, DropSender, openVars, Boxes, Flow, WakeUp,
      ClosedMeansEmpty, WritesSomething
  <2>3. QED
    BY <2>1, <2>2
<1>2. NothingLeftAtExit'
  BY DEF TInv, Boxes, Flow, NothingLeftAtExit, DropSender
<1>3. QED
  BY <1>1, <1>2, SchedulerStays DEF TInv, DropSender

-----------------------------------------------------------------------------
LEMMA TakeLiveKeeps ==
    ASSUME TInv, TakeLive
    PROVE  TInv'
<1>1. Boxes' /\ Flow'
  <2>1. Boxes'
    BY EmptySeq DEF TInv, TakeLive, openVars, senderVars, Boxes, LateDrained
  <2>2. Flow'
    BY EmptySeq DEF TInv, TakeLive, openVars, senderVars, Boxes, Flow,
      WakeUp, ClosedMeansEmpty, WritesSomething
  <2>3. QED
    BY <2>1, <2>2
<1>2. NothingLeftAtExit'
  BY DEF NothingLeftAtExit, TakeLive
<1>3. QED
  BY <1>1, <1>2, SchedulerStays DEF TInv, TakeLive

LEMMA DrainLatencyKeeps ==
    ASSUME TInv, DrainLatency
    PROVE  TInv'
<1>1. NothingLeftAtExit'
  BY DEF NothingLeftAtExit, DrainLatency
<1>2. CASE latency # <<>>
  <2>1. /\ Head(latency) \in Frame /\ Tail(latency) \in Seq(Frame)
        /\ Len(Tail(latency)) = Len(latency) - 1
        /\ Len(latency) \in Nat \ {0}
    BY <1>2, FirstOut DEF TInv, Boxes, Flow
  <2>2. Boxes' /\ Flow'
    <3>1. Boxes'
      BY <1>2, <2>1, CapAssumption DEF TInv, DrainLatency, Max0, openVars,
        senderVars, Boxes, LateDrained
    <3>2. Flow'
      BY <1>2, <2>1, CapAssumption DEF TInv, DrainLatency, Max0, openVars,
        senderVars, Boxes, Flow, WakeUp, ClosedMeansEmpty, WritesSomething
    <3>3. QED
      BY <3>1, <3>2
  <2>3. QED
    BY <1>1, <1>2, <2>1, <2>2, EnqueueEffect DEF TInv, DrainLatency
<1>3. CASE latency = <<>>
  <2>1. Boxes' /\ Flow'
    <3>1. Boxes'
      BY <1>3 DEF TInv, DrainLatency, openVars, senderVars, Boxes,
        LateDrained
    <3>2. Flow'
      BY <1>3 DEF TInv, DrainLatency, openVars, senderVars, Boxes, Flow,
        WakeUp, ClosedMeansEmpty, WritesSomething
    <3>3. QED
      BY <3>1, <3>2
  <2>2. QED
    BY <1>1, <1>3, <2>1, SchedulerStays DEF TInv, DrainLatency
<1>4. QED
  BY <1>2, <1>3

LEMMA DrainBulkKeeps ==
    ASSUME TInv, DrainBulk
    PROVE  TInv'
<1>1. NothingLeftAtExit'
  BY DEF NothingLeftAtExit, DrainBulk
<1>2. CASE bulk # <<>>
  <2>1. /\ Head(bulk) \in Frame /\ Tail(bulk) \in Seq(Frame)
        /\ Len(Tail(bulk)) = Len(bulk) - 1
        /\ Len(bulk) \in Nat \ {0}
    BY <1>2, FirstOut DEF TInv, Boxes, Flow
  <2>2. Boxes' /\ Flow'
    <3>1. Boxes'
      BY <1>2, <2>1, CapAssumption DEF TInv, DrainBulk, openVars,
        senderVars, Boxes, LateDrained
    <3>2. Flow'
      BY <1>2, <2>1, CapAssumption DEF TInv, DrainBulk, openVars,
        senderVars, Boxes, Flow, WakeUp, ClosedMeansEmpty, WritesSomething
    <3>3. QED
      BY <3>1, <3>2
  <2>3. QED
    BY <1>1, <1>2, <2>1, <2>2, EnqueueEffect DEF TInv, DrainBulk
<1>3. CASE bulk = <<>>
  <2>1. Boxes' /\ Flow'
    <3>1. Boxes'
      BY <1>3 DEF TInv, DrainBulk, openVars, senderVars, Boxes, LateDrained
    <3>2. Flow'
      BY <1>3 DEF TInv, DrainBulk, openVars, senderVars, Boxes, Flow,
        WakeUp, ClosedMeansEmpty, WritesSomething
    <3>3. QED
      BY <3>1, <3>2
  <2>2. QED
    BY <1>1, <1>3, <2>1, SchedulerStays DEF TInv, DrainBulk
<1>4. QED
  BY <1>2, <1>3

LEMMA PopAndWriteKeeps ==
    ASSUME TInv, NEW i \in DOMAIN queues, PopAndWrite(i)
    PROVE  TInv'
<1>1. /\ SchedTypeOK' /\ IndicesInRange'
      /\ Pending(i)
  BY PopLatencyEffect, PopBulkEffect DEF TInv, PopAndWrite, pop_next
<1>2. FrameAtFront(i) \in Frame
  <2>1. queues[i] \in ChannelQueue
    BY DEF TInv, SchedTypeOK
  <2>2. Head(queues[i].pending) \in Bytes
    BY <1>1, <2>1, FirstOut DEF ChannelQueue, Pending
  <2>3. QED
    BY <2>1, <2>2 DEF FrameAtFront, Frame, ChannelQueue
<1>3. Boxes'
  BY LenProperties DEF TInv, Boxes, PopAndWrite, senderVars, LateDrained
<1>4. Flow'
  <2>1. writing' \in Seq(Frame) /\ writing' # <<>>
    BY <1>2 DEF PopAndWrite
  <2>2. QED
    BY <2>1 DEF TInv, Flow, PopAndWrite, openVars, senderVars, WakeUp,
                ClosedMeansEmpty, WritesSomething
<1>5. NothingLeftAtExit'
  BY DEF NothingLeftAtExit, PopAndWrite
<1>6. QED
  BY <1>1, <1>3, <1>4, <1>5 DEF TInv

\* The exit test: all three channels were seen closed and the scheduler has
\* nothing, so nothing is left anywhere.
LEMMA NothingToWriteKeeps ==
    ASSUME TInv, NothingToWrite
    PROVE  TInv'
<1>1. Boxes'
  BY DEF TInv, Boxes, NothingToWrite, senderVars, LateDrained
<1>2. Flow'
  BY DEF TInv, Flow, NothingToWrite, openVars, senderVars, WakeUp,
         ClosedMeansEmpty, WritesSomething
<1>3. NothingLeftAtExit'
  <2>1. SUFFICES ASSUME pc' = "done" PROVE NothingLeftAtExit'
    BY DEF NothingLeftAtExit
  <2>2. ~latency_open /\ ~bulk_open /\ ~live_open
    BY <2>1 DEF NothingToWrite
  <2>3. /\ senders = {} /\ notifying = {} /\ live_notify = 0
        /\ latency = <<>> /\ bulk = <<>>
    BY <2>2 DEF TInv, Flow, ClosedMeansEmpty
  <2>4. live = <<>>
    BY <2>3 DEF TInv, Flow, WakeUp, NothingToWrite
  <2>5. ~has_pending
    BY NoneMeansEmpty DEF TInv, NothingToWrite, NoFrameStuck
  <2>6. QED
    BY <2>3, <2>4, <2>5, SchedulerStays
    DEF TInv, NothingLeftAtExit, NothingToWrite, senderVars
<1>4. QED
  BY <1>1, <1>2, <1>3, SchedulerStays DEF TInv, NothingToWrite

LEMMA WriteDoneKeeps ==
    ASSUME TInv, WriteDone
    PROVE  TInv'
<1>1. Boxes'
  BY DEF TInv, Boxes, WriteDone, senderVars, LateDrained
<1>2. /\ writing \in Seq(Frame) /\ Tail(writing) \in Seq(Frame)
      /\ Len(Tail(writing)) = Len(writing) - 1 /\ Len(writing) \in Nat \ {0}
  BY FirstOut DEF TInv, Flow, WriteDone, WritesSomething
<1>3. Len(writing) # 1 => Tail(writing) # <<>>
  <2>1. Len(writing) # 1 => Len(Tail(writing)) # 0
    BY <1>2
  <2>2. Len(<<>>) = 0
    OBVIOUS
  <2>3. QED
    BY <2>1, <2>2, Zenon
<1>4. Flow'
  BY <1>2, <1>3 DEF TInv, Flow, WriteDone, openVars, senderVars, WakeUp,
                    ClosedMeansEmpty, WritesSomething
<1>5. NothingLeftAtExit'
  BY DEF NothingLeftAtExit, WriteDone
<1>6. QED
  BY <1>1, <1>4, <1>5, SchedulerStays DEF TInv, WriteDone

LEMMA WriteFailsKeeps ==
    ASSUME TInv, WriteFails
    PROVE  TInv'
<1>1. Boxes'
  BY DEF TInv, Boxes, WriteFails, senderVars, LateDrained
<1>2. Flow'
  BY DEF TInv, Flow, WriteFails, openVars, senderVars, WakeUp,
         ClosedMeansEmpty, WritesSomething
<1>3. NothingLeftAtExit'
  BY DEF NothingLeftAtExit, WriteFails
<1>4. QED
  BY <1>1, <1>2, <1>3, SchedulerStays DEF TInv, WriteFails

LEMMA SelectNotifyKeeps ==
    ASSUME TInv, SelectNotify
    PROVE  TInv'
<1>1. Boxes'
  BY DEF TInv, Boxes, SelectNotify, senderVars, LateDrained
<1>2. Flow'
  BY DEF TInv, Flow, SelectNotify, NotifyReady, senderVars, WakeUp,
         ClosedMeansEmpty, WritesSomething
<1>3. NothingLeftAtExit'
  BY DEF NothingLeftAtExit, SelectNotify
<1>4. QED
  BY <1>1, <1>2, <1>3, SchedulerStays DEF TInv, SelectNotify

LEMMA SelectLatencyKeeps ==
    ASSUME TInv, SelectLatency
    PROVE  TInv'
<1>1. NothingLeftAtExit'
  BY DEF NothingLeftAtExit, SelectLatency
<1>2. CASE latency # <<>>
  <2>1. /\ Head(latency) \in Frame /\ Tail(latency) \in Seq(Frame)
        /\ Len(Tail(latency)) = Len(latency) - 1
        /\ Len(latency) \in Nat \ {0}
    BY <1>2, FirstOut DEF TInv, Boxes
  <2>2. Boxes'
    <3>1. /\ latency' = Tail(latency) /\ late' = Max0(late - 1) /\ pc' = "live"
          /\ bulk' = bulk /\ serial' = serial
      BY <1>2 DEF SelectLatency, senderVars
    <3>2. /\ latency \in Seq(Frame) /\ bulk \in Seq(Frame) /\ serial \in 0 .. MaxFrames
          /\ Len(latency) <= LATENCY_QUEUE_CAP /\ Len(bulk) <= BULK_QUEUE_CAP
          /\ late \in 0 .. Len(latency)
      BY DEF TInv, Boxes
    <3>3. late' \in 0 .. Len(latency')
      BY <2>1, <3>1, <3>2 DEF Max0
    <3>4. Len(latency') <= LATENCY_QUEUE_CAP
      BY <2>1, <3>1, <3>2, CapAssumption
    <3>5. QED
      BY <2>1, <3>1, <3>2, <3>3, <3>4 DEF Boxes, LateDrained
  <2>3. Flow'
    BY <1>2 DEF TInv, Flow, SelectLatency, senderVars, WakeUp,
                ClosedMeansEmpty, WritesSomething
  <2>4. QED
    BY <1>1, <1>2, <2>1, <2>2, <2>3, EnqueueEffect DEF TInv, SelectLatency
<1>3. CASE latency = <<>>
  <2>1. Boxes'
    BY <1>3 DEF TInv, Boxes, SelectLatency, senderVars, LateDrained
  <2>2. Flow'
    BY <1>3 DEF TInv, Flow, SelectLatency, LatencyReady, senderVars, WakeUp,
                ClosedMeansEmpty, WritesSomething
  <2>3. QED
    BY <1>1, <1>3, <2>1, <2>2, SchedulerStays DEF TInv, SelectLatency
<1>4. QED
  BY <1>2, <1>3

LEMMA SelectBulkKeeps ==
    ASSUME TInv, SelectBulk
    PROVE  TInv'
<1>1. NothingLeftAtExit'
  BY DEF NothingLeftAtExit, SelectBulk
<1>2. CASE bulk # <<>>
  <2>1. /\ Head(bulk) \in Frame /\ Tail(bulk) \in Seq(Frame)
        /\ Len(Tail(bulk)) = Len(bulk) - 1
        /\ Len(bulk) \in Nat \ {0}
    BY <1>2, FirstOut DEF TInv, Boxes
  <2>2. Boxes'
    <3>1. /\ bulk' = Tail(bulk) /\ latency' = latency /\ serial' = serial
          /\ late' = late /\ pc' = "live"
      BY <1>2 DEF SelectBulk, senderVars
    <3>2. Len(Tail(bulk)) <= BULK_QUEUE_CAP
      BY <2>1, CapAssumption DEF TInv, Boxes
    <3>3. QED
      BY <2>1, <3>1, <3>2 DEF TInv, Boxes, LateDrained
  <2>3. Flow'
    BY <1>2 DEF TInv, Flow, SelectBulk, senderVars, WakeUp,
                ClosedMeansEmpty, WritesSomething
  <2>4. QED
    BY <1>1, <1>2, <2>1, <2>2, <2>3, EnqueueEffect DEF TInv, SelectBulk
<1>3. CASE bulk = <<>>
  <2>1. Boxes'
    BY <1>3 DEF TInv, Boxes, SelectBulk, senderVars, LateDrained
  <2>2. Flow'
    BY <1>3 DEF TInv, Flow, SelectBulk, BulkReady, senderVars, WakeUp,
                ClosedMeansEmpty, WritesSomething
  <2>3. QED
    BY <1>1, <1>3, <2>1, <2>2, SchedulerStays DEF TInv, SelectBulk
<1>4. QED
  BY <1>2, <1>3

-----------------------------------------------------------------------------
LEMMA InitTInv == TransportInit => TInv
<1> SUFFICES ASSUME TransportInit PROVE TInv
  OBVIOUS
<1>1. SchedTypeOK /\ IndicesInRange
  BY DEF TransportInit, SchedInit, SchedTypeOK, IndicesInRange
<1>2. Boxes
  BY CapAssumption DEF TransportInit, Boxes, LateDrained
<1>3. Flow
  BY DEF TransportInit, Flow, WakeUp, ClosedMeansEmpty, WritesSomething
<1>4. NothingLeftAtExit
  BY DEF TransportInit, NothingLeftAtExit
<1>5. QED
  BY <1>1, <1>2, <1>3, <1>4 DEF TInv

LEMMA NextTInv == TInv /\ [TransportNext]_vars => TInv'
<1> SUFFICES ASSUME TInv, [TransportNext]_vars PROVE TInv'
  OBVIOUS
<1>1. ASSUME NEW s \in Sender, NEW channel \in Channel, NEW priority \in Priority,
             send(s, channel, priority) \/ send_all(s, channel, priority)
      PROVE  TInv'
  <2>1. /\ MayCall(s)
        /\ UNCHANGED <<schedVars, live, live_notify, openVars, pc, writing,
                       notifying, late>>
        /\ \/ /\ HasRoom(priority) /\ ~Stopped
              /\ Push(NewFrame(channel, priority))
           \/ UNCHANGED <<latency, bulk>>
    BY <1>1 DEF send, send_all
  <2>2. QED
    BY <2>1, PushKeeps, RefusedKeeps
<1>2. CASE Producers
  BY <1>1, <1>2, StoreLiveKeeps, NotifyLiveKeeps, DropSenderKeeps DEF Producers
<1>3. CASE Writer
  BY <1>3, TakeLiveKeeps, DrainLatencyKeeps, DrainBulkKeeps,
     PopAndWriteKeeps, NothingToWriteKeeps, WriteDoneKeeps, SelectNotifyKeeps,
     SelectLatencyKeeps, SelectBulkKeeps DEF Writer
<1>4. CASE UNCHANGED vars
  <2>1. Boxes' /\ Flow'
    <3>1. Boxes'
      BY <1>4 DEF TInv, Boxes, vars, LateDrained
    <3>2. Flow'
      BY <1>4 DEF TInv, Flow, vars, WakeUp, ClosedMeansEmpty, WritesSomething
    <3>3. QED
      BY <3>1, <3>2
  <2>2. UNCHANGED schedVars
    BY <1>4 DEF vars, schedVars
  <2>3. NothingLeftAtExit'
    BY <1>4, <2>2, SchedulerStays DEF TInv, vars, NothingLeftAtExit
  <2>4. QED
    BY <2>1, <2>2, <2>3, SchedulerStays DEF TInv
<1>5. QED
  BY <1>2, <1>3, <1>4, WriteFailsKeeps DEF TransportNext

THEOREM TransportInvariance == TransportSpec => []TInv
BY InitTInv, NextTInv, PTL DEF TransportSpec

\* The connection's sending half is well typed; in particular its inboxes
\* never hold more than their capacities.
THEOREM TransportTypeCorrect == TransportSpec => []TransportTypeOK
<1>1. TInv => TransportTypeOK
  BY DEF TInv, Boxes, Flow, TransportTypeOK
<1>2. QED
  BY TransportInvariance, <1>1, PTL

\* The writer never waits in select over a wave nobody will wake it for.
THEOREM WakeUpsAreKept == TransportSpec => []NoLostWakeUp
<1>1. TInv => NoLostWakeUp
  BY DEF TInv, Flow, WakeUp, NoLostWakeUp
<1>2. QED
  BY TransportInvariance, <1>1, PTL

\* run() returns Ok only with nothing left to write and no handle alive.
THEOREM ExitIsClean == TransportSpec => []NothingLeftAtExit
<1>1. TInv => NothingLeftAtExit
  BY DEF TInv
<1>2. QED
  BY TransportInvariance, <1>1, PTL

\* The three together: what ConnectionWriter::run keeps true of its inboxes, of
\* its sleep and of its end.
THEOREM WriterIsSafe == TransportSpec => []WriterSafe
BY TransportTypeCorrect, WakeUpsAreKept, ExitIsClean, PTL DEF WriterSafe

\* At most one Bulk frame overtakes a Latency frame that is in its inbox, and
\* none overtakes a Latency frame that is in the scheduler.
THEOREM LatencyBound == TransportSpec => OvertakenAtMostOnce
<1> DEFINE Bound ==
        \A i \in DOMAIN queues :
          PopAndWrite(i) /\ queues[i].priority = "Bulk" =>
              /\ late = 0
              /\ \A j \in DOMAIN queues :
                    queues[j].priority = "Latency" => ~Pending(j)
<1>1. TInv /\ [TransportNext]_vars => [Bound]_vars
  <2> SUFFICES ASSUME TInv, NEW i \in DOMAIN queues, PopAndWrite(i),
                      queues[i].priority = "Bulk"
               PROVE  /\ late = 0
                      /\ \A j \in DOMAIN queues :
                            queues[j].priority = "Latency" => ~Pending(j)
    OBVIOUS
  <2>1. late = 0
    BY DEF TInv, Boxes, LateDrained, PopAndWrite
  <2>2. ~PopLatency(i)
    BY PopLatencyEffect DEF TInv
  <2>3. LatencyPending = {}
    BY <2>2 DEF PopAndWrite, pop_next, PopBulk
  <2>4. QED
    BY <2>1, <2>3 DEF LatencyPending
<1>2. QED
  BY TransportInvariance, <1>1, PTL DEF TransportSpec, OvertakenAtMostOnce
=============================================================================
