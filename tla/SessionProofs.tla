---------------------------- MODULE SessionProofs ----------------------------
(***************************************************************************)
(* A resize of the session loop, for any desktop, content, capacity and    *)
(* number of resizes: flag and acceptor stay in step, and the loop starts  *)
(* no bitmap between Deactivate-All and the Font List.                     *)
(***************************************************************************)
EXTENDS Session, FiniteSetTheorems, SequenceTheorems, TLAPS

Screens == screen \in AnyFrame /\ latest_full \in AnyFrame \cup {NoFrame}

\* Nothing is owed during a resize, and the loop itself is not sending: what
\* was owed is forgotten when it begins, and nothing is noted until its end.
NothingOwed == resizing => ~sync.pending_resync /\ direct = <<>>

LoopShape ==
    /\ resizing \in BOOLEAN /\ in_flight \in BOOLEAN
    /\ \E S : bulk_send \in Seq(S)

RInv == Screens /\ sync \in SyncState /\ LoopShape /\ NothingOwed /\ ResizeInStep

\* The step of NothingStartedWhileResizing.
StartsNothing ==
    resizing /\ resizing' =>
        /\ in_flight' => in_flight
        /\ Len(bulk_send') <= Len(bulk_send)
        /\ direct' = direct

-----------------------------------------------------------------------------
(* Bitmaps and the catch-up record *)

LEMMA FrameDomain ==
    ASSUME NEW f \in AnyFrame
    PROVE  DOMAIN f \subseteq 1 .. MaxSize
<1>1. PICK n \in 1 .. MaxSize : f \in [1 .. n -> Val]
  BY DEF AnyFrame, FrameOf
<1>2. QED
  BY <1>1, HubAssumption

LEMMA EncodedIsSequence ==
    ASSUME NEW b, b.tiles \subseteq 1 .. MaxSize
    PROVE  \E S : encode_outbound_bitmap(b) \in Seq(S)
<1> DEFINE first == CHOOSE t \in b.tiles : \A u \in b.tiles : t <= u
           n == Cardinality(b.tiles)
           Of(k) == [tile |-> first + k - 1, val |-> b.data[first + k - 1]]
           S == {Of(k) : k \in 1 .. n}
<1>1. n \in Nat
  <2>1. IsFiniteSet(1 .. MaxSize)
    BY FS_Interval, HubAssumption
  <2>2. QED
    BY <2>1, FS_Subset, FS_CardinalityType
<1>2. encode_outbound_bitmap(b) = [k \in 1 .. n |-> Of(k)]
  BY DEF encode_outbound_bitmap
<1> HIDE DEF first, n
<1>3. [k \in 1 .. n |-> Of(k)] \in [1 .. n -> S]
  <2> HIDE DEF Of
  <2>1. QED
    OBVIOUS
<1> HIDE DEF S, Of
<1>4. [1 .. n -> S] \subseteq Seq(S)
  BY <1>1
<1>5. QED
  BY <1>2, <1>3, <1>4

LEMMA PendingBitmapFits ==
    ASSUME RInv, NEW s
    PROVE  PendingBitmap(s, latest_full).tiles \subseteq 1 .. MaxSize
<1> DEFINE last == s.last_synced_full
<1>1. CASE PendingBitmap(s, latest_full) = NoBitmap
  BY <1>1 DEF NoBitmap
<1>2. CASE latest_full # NoFrame /\ PendingBitmap(s, latest_full) = full(latest_full)
  <2>1. latest_full \in AnyFrame
    BY <1>2 DEF RInv, Screens
  <2>2. QED
    BY <1>2, <2>1, FrameDomain DEF full
<1>3. CASE PendingBitmap(s, latest_full) =
               [tiles |-> Box(Changed(last, latest_full)), data |-> latest_full]
  BY <1>3 DEF Box
<1>4. QED
  BY <1>1, <1>2, <1>3 DEF PendingBitmap, resync_bitmap

LEMMA PendingBitmapData ==
    ASSUME RInv, NEW s
    PROVE  PendingBitmap(s, latest_full).data \in AnyFrame \cup {NoFrame}
  BY DEF PendingBitmap, resync_bitmap, full, NoBitmap, RInv, Screens

\* Every operation of the record leaves a record.
LEMMA SyncTypes ==
    ASSUME NEW s \in SyncState
    PROVE  /\ mark_dirty(s) \in SyncState
           /\ defer(s) \in SyncState
           /\ take_resync_target(s) \in SyncState
           /\ RInv => take_pending(s, latest_full) \in SyncState
  BY DEF SyncState, mark_dirty, defer, take_resync_target, take_pending, RInv, Screens

LEMMA ConfirmTypes ==
    ASSUME NEW s \in SyncState, NEW a \in AnyFrame \cup {NoFrame},
           NEW f \in AnyFrame \cup {NoFrame}
    PROVE  confirm_send(s, TRUE, a, f) \in SyncState /\ confirm_send(s, FALSE, a, f) \in SyncState
  BY SyncTypes DEF SyncState, confirm_send, mark_dirty

\* A catch-up leaves a record and a sequence of frames, and with nothing owed
\* it starts nothing and owes nothing afterwards.
LEMMA CatchUpKeeps ==
    ASSUME RInv, NEW s \in SyncState, NEW busy \in BOOLEAN, CatchUp(s, busy)
    PROVE  /\ sync' \in SyncState /\ in_flight' \in BOOLEAN
           /\ \E S : bulk_send' \in Seq(S)
           /\ ~s.pending_resync => /\ ~sync'.pending_resync
                                   /\ in_flight' = busy /\ bulk_send' = bulk_send
<1> DEFINE b == PendingBitmap(s, latest_full)
           taken == take_pending(s, latest_full)
<1>1. taken \in SyncState /\ ~taken.pending_resync
  <2>1. taken \in SyncState
    BY SyncTypes
  <2>2. QED
    BY <2>1 DEF take_pending, SyncState
<1>2. ~s.pending_resync => b = NoBitmap
  BY DEF PendingBitmap
<1>3. \E S : bulk_send \in Seq(S)
  BY DEF RInv, LoopShape
<1>4. CASE NothingToPump(s, busy)
  BY <1>1, <1>3, <1>4 DEF NothingToPump
<1>5. CASE DeferPump(s, busy)
  BY <1>1, <1>2, <1>3, <1>5, SyncTypes DEF DeferPump
<1>6. ASSUME NEW q \in BOOLEAN
      PROVE  Confirmed(s, b, q) \in SyncState
  <2>1. take_resync_target(taken) \in SyncState /\ taken.resync_target \in AnyFrame \cup {NoFrame}
    BY <1>1, SyncTypes DEF SyncState
  <2>2. (IF covers_desktop(b, resize_desktop) THEN b.data ELSE NoFrame) \in AnyFrame \cup {NoFrame}
    BY PendingBitmapData
  <2> HIDE DEF b, taken
  <2>3. QED
    BY <2>1, <2>2, ConfirmTypes DEF Confirmed, taken
<1>7. CASE Pump(s, busy)
  <2>1. sync' \in SyncState
    BY <1>6, <1>7 DEF Pump
  <2>2. \E S : bulk_send' \in Seq(S)
    BY <1>7, PendingBitmapFits, EncodedIsSequence DEF Pump
  <2>3. QED
    BY <1>2, <1>7, <2>1, <2>2 DEF Pump
<1>8. CASE SoftSkip(s, busy)
  BY <1>2, <1>3, <1>6, <1>8 DEF SoftSkip
<1>9. QED
  BY <1>4, <1>5, <1>7, <1>8 DEF CatchUp

-----------------------------------------------------------------------------
(* The steps *)

\* A step that leaves the loop's own state alone.
LEMMA Elsewhere ==
    ASSUME RInv, Screens',
           UNCHANGED <<sync, resizing, acceptor, in_flight, bulk_send, direct>>
    PROVE  RInv' /\ StartsNothing
<1>1. \E S : bulk_send \in Seq(S)
  BY DEF RInv, LoopShape
<1>2. Len(bulk_send) \in Nat
  BY <1>1
<1>3. StartsNothing
  BY <1>2 DEF StartsNothing
<1>4. QED
  BY <1>1, <1>3 DEF RInv, LoopShape, NothingOwed, ResizeInStep

LEMMA ScreensStay ==
    ASSUME RInv, UNCHANGED hubVars
    PROVE  Screens'
  BY DEF RInv, Screens, hubVars

LEMMA HostKeeps ==
    ASSUME RInv, HostSteps \/ HubSteps \/ Connects
    PROVE  RInv' /\ StartsNothing
<1>1. CASE HostSteps
  <2>1. ASSUME NEW t \in DOMAIN screen, NEW v \in Val, ScreenChanges(t, v)
        PROVE  Screens'
    <3>1. PICK n \in 1 .. MaxSize : screen \in [1 .. n -> Val]
      BY DEF RInv, Screens, AnyFrame, FrameOf
    <3>2. screen' \in [1 .. n -> Val] /\ latest_full' = latest_full
      BY <2>1, <3>1 DEF ScreenChanges
    <3>3. QED
      BY <3>2 DEF RInv, Screens, AnyFrame, FrameOf
  <2>2. ASSUME NEW frame \in AnyFrame, HostResizes(frame)
        PROVE  Screens'
    BY <2>2 DEF HostResizes, RInv, Screens
  <2>3. Screens'
    BY <1>1, <2>1, <2>2 DEF HostSteps, Host
  <2>4. QED
    BY <1>1, <2>3, Elsewhere DEF HostSteps, sessionOnlyVars, resizeVars
<1>2. CASE HubSteps
  <2>1. Screens'
    BY <1>2 DEF HubSteps, Capture, CaptureResized, CaptureFrame, Broadcast, RInv, Screens
  <2>2. QED
    BY <1>2, <2>1, Elsewhere DEF HubSteps, sessionOnlyVars, resizeVars
<1>3. CASE Connects
  <2>1. UNCHANGED hubVars /\ UNCHANGED <<sync, resizing, acceptor, in_flight, bulk_send, direct>>
    BY <1>3 DEF Connects, subscribe, SubscribeCopies, SubscribeOpens, resizeVars
  <2>2. QED
    BY <2>1, Elsewhere, ScreensStay
<1>4. QED
  BY <1>1, <1>2, <1>3

LEMMA ClientKeeps ==
    ASSUME RInv,
           \/ Client \/ BacklogRises \/ BacklogClears
           \/ \E pdu \in Requests : ClientRequests(pdu)
    PROVE  RInv' /\ StartsNothing
<1>1. UNCHANGED hubVars /\ UNCHANGED <<sync, resizing, acceptor, in_flight, bulk_send, direct>>
  BY DEF Client, ClientPaints, ClientReactivates, BacklogRises, BacklogClears, ClientRequests,
         resizeVars
<1>2. QED
  BY <1>1, Elsewhere, ScreensStay

LEMMA SendsKeep ==
    ASSUME RInv, BulkSend \/ DirectSend
    PROVE  RInv' /\ StartsNothing
<1>0. PICK S : bulk_send \in Seq(S)
  BY DEF RInv, LoopShape
<1>1. UNCHANGED hubVars /\ UNCHANGED <<sync, resizing, acceptor, in_flight>>
  BY DEF BulkSend, DirectSend, resizeVars
<1>2. CASE BulkSend
  <2>1. bulk_send # <<>> /\ bulk_send' = Tail(bulk_send) /\ direct' = direct
    BY <1>2 DEF BulkSend
  <2>2. bulk_send' \in Seq(S) /\ Len(bulk_send') <= Len(bulk_send)
    BY <1>0, <2>1
  <2>3. LoopShape'
    BY <1>1, <2>2 DEF RInv, LoopShape
  <2>4. QED
    BY <1>1, <2>1, <2>2, <2>3, ScreensStay DEF RInv, NothingOwed, ResizeInStep, StartsNothing
<1>3. CASE DirectSend
  <2>1. ~resizing /\ bulk_send' = bulk_send
    BY <1>3 DEF DirectSend, RInv, NothingOwed
  <2>2. QED
    BY <1>1, <2>1, ScreensStay DEF RInv, LoopShape, NothingOwed, ResizeInStep, StartsNothing
<1>4. QED
  BY <1>2, <1>3

\* A handler that may catch up, with the record s it starts from.
LEMMA CatchUpStep ==
    ASSUME RInv, UNCHANGED hubVars, UNCHANGED <<resizing, acceptor, direct>>,
           NEW s \in SyncState, resizing => ~s.pending_resync,
           NEW busy \in BOOLEAN, busy => in_flight, CatchUp(s, busy)
    PROVE  RInv' /\ StartsNothing
<1>1. /\ sync' \in SyncState /\ in_flight' \in BOOLEAN
      /\ \E S : bulk_send' \in Seq(S)
      /\ ~s.pending_resync => /\ ~sync'.pending_resync
                              /\ in_flight' = busy /\ bulk_send' = bulk_send
  BY CatchUpKeeps
<1>2. Len(bulk_send) \in Nat
  BY DEF RInv, LoopShape
<1>3. StartsNothing
  BY <1>1, <1>2 DEF StartsNothing
<1>4. LoopShape' /\ NothingOwed'
  BY <1>1 DEF RInv, LoopShape, NothingOwed
<1>5. QED
  BY <1>1, <1>3, <1>4, ScreensStay DEF RInv, ResizeInStep

LEMMA LoopKeeps ==
    ASSUME RInv, JoinBulkSend \/ GateOpens \/ CatchupTick
    PROVE  RInv' /\ StartsNothing
<1>0. /\ UNCHANGED hubVars /\ UNCHANGED <<resizing, acceptor, direct>>
      /\ sync \in SyncState /\ (resizing => ~sync.pending_resync)
      /\ in_flight \in BOOLEAN
  BY DEF RInv, LoopShape, NothingOwed, JoinBulkSend, GateOpens, CatchupTick, resizeVars
<1>1. CASE CatchUp(sync, FALSE)
  BY <1>0, <1>1, CatchUpStep
<1>2. CASE CatchUp(sync, in_flight)
  BY <1>0, <1>2, CatchUpStep
<1>3. CASE NoCatchUp
  BY <1>0, <1>3, Elsewhere, ScreensStay DEF NoCatchUp
<1>4. CASE in_flight' = FALSE /\ UNCHANGED <<sync, bulk_send, troubles>>
  <2>1. Len(bulk_send) \in Nat
    BY DEF RInv, LoopShape
  <2>2. StartsNothing
    BY <1>0, <1>4, <2>1 DEF StartsNothing
  <2>3. LoopShape'
    BY <1>0, <1>4 DEF RInv, LoopShape
  <2>4. NothingOwed' /\ ResizeInStep'
    BY <1>0, <1>4 DEF RInv, NothingOwed, ResizeInStep
  <2>5. QED
    BY <1>0, <1>4, <2>2, <2>3, <2>4, ScreensStay DEF RInv
<1>5. QED
  BY <1>1, <1>2, <1>3, <1>4 DEF JoinBulkSend, GateOpens, CatchupTick

LEMMA UpdatesKeep ==
    ASSUME RInv, OnUpdate
    PROVE  RInv' /\ StartsNothing
<1>1. CASE OnBitmapWhileResizing \/ DropResize
  <2>1. UNCHANGED hubVars /\ UNCHANGED <<sync, resizing, acceptor, in_flight, bulk_send, direct>>
    BY <1>1 DEF OnBitmapWhileResizing, DropResize, NoCatchUp, resizeVars
  <2>2. QED
    BY <2>1, Elsewhere, ScreensStay
<1>2. CASE OnBitmap
  <2>0. /\ UNCHANGED hubVars /\ UNCHANGED <<resizing, acceptor, direct>> /\ ~resizing
        /\ sync \in SyncState /\ in_flight \in BOOLEAN
        /\ mark_dirty(sync) \in SyncState
    BY <1>2, SyncTypes DEF OnBitmap, resizeVars, RInv, LoopShape
  <2>1. CASE CatchUp(mark_dirty(sync), in_flight)
    BY <2>0, <2>1, CatchUpStep
  <2>2. CASE sync' = mark_dirty(sync) /\ UNCHANGED <<in_flight, bulk_send, troubles>>
    BY <2>0, <2>2, ScreensStay DEF RInv, LoopShape, NothingOwed, ResizeInStep, StartsNothing
  <2>3. CASE NoCatchUp
    BY <2>0, <2>3, Elsewhere, ScreensStay DEF NoCatchUp
  <2>4. QED
    BY <1>2, <2>1, <2>2, <2>3 DEF OnBitmap
<1>3. CASE BeginResize
  <2>1. /\ UNCHANGED hubVars /\ UNCHANGED <<in_flight, bulk_send, direct>> /\ direct = <<>>
        /\ ~resizing /\ resizing' = TRUE /\ acceptor' = "WaitConfirmActive" /\ sync' = reset
    BY <1>3 DEF BeginResize, Idle
  <2>2. reset \in SyncState /\ ~reset.pending_resync
    BY DEF reset, SyncState
  <2>3. QED
    BY <2>1, <2>2, ScreensStay DEF RInv, LoopShape, NothingOwed, ResizeInStep, StartsNothing
<1>4. QED
  BY <1>1, <1>2, <1>3 DEF OnUpdate

LEMMA SlowPathKeeps ==
    ASSUME RInv, OnSlowPath
    PROVE  RInv' /\ StartsNothing
<1>0. UNCHANGED hubVars /\ UNCHANGED <<sync, in_flight, bulk_send>> /\ Screens'
  BY ScreensStay DEF OnSlowPath, SuppressOutput, RefreshRect, PassedOver, on_confirm_active,
                     on_finalization, ReadPdu, NoCatchUp
<1>1. CASE PassedOver
  BY <1>0, <1>1, Elsewhere DEF PassedOver, resizeVars
<1>2. CASE SuppressOutput \/ RefreshRect
  <2>1. ~resizing /\ UNCHANGED <<resizing, acceptor>>
    BY <1>2 DEF SuppressOutput, RefreshRect, resizeVars
  <2>2. QED
    BY <1>0, <2>1 DEF RInv, LoopShape, NothingOwed, ResizeInStep, StartsNothing
<1>3. CASE on_confirm_active
  <2>1. /\ acceptor = "WaitConfirmActive" /\ acceptor' = "WaitFinalization" /\ resizing
        /\ UNCHANGED <<resizing, direct>>
    BY <1>3 DEF on_confirm_active
  <2>2. Len(bulk_send) \in Nat
    BY DEF RInv, LoopShape
  <2>3. QED
    BY <1>0, <2>1, <2>2 DEF RInv, LoopShape, NothingOwed, ResizeInStep, StartsNothing
<1>4. CASE on_finalization
  <2>1. resizing' = FALSE /\ acceptor' = "Accepted"
    BY <1>4 DEF on_finalization
  <2>2. QED
    BY <1>0, <2>1 DEF RInv, LoopShape, NothingOwed, ResizeInStep, StartsNothing
<1>5. QED
  BY <1>1, <1>2, <1>3, <1>4 DEF OnSlowPath

LEMMA NextRInv == RInv /\ [SessionNext]_sessionVars => RInv' /\ StartsNothing
<1> SUFFICES ASSUME RInv, [SessionNext]_sessionVars
             PROVE  RInv' /\ StartsNothing
  OBVIOUS
<1>1. CASE UNCHANGED sessionVars
  <2>1. UNCHANGED hubVars /\ UNCHANGED <<sync, resizing, acceptor, in_flight, bulk_send, direct>>
    BY <1>1 DEF sessionVars, resizeVars
  <2>2. QED
    BY <2>1, Elsewhere, ScreensStay
<1>2. QED
  BY <1>1, HostKeeps, ClientKeeps, SendsKeep, LoopKeeps, UpdatesKeep, SlowPathKeeps
  DEF SessionNext

LEMMA InitRInv == SessionInit => RInv
<1> SUFFICES ASSUME SessionInit
             PROVE  RInv
  OBVIOUS
<1>1. Screens
  <2>1. PICK n \in Sizes : screen \in FrameOf(n)
    BY DEF SessionInit, HubInit
  <2>2. n \in 1 .. MaxSize
    BY HubAssumption
  <2>3. QED
    BY <2>1, <2>2 DEF SessionInit, HubInit, Screens, AnyFrame
<1>2. sync \in SyncState
  BY DEF SessionInit, reset, SyncState
<1>3. <<>> \in Seq({})
  OBVIOUS
<1>4. QED
  BY <1>1, <1>2, <1>3 DEF SessionInit, RInv, LoopShape, NothingOwed, ResizeInStep

\* A resize of the session loop excludes everything it must: the flag and the
\* acceptor stay in step, so begin_resize is never refused and no finished
\* acceptor is fed, and neither gate, ticker nor the end of an earlier send
\* starts a bitmap before the reactivation is through.
THEOREM AResizeIsExclusive == SessionSpec => ResizeExclusive
<1>1. SessionSpec => []RInv
  <2>1. RInv /\ [SessionNext]_sessionVars => RInv'
    BY NextRInv
  <2>2. QED
    BY <2>1, InitRInv, PTL DEF SessionSpec
<1>2. RInv => ResizeInStep
  BY DEF RInv
<1>3. RInv /\ [SessionNext]_sessionVars
        => [resizing /\ resizing' =>
               /\ in_flight' => in_flight
               /\ Len(bulk_send') <= Len(bulk_send)
               /\ direct' = direct]_sessionVars
  BY NextRInv DEF StartsNothing
<1>4. QED
  BY <1>1, <1>2, <1>3, PTL DEF SessionSpec, ResizeExclusive, NothingStartedWhileResizing
=============================================================================
