------------------------------- MODULE Session -------------------------------
(***************************************************************************)
(* How the client's screen follows the host's: the steady-state loop of    *)
(* one connection (crates/rdpcore-server/src/server/session_loop.rs) with  *)
(* its display subscription, the catch-up record of module BitmapSync, the *)
(* spawned bulk send, the client, and the resize handshake of the          *)
(* acceptor (crates/rdpcore-connector/src/lib.rs).                         *)
(*                                                                         *)
(* The loop handles one event at a time. Within a handler it awaits diffs  *)
(* and encodes, but reads latest_full and the socket's backlog once, so a  *)
(* handler is one step, except for the sends it does itself: those wait    *)
(* for room frame by frame while the spawned bulk send goes on. The select *)
(* is biased, but which events are ready is a matter of timing, so any     *)
(* event that can be ready is handled.                                     *)
(*                                                                         *)
(* The outgoing half is seen as module FrameStream promises: graphics are  *)
(* Bulk frames of the I/O channel, in order; the acceptor's answers are    *)
(* Latency frames. deferred_bitmap is never set in the loop and left out.  *)
(* The RDPEGFX path is left out, except that it can skip a frame. An       *)
(* update is the frames of its tiles.                                      *)
(***************************************************************************)
EXTENDS DisplayHub

CONSTANTS
    Blank,          \* a tile the client has not been sent
    BulkRoom        \* bound: graphics frames between the session and the client

ASSUME SessionAssumption ==
    /\ Blank \notin Val
    /\ BulkRoom \in Nat \ {0}

VARIABLES
    sync,
    bitmap_gate_open,
    display_updates_allowed,
    resizing, resize_desktop, pending_after_resize,
    acceptor,           \* the state of the connection sequence
    in_flight,          \* a bulk_send task exists
    bulk_send,          \* the frames it has still to enqueue
    direct,             \* the frames the loop itself is enqueueing
    graphics,           \* Bulk frames on their way to the client
    control,            \* sizes announced by Demand Active, on their way
    inbound,            \* slow-path PDUs of the client, on their way
    canvas,             \* the client's screen
    backlog_high,
    lapses              \* history: what has happened that the catch-up
                        \* record knows nothing of

loopVars   == <<bitmap_gate_open, display_updates_allowed>>
resizeVars == <<resizing, resize_desktop, pending_after_resize, acceptor>>
clientVars == <<graphics, control, inbound, canvas>>
envVars    == <<backlog_high, troubles>>
sessionVars ==
    <<hubVars, recvVars, sync, loopVars, resizeVars, in_flight, bulk_send,
      direct, clientVars, envVars, lapses>>

SessionInit ==
    /\ HubInit
    /\ sync = reset
    /\ bitmap_gate_open \in BOOLEAN
    /\ display_updates_allowed = TRUE
    /\ resizing = FALSE
    /\ resize_desktop = negotiated_size    \* as the handshake announced it
    /\ pending_after_resize = NoBitmap
    /\ acceptor = "Accepted"
    /\ in_flight = FALSE /\ bulk_send = <<>> /\ direct = <<>>
    /\ graphics = <<>> /\ control = <<>> /\ inbound = <<>>
    /\ canvas = [t \in 1 .. negotiated_size |-> Blank]
    /\ backlog_high = FALSE
    /\ lapses = {}

\* The loop is entered once it has its updates, and waits in select.
Idle == subscribed = "open" /\ direct = <<>>

-----------------------------------------------------------------------------
\* Sending.

\* The frames of an update: its tiles in order.
encode_outbound_bitmap(bitmap) ==
    LET first == CHOOSE t \in bitmap.tiles : \A u \in bitmap.tiles : t <= u
    IN  [k \in 1 .. Cardinality(bitmap.tiles) |->
            [tile |-> first + k - 1, val |-> bitmap.data[first + k - 1]]]

HasRoom == Len(graphics) < BulkRoom

\* The bulk_send task enqueues its next frame.
BulkSend ==
    /\ bulk_send # <<>> /\ HasRoom
    /\ graphics' = Append(graphics, Head(bulk_send))
    /\ bulk_send' = Tail(bulk_send)
    /\ UNCHANGED <<hubVars, recvVars, sync, loopVars, resizeVars, in_flight,
                   direct, control, inbound, canvas, envVars, lapses>>

\* The loop enqueues the next frame of an update it sends itself.
DirectSend ==
    /\ direct # <<>> /\ HasRoom
    /\ graphics' = Append(graphics, Head(direct))
    /\ direct' = Tail(direct)
    /\ UNCHANGED <<hubVars, recvVars, sync, loopVars, resizeVars, in_flight,
                   bulk_send, control, inbound, canvas, envVars, lapses>>

-----------------------------------------------------------------------------
\* Catch-up. s is the record as take_catchup finds it, busy whether a bulk
\* send is in flight then.

NothingToPump(s, busy) ==
    /\ PendingBitmap(s, latest_full) = NoBitmap
    /\ sync' = take_pending(s, latest_full)
    /\ in_flight' = busy
    /\ UNCHANGED <<bulk_send, troubles>>

\* A high backlog in the kernel counts like a send in flight.
DeferPump(s, busy) ==
    /\ PendingBitmap(s, latest_full) # NoBitmap
    /\ busy \/ backlog_high
    /\ sync' = defer(take_pending(s, latest_full))
    /\ in_flight' = busy
    /\ UNCHANGED <<bulk_send, troubles>>

Confirmed(s, bitmap, queued) ==
    LET taken == take_pending(s, latest_full)
    IN  confirm_send(take_resync_target(taken), queued, taken.resync_target,
                     IF covers_desktop(bitmap, resize_desktop)
                     THEN bitmap.data ELSE NoFrame)

Pump(s, busy) ==
    LET bitmap == PendingBitmap(s, latest_full)
    IN  /\ bitmap # NoBitmap
        /\ ~busy /\ ~backlog_high
        /\ bulk_send' = encode_outbound_bitmap(bitmap)
        /\ in_flight' = TRUE
        /\ sync' = Confirmed(s, bitmap, TRUE)
        /\ UNCHANGED troubles

\* The graphics encoder takes the frame and has nothing to send.
SoftSkip(s, busy) ==
    LET bitmap == PendingBitmap(s, latest_full)
    IN  /\ bitmap # NoBitmap
        /\ ~busy /\ ~backlog_high
        /\ troubles < MaxTroubles
        /\ troubles' = troubles + 1
        /\ sync' = Confirmed(s, bitmap, FALSE)
        /\ in_flight' = FALSE
        /\ UNCHANGED bulk_send

CatchUp(s, busy) ==
    \/ NothingToPump(s, busy)
    \/ DeferPump(s, busy)
    \/ Pump(s, busy)
    \/ SoftSkip(s, busy)

NoCatchUp == UNCHANGED <<sync, in_flight, bulk_send, troubles>>

-----------------------------------------------------------------------------
\* The events of the loop.

JoinBulkSend ==
    /\ Idle
    /\ in_flight /\ bulk_send = <<>>
    /\ IF display_updates_allowed /\ bitmap_gate_open
       THEN CatchUp(sync, FALSE)
       ELSE in_flight' = FALSE /\ UNCHANGED <<sync, bulk_send, troubles>>
    /\ UNCHANGED <<hubVars, recvVars, loopVars, resizeVars, direct,
                   clientVars, backlog_high, lapses>>

GateOpens ==
    /\ Idle
    /\ ~bitmap_gate_open
    /\ bitmap_gate_open' = TRUE
    /\ IF display_updates_allowed THEN CatchUp(sync, in_flight) ELSE NoCatchUp
    /\ UNCHANGED <<hubVars, recvVars, display_updates_allowed, resizeVars,
                   direct, clientVars, backlog_high, lapses>>

\* Mistake: a catch-up is only retried while a send is in flight.
CatchupTickWhileSending ==
    /\ Idle
    /\ in_flight
    /\ display_updates_allowed /\ bitmap_gate_open
    /\ sync.pending_resync
    /\ CatchUp(sync, in_flight)
    /\ UNCHANGED <<hubVars, recvVars, loopVars, resizeVars, direct,
                   clientVars, backlog_high, lapses>>

CatchupTick ==
    /\ Idle
    /\ ~in_flight
    /\ display_updates_allowed /\ bitmap_gate_open
    /\ sync.pending_resync
    /\ CatchUp(sync, FALSE)
    /\ UNCHANGED <<hubVars, recvVars, loopVars, resizeVars, direct,
                   clientVars, backlog_high, lapses>>

OnBitmapWhileResizing ==
    /\ Idle
    /\ NextUpdate.type = "Bitmap" /\ next_update
    /\ resizing
    /\ pending_after_resize' =
           retain_bitmap_during_resize(pending_after_resize, NextUpdate.bitmap,
                                       resize_desktop)
    /\ lapses' = lapses \cup IF pending_after_resize'.data = NextUpdate.bitmap.data
                             THEN {} ELSE {"retained"}
    /\ NoCatchUp
    /\ UNCHANGED <<hubVars, loopVars, resizing, resize_desktop, acceptor,
                   direct, clientVars, backlog_high>>

\* A dirty rectangle is only a wake-up; behind the closed gate it is noted,
\* with the output suppressed it is ignored.
OnBitmap ==
    /\ Idle
    /\ NextUpdate.type = "Bitmap" /\ next_update
    /\ ~resizing
    /\ IF ~bitmap_gate_open
       THEN sync' = mark_dirty(sync) /\ UNCHANGED <<in_flight, bulk_send, troubles>>
       ELSE IF display_updates_allowed
       THEN CatchUp(mark_dirty(sync), in_flight)
       ELSE NoCatchUp
    /\ lapses' = lapses \ {"frame", "retained", "overtaken"}
    /\ UNCHANGED <<hubVars, loopVars, resizeVars, direct, clientVars,
                   backlog_high>>

\* Mistake: what was owed to the old desktop is still owed.
BeginResizeKeepsPending ==
    /\ Idle
    /\ NextUpdate.type = "Resized" /\ next_update
    /\ ~resizing /\ acceptor = "Accepted"
    /\ acceptor' = "WaitConfirmActive"
    /\ resizing' = TRUE
    /\ resize_desktop' = NextUpdate.size
    /\ pending_after_resize' = NoBitmap
    /\ control' = Append(control, NextUpdate.size)
    /\ UNCHANGED <<hubVars, loopVars, sync, in_flight, bulk_send, direct,
                   graphics, inbound, canvas, envVars, lapses>>

\* begin_resize answers with Deactivate-All and Demand Active.
BeginResize ==
    /\ Idle
    /\ NextUpdate.type = "Resized" /\ next_update
    /\ ~resizing /\ acceptor = "Accepted"
    /\ acceptor' = "WaitConfirmActive"
    /\ resizing' = TRUE
    /\ resize_desktop' = NextUpdate.size
    /\ pending_after_resize' = NoBitmap
    /\ sync' = reset
    /\ control' = Append(control, NextUpdate.size)
    /\ lapses' = {}
    /\ UNCHANGED <<hubVars, loopVars, in_flight, bulk_send, direct, graphics,
                   inbound, canvas, envVars>>

DropResize ==
    /\ Idle
    /\ NextUpdate.type = "Resized" /\ next_update
    /\ resizing
    /\ NoCatchUp
    /\ UNCHANGED <<hubVars, loopVars, resizeVars, direct, clientVars,
                   backlog_high, lapses>>

-----------------------------------------------------------------------------
\* Slow-path PDUs. A handler that has an update to send does it itself.

PDU(type, allow, tiles) == [type |-> type, allow |-> allow, tiles |-> tiles]
ConfirmActive == PDU("ConfirmActive", TRUE, {})
FontList      == PDU("FontList", TRUE, {})

ReadPdu(type) ==
    /\ Idle
    /\ inbound # <<>>
    /\ Head(inbound).type = type
    /\ inbound' = Tail(inbound)
    /\ NoCatchUp
    /\ UNCHANGED <<hubVars, recvVars, bitmap_gate_open, graphics, control,
                   canvas, backlog_high>>

\* The catch-up record knows nothing of an update a handler sends, which
\* matters when it shows another frame than the record stands for.
Unrecorded(frames) ==
    IF /\ frames # <<>>
       /\ sync.last_synced_full # latest_full
       /\ sync.last_synced_full # NoFrame \/ bulk_send # <<>>
    THEN {"unrecorded"} ELSE {}

\* Output allowed again: the client gets the whole desktop.
SuppressOutput ==
    /\ ReadPdu("SuppressOutput")
    /\ ~resizing
    /\ LET allow == Head(inbound).allow
       IN  /\ display_updates_allowed' = allow
           /\ direct' = IF allow /\ ~display_updates_allowed
                           /\ latest_full # NoFrame
                        THEN encode_outbound_bitmap(full(latest_full))
                        ELSE <<>>
    /\ lapses' = lapses \cup Unrecorded(direct')
    /\ UNCHANGED resizeVars

RefreshRect ==
    /\ ReadPdu("RefreshRect")
    /\ ~resizing
    /\ direct' = IF latest_full # NoFrame
                 THEN encode_outbound_bitmap(
                          sub(latest_full, Head(inbound).tiles))
                 ELSE <<>>
    /\ lapses' = lapses \cup Unrecorded(direct')
    /\ UNCHANGED <<display_updates_allowed, resizeVars>>

\* While resizing, the acceptor gets every slow-path PDU and passes over what
\* does not belong to the connection sequence.
PassedOver ==
    /\ resizing
    /\ \/ ReadPdu("SuppressOutput")
       \/ ReadPdu("RefreshRect")
    /\ UNCHANGED <<display_updates_allowed, resizeVars, direct, lapses>>

on_confirm_active ==
    /\ ReadPdu("ConfirmActive")
    /\ resizing /\ acceptor = "WaitConfirmActive"
    /\ acceptor' = "WaitFinalization"
    /\ UNCHANGED <<display_updates_allowed, resizing, resize_desktop,
                   pending_after_resize, direct, lapses>>

\* The Font List completes the sequence; what was retained is sent, unless
\* output is suppressed. A bulk send of before the resize may still go on.
on_finalization ==
    /\ ReadPdu("FontList")
    /\ resizing /\ acceptor = "WaitFinalization"
    /\ acceptor' = "Accepted"
    /\ resizing' = FALSE
    /\ pending_after_resize' = NoBitmap
    /\ direct' = IF display_updates_allowed
                 THEN encode_outbound_bitmap(pending_after_resize)
                 ELSE <<>>
    /\ lapses' = lapses \cup IF direct' # <<>> /\ bulk_send # <<>>
                             THEN {"overtaken"} ELSE {}
    /\ UNCHANGED <<display_updates_allowed, resize_desktop>>

-----------------------------------------------------------------------------
\* The client, and the socket.

ClientPaints ==
    /\ graphics # <<>>
    /\ graphics' = Tail(graphics)
    /\ canvas' = IF Head(graphics).tile \in DOMAIN canvas
                 THEN [canvas EXCEPT ![Head(graphics).tile] = Head(graphics).val]
                 ELSE canvas
    /\ UNCHANGED <<hubVars, recvVars, sync, loopVars, resizeVars, in_flight,
                   bulk_send, direct, control, inbound, envVars, lapses>>

\* A Demand Active after Deactivate-All: a new, blank canvas.
ClientReactivates ==
    /\ control # <<>>
    /\ control' = Tail(control)
    /\ canvas' = [t \in 1 .. Head(control) |-> Blank]
    /\ inbound' = inbound \o <<ConfirmActive, FontList>>
    /\ UNCHANGED <<hubVars, recvVars, sync, loopVars, resizeVars, in_flight,
                   bulk_send, direct, graphics, envVars, lapses>>

Requests ==
    {PDU("SuppressOutput", allow, {}) : allow \in BOOLEAN}
      \cup {PDU("RefreshRect", TRUE, Box({a, b})) : a, b \in 1 .. MaxSize}

ClientRequests(pdu) ==
    /\ troubles < MaxTroubles
    /\ troubles' = troubles + 1
    /\ inbound' = Append(inbound, pdu)
    /\ UNCHANGED <<hubVars, recvVars, sync, loopVars, resizeVars, in_flight,
                   bulk_send, direct, graphics, control, canvas, backlog_high,
                   lapses>>

BacklogRises ==
    /\ ~backlog_high /\ troubles < MaxTroubles
    /\ backlog_high' = TRUE
    /\ troubles' = troubles + 1
    /\ UNCHANGED <<hubVars, recvVars, sync, loopVars, resizeVars, in_flight,
                   bulk_send, direct, clientVars, lapses>>

BacklogClears ==
    /\ backlog_high
    /\ backlog_high' = FALSE
    /\ UNCHANGED <<hubVars, recvVars, sync, loopVars, resizeVars, in_flight,
                   bulk_send, direct, clientVars, troubles, lapses>>

sessionOnlyVars == <<sync, loopVars, resizeVars, in_flight, bulk_send, direct,
                     clientVars, backlog_high, lapses>>

HostSteps == Host /\ UNCHANGED sessionOnlyVars
HubSteps  == Capture /\ UNCHANGED sessionOnlyVars

\* What can be broadcast between the handshake, which read the desktop's size,
\* or the copy of latest_full, and the opening of the receiver: the first
\* frame, a new size.
Missed ==
    {what \in {"frame", "size"} :
        \/ /\ what = "frame"
           /\ initial = NoFrame /\ latest_full # NoFrame /\ sending = Nothing
        \/ /\ what = "size"
           /\ resize_desktop # negotiated_size /\ sending.type # "Resized"}

Connects ==
    /\ subscribe
    /\ lapses' = IF subscribed' = "open" THEN Missed ELSE {}
    /\ UNCHANGED <<sync, loopVars, resizeVars, in_flight, bulk_send, direct,
                   clientVars, backlog_high>>

OnUpdate == OnBitmapWhileResizing \/ OnBitmap \/ BeginResize \/ DropResize

OnSlowPath == SuppressOutput \/ RefreshRect \/ PassedOver
              \/ on_confirm_active \/ on_finalization

Client == ClientPaints \/ ClientReactivates

SessionNext ==
    \/ HostSteps
    \/ HubSteps
    \/ Connects
    \/ BulkSend \/ DirectSend
    \/ JoinBulkSend \/ GateOpens \/ CatchupTick
    \/ OnUpdate \/ OnSlowPath
    \/ Client
    \/ \E pdu \in Requests : ClientRequests(pdu)
    \/ BacklogRises \/ BacklogClears

SessionSpec == SessionInit /\ [][SessionNext]_sessionVars

\* Capture ticks for ever; spawned tasks and the loop keep being polled, and
\* the biased select reaches its last branch because the earlier ones are not
\* ready for ever; the client reads, so the kernel's backlog drains.
SessionFairness ==
    /\ WF_sessionVars(HubSteps)
    /\ WF_sessionVars(Connects)
    /\ WF_sessionVars(BulkSend)
    /\ WF_sessionVars(DirectSend)
    /\ WF_sessionVars(JoinBulkSend)
    /\ WF_sessionVars(GateOpens)
    /\ WF_sessionVars(CatchupTick)
    /\ WF_sessionVars(OnUpdate)
    /\ WF_sessionVars(OnSlowPath)
    /\ WF_sessionVars(Client)
    /\ WF_sessionVars(BacklogClears)

FairSessionSpec == SessionSpec /\ SessionFairness

\* For model checking: contents can be renamed, so it is enough to look at the
\* behaviours that start with one content in the first tile.
SessionInitUpToContents == SessionInit /\ screen[1] = CHOOSE v \in Val : TRUE

FairSessionSpecUpToContents ==
    SessionInitUpToContents /\ [][SessionNext]_sessionVars /\ SessionFairness

-----------------------------------------------------------------------------
\* Properties.

WireFrame == [tile : 1 .. MaxSize, val : Val]

SessionTypeOK ==
    /\ screen \in AnyFrame
    /\ latest_full \in AnyFrame \cup {NoFrame}
    /\ initial \in AnyFrame \cup {NoFrame}
    /\ \A k \in DOMAIN rx : rx[k] \in DisplayUpdate
    /\ Len(rx) <= BROADCAST_CAPACITY
    /\ sync \in SyncState
    /\ {bitmap_gate_open, display_updates_allowed, resizing, in_flight,
        lagged, backlog_high} \subseteq BOOLEAN
    /\ resize_desktop \in Sizes /\ negotiated_size \in Sizes
    /\ pending_after_resize \in AnyBitmap
    /\ acceptor \in {"Accepted", "WaitConfirmActive", "WaitFinalization"}
    /\ bulk_send \in Seq(WireFrame) /\ direct \in Seq(WireFrame)
    /\ graphics \in Seq(WireFrame) /\ Len(graphics) <= BulkRoom
    /\ canvas \in Seq(Val \cup {Blank})

\* What the client will show once it has painted the given frames.
Painted(frames) ==
    [t \in DOMAIN canvas |->
        LET paints == {k \in DOMAIN frames : frames[k].tile = t}
        IN  IF paints = {} THEN canvas[t]
            ELSE frames[CHOOSE k \in paints : \A j \in paints : j <= k].val]

\* last_synced_full is "the last full-desktop frame this session is confirmed
\* to have sent in its entirety": with what is still on its way painted, the
\* client shows exactly that frame, although what is sent is only the box of
\* the differences between two frames, and some sends are deferred or skipped.
\* The updates a handler sends by itself are not in it, see Unrecorded.
BaselineHonest ==
    /\ sync.last_synced_full # NoFrame
    /\ Len(sync.last_synced_full) = resize_desktop
    /\ "unrecorded" \notin lapses
    => Painted(graphics \o bulk_send \o direct) = sync.last_synced_full

Quiet ==
    /\ latest_full = screen /\ sending = Nothing
    /\ NextUpdate = Nothing
    /\ Idle /\ ~in_flight /\ ~resizing
    /\ graphics = <<>> /\ control = <<>> /\ inbound = <<>>
    /\ bitmap_gate_open /\ display_updates_allowed
    /\ ~sync.pending_resync

\* The client has been told the host's size, and none of the known lapses has
\* happened since: no update was broadcast before the receiver was open, no
\* partial update was dropped for a retained frame, no update a handler sends
\* crossed a bulk send or was left out of the record.
Followed == resize_desktop = negotiated_size /\ lapses = {}

\* The catch-up policy "keeps a display update this session couldn't act on
\* right away from leaving stale pixels on screen indefinitely": when nothing
\* is on its way and nothing is owed, the client shows what the host shows.
NoStalePixels == Quiet /\ Followed => canvas = screen

\* What the session keeps true of the client's screen: the baseline its diffs
\* start from is what the client will show, and no pixel is left stale at rest.
ScreenTracked == SessionTypeOK /\ BaselineHonest /\ NoStalePixels

\* The same as progress: once the host's screen stays as it is, the client's
\* comes to show it and stays so, whatever was deferred behind the gate, a
\* send in flight, a full kernel buffer or a lag of the broadcast channel.
ClientCatchesUp ==
    <>[](Followed /\ display_updates_allowed => canvas = screen)

\* The resizing flag of the loop and the acceptor agree, so begin_resize is
\* never refused and the loop never feeds a finished acceptor.
ResizeInStep == resizing <=> acceptor # "Accepted"

\* Between Deactivate-All and the end of the reactivation the loop starts no
\* bitmap: neither the gate, the ticker nor the end of an earlier send finds
\* anything owed.
NothingStartedWhileResizing ==
    [][resizing /\ resizing' =>
          /\ in_flight' => in_flight
          /\ Len(bulk_send') <= Len(bulk_send)
          /\ direct' = direct]_sessionVars

\* A resize of the session loop, as a whole: flag and acceptor stay in step, and
\* nothing is painted between Deactivate-All and the new Font List.
ResizeExclusive == []ResizeInStep /\ NothingStartedWhileResizing

\* A change of the desktop's size is announced "so the client's view follows":
\* a client that had the host's size when its receiver opened has it whenever
\* all is quiet.
ViewFollows ==
    Quiet /\ "size" \notin lapses => resize_desktop = negotiated_size

\* latest_full is kept "so a late or lagged subscriber can paint a consistent
\* canvas instead of waiting for the next dirty-rect change": at rest a client
\* that has subscribed, and to which nothing else happened, shows the screen.
LateSubscriberPaints ==
    Quiet /\ resize_desktop = negotiated_size /\ lapses \subseteq {"frame"}
        => canvas = screen

\* "A full frame already covers anything a later partial tile could add": at
\* rest a client whose updates were retained during a resize shows the screen.
RetainedFrameCovers ==
    Quiet /\ resize_desktop = negotiated_size /\ lapses \subseteq {"retained"}
        => canvas = screen
=============================================================================
