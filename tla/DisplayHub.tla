----------------------------- MODULE DisplayHub -----------------------------
(***************************************************************************)
(* The capture loop and one subscriber of its broadcast channel            *)
(* (kmsrdp/src/display_hub.rs).                                            *)
(*                                                                         *)
(* The loop publishes a frame in latest_full and broadcasts afterwards, on *)
(* another thread than the session: two steps. Its own copy of the         *)
(* previous frame is always the frame in latest_full, and the size it      *)
(* negotiated the one behind the hub's lock. The channel keeps the last    *)
(* BROADCAST_CAPACITY updates; a receiver that missed some is told so once *)
(* and goes on with the oldest one kept. subscribe is two steps as well:   *)
(* it copies latest_full and opens its receiver afterwards.                *)
(***************************************************************************)
EXTENDS BitmapSync

CONSTANTS
    BROADCAST_CAPACITY,
    FULL_FRAME_DIRTY_RATIO_NUM,
    FULL_FRAME_DIRTY_RATIO_DEN,
    Sizes,          \* the desktop sizes of the host
    MaxChanges,     \* bound: changes of the screen
    MaxTroubles     \* bound: resizes of the host, high backlogs, skipped encodes
                    \* and requests of the client, taken together

ASSUME HubAssumption ==
    /\ BROADCAST_CAPACITY \in Nat \ {0}
    /\ MaxSize \in Nat /\ Sizes \subseteq 1 .. MaxSize /\ Sizes # {}
    /\ {FULL_FRAME_DIRTY_RATIO_NUM, FULL_FRAME_DIRTY_RATIO_DEN,
        MaxChanges, MaxTroubles} \subseteq Nat

VARIABLES
    screen,             \* what the host displays
    changes,            \* how often it changed
    troubles,           \* how often something else happened to the session
    negotiated_size,
    latest_full,        \* NoFrame, or the frame last published
    sending,            \* the update the loop is about to broadcast
    subscribed,         \* "no", "copied" (latest_full is read), "open"
    initial,            \* the subscriber's one-shot full frame
    rx, lagged          \* its place in the channel: what is kept for it, and
                        \* whether it missed something

hubVars  == <<screen, changes, negotiated_size, latest_full, sending>>
recvVars == <<subscribed, initial, rx, lagged>>

Bitmap(bitmap) == [type |-> "Bitmap", bitmap |-> bitmap, size |-> 0]
Resized(n)     == [type |-> "Resized", bitmap |-> NoBitmap, size |-> n]
Nothing        == [type |-> "Nothing", bitmap |-> NoBitmap, size |-> 0]

DisplayUpdate ==
    {Bitmap(b) : b \in AnyBitmap} \cup {Resized(n) : n \in Sizes}

\* A client connects before the first capture or after it.
HubInit ==
    /\ \E n \in Sizes : screen \in FrameOf(n)
    /\ changes = 0 /\ troubles = 0
    /\ negotiated_size = Len(screen)
    /\ latest_full \in {NoFrame, screen}
    /\ sending = Nothing
    /\ subscribed = "no"
    /\ initial = NoFrame
    /\ rx = <<>> /\ lagged = FALSE

-----------------------------------------------------------------------------
ScreenChanges(t, v) ==
    /\ changes < MaxChanges
    /\ screen[t] # v
    /\ screen' = [screen EXCEPT ![t] = v]
    /\ changes' = changes + 1
    /\ UNCHANGED <<troubles, negotiated_size, latest_full, sending, recvVars>>

HostResizes(frame) ==
    /\ troubles < MaxTroubles
    /\ Len(frame) # Len(screen)
    /\ screen' = frame
    /\ troubles' = troubles + 1
    /\ UNCHANGED <<changes, negotiated_size, latest_full, sending, recvVars>>

\* A capture of another size only announces the size.
CaptureResized ==
    /\ sending = Nothing
    /\ Len(screen) # negotiated_size
    /\ negotiated_size' = Len(screen)
    /\ latest_full' = NoFrame
    /\ sending' = Resized(Len(screen))
    /\ UNCHANGED <<screen, changes, troubles, recvVars>>

\* One full-frame rectangle when enough is dirty, or nothing is known.
DirtyTiles ==
    LET dirty == Changed(latest_full, screen)
    IN  IF \/ latest_full = NoFrame
           \/ Cardinality(dirty) * FULL_FRAME_DIRTY_RATIO_DEN
                 >= Len(screen) * FULL_FRAME_DIRTY_RATIO_NUM
        THEN DOMAIN screen
        ELSE Box(dirty)

\* A capture of the known size that differs from the previous one.
CaptureFrame ==
    /\ sending = Nothing
    /\ Len(screen) = negotiated_size
    /\ latest_full # screen
    /\ latest_full' = screen
    /\ sending' = Bitmap(sub(screen, DirtyTiles))
    /\ UNCHANGED <<screen, changes, troubles, negotiated_size, recvVars>>

\* A channel without a receiver drops the update.
Broadcast ==
    /\ sending # Nothing
    /\ IF subscribed # "open"
       THEN UNCHANGED <<rx, lagged>>
       ELSE IF Len(rx) = BROADCAST_CAPACITY
       THEN rx' = Append(Tail(rx), sending) /\ lagged' = TRUE
       ELSE rx' = Append(rx, sending) /\ UNCHANGED lagged
    /\ sending' = Nothing
    /\ UNCHANGED <<screen, changes, troubles, negotiated_size, latest_full,
                   subscribed, initial>>

Host == \/ \E t \in DOMAIN screen, v \in Val : ScreenChanges(t, v)
        \/ \E frame \in AnyFrame : Len(frame) \in Sizes /\ HostResizes(frame)

Capture == CaptureResized \/ CaptureFrame \/ Broadcast

-----------------------------------------------------------------------------
SubscribeCopies ==
    /\ subscribed = "no"
    /\ subscribed' = "copied"
    /\ initial' = latest_full
    /\ UNCHANGED <<hubVars, troubles, rx, lagged>>

SubscribeOpens ==
    /\ subscribed = "copied"
    /\ subscribed' = "open"
    /\ UNCHANGED <<hubVars, troubles, initial, rx, lagged>>

subscribe == SubscribeCopies \/ SubscribeOpens

\* next_update: the one-shot frame; after a lag the latest frame, or, when
\* there is none, whatever is kept; otherwise the next update.
Recovers == lagged /\ latest_full # NoFrame

NextUpdate ==
    IF initial # NoFrame THEN Bitmap(full(initial))
    ELSE IF Recovers THEN Bitmap(full(latest_full))
    ELSE IF rx # <<>> THEN Head(rx)
    ELSE Nothing

next_update ==
    /\ NextUpdate # Nothing
    /\ subscribed = "open" /\ UNCHANGED subscribed
    /\ initial' = NoFrame
    /\ lagged' = (lagged /\ initial # NoFrame)
    /\ rx' = IF initial # NoFrame \/ Recovers THEN rx ELSE Tail(rx)
=============================================================================
