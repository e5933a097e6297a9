----------------------------- MODULE BitmapSync -----------------------------
(***************************************************************************)
(* Bitmaps as views into captured frames (display.rs, encode.rs), and the  *)
(* record in which a session keeps what its client has been sent           *)
(* (crates/rdpcore-server/src/server/bitmap_sync.rs).                      *)
(*                                                                         *)
(* A desktop of size n is a row of tiles 1..n and a frame gives each tile  *)
(* its content, so a frame is a sequence. A bitmap is a frame together     *)
(* with the box of tiles it shows.                                         *)
(***************************************************************************)
EXTENDS Integers, Sequences, FiniteSets

CONSTANTS
    Val,        \* what a tile can show
    MaxSize     \* bound: tiles of the largest desktop

FrameOf(n) == [1 .. n -> Val]
AnyFrame   == UNION {FrameOf(n) : n \in 1 .. MaxSize}
NoFrame    == <<>>

AnyBitmap == [tiles : SUBSET (1 .. MaxSize), data : AnyFrame \cup {NoFrame}]
NoBitmap  == [tiles |-> {}, data |-> NoFrame]

-----------------------------------------------------------------------------
\* BitmapUpdate.

Box(S) == {t \in 1 .. MaxSize : (\E a \in S : a <= t) /\ (\E b \in S : t <= b)}

full(frame) == [tiles |-> DOMAIN frame, data |-> frame]

sub(frame, tiles) ==
    IF tiles \subseteq DOMAIN frame THEN [tiles |-> tiles, data |-> frame]
                                    ELSE NoBitmap

\* The box around both, showing the newer frame; frames of different
\* geometry are not mixed.
union(older, newer) ==
    IF Len(older.data) # Len(newer.data) THEN newer
    ELSE [tiles |-> Box(older.tiles \cup newer.tiles), data |-> newer.data]

covers_desktop(bitmap, n) == bitmap.tiles = 1 .. n

\* What is kept while a resize is being negotiated.
retain_bitmap_during_resize(pending, bitmap, n) ==
    IF pending = NoBitmap THEN bitmap
    ELSE IF covers_desktop(pending, n) /\ ~covers_desktop(bitmap, n)
         THEN pending
         ELSE union(pending, bitmap)

Changed(prev, frame) == {t \in DOMAIN frame : prev[t] # frame[t]}

\* The box of what differs from the baseline, or everything when there is no
\* baseline of this geometry.
resync_bitmap(last, frame) ==
    IF last = NoFrame \/ Len(last) # Len(frame) THEN full(frame)
    ELSE IF Changed(last, frame) = {} THEN NoBitmap
    ELSE [tiles |-> Box(Changed(last, frame)), data |-> frame]

-----------------------------------------------------------------------------
\* BitmapSyncState. Each operation maps the record to the next one.

SyncState == [pending_resync   : BOOLEAN,
              last_synced_full : AnyFrame \cup {NoFrame},
              resync_target    : AnyFrame \cup {NoFrame}]

reset == [pending_resync   |-> FALSE,
          last_synced_full |-> NoFrame,
          resync_target    |-> NoFrame]

mark_dirty(s) == [s EXCEPT !.pending_resync = TRUE]

\* The bitmap take_pending returns.
PendingBitmap(s, latest) ==
    IF s.pending_resync /\ latest # NoFrame
    THEN resync_bitmap(s.last_synced_full, latest)
    ELSE NoBitmap

take_pending(s, latest) ==
    [s EXCEPT !.pending_resync = FALSE,
              !.resync_target  = IF PendingBitmap(s, latest) = NoBitmap
                                 THEN @ ELSE latest]

defer(s) == [s EXCEPT !.pending_resync = TRUE, !.resync_target = NoFrame]

take_resync_target(s) == [s EXCEPT !.resync_target = NoFrame]

\* Mistake: the baseline advances whether or not anything was queued.
confirm_sendAlways(s, queued, advance_synced, advance_full) ==
    [s EXCEPT !.last_synced_full = IF advance_synced # NoFrame
                                   THEN advance_synced ELSE advance_full,
              !.pending_resync   = FALSE]

confirm_send(s, queued, advance_synced, advance_full) ==
    IF ~queued
    THEN [s EXCEPT !.pending_resync = @ \/ advance_synced # NoFrame]
    ELSE IF advance_synced # NoFrame
    THEN [s EXCEPT !.last_synced_full = advance_synced,
                   !.pending_resync   = FALSE]
    ELSE IF advance_full # NoFrame
    THEN [s EXCEPT !.last_synced_full = advance_full,
                   !.pending_resync   = FALSE]
    ELSE mark_dirty(s)
=============================================================================
