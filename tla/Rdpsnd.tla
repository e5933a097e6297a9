------------------------------- MODULE Rdpsnd -------------------------------
(***************************************************************************)
(* The audio-output channel of one connection                              *)
(* (crates/rdpcore-rdpsnd/src/lib.rs): format negotiation, the window of   *)
(* unacknowledged Wave blocks, and the estimate of how much audio the      *)
(* client still has to play.                                               *)
(*                                                                         *)
(* Time and audio are counted in one unit. Clocks keep their widths: the   *)
(* millisecond clock is taken modulo U32, timestamps on the wire modulo    *)
(* U16, block numbers modulo BLOCKS. The figures that are only logged      *)
(* (best and last confirm RTT, number of receive-acks) are left out.       *)
(***************************************************************************)
EXTENDS Integers, FiniteSets

CONSTANTS
    BLOCKS,                 \* block numbers: 256
    MAX_UNACKED_BLOCKS,     \* 4
    MIN_PLAYBACK_RTT_MS,    \* 40 ms
    MAX_PLAUSIBLE_HOLD_MS,  \* 5000 ms
    TARGET_HOLD_MS,         \* 80 ms
    U16, U32,               \* 2^16 and 2^32
    ChunkMs,                \* how long one Wave block plays
    MaxChunks,              \* bound: blocks one PCM chunk is split into
    MaxClock,               \* bound: how long a behaviour lasts
    MaxHold                 \* bound: the delay a client reports

ASSUME RdpsndAssumption ==
    /\ {MAX_UNACKED_BLOCKS, ChunkMs, MaxChunks, U16, U32} \subseteq Nat \ {0}
    /\ {MIN_PLAYBACK_RTT_MS, MAX_PLAUSIBLE_HOLD_MS, TARGET_HOLD_MS, MaxClock,
        MaxHold} \subseteq Nat
    /\ BLOCKS \in Nat /\ BLOCKS > MAX_UNACKED_BLOCKS /\ U16 <= U32

VARIABLES
    state,              \* WaitFormats, WaitQualityMode, ...
    negotiated,         \* a format was chosen
    started,            \* the backend was told to start
    block_no,
    sent_at_ms, sent_wtimestamp,
    block_pending,      \* the block numbers flagged as sent and unconfirmed
    playback_hold_ms,   \* None until a confirm measured something
    hold_at_ms, sent_ms_at_hold,
    total_sent_ms,
    clock               \* time since the channel was created

rdpsndVars == <<state, negotiated, started, block_no, sent_at_ms,
                sent_wtimestamp, block_pending, playback_hold_ms, hold_at_ms,
                sent_ms_at_hold, total_sent_ms, clock>>

holdVars   == <<playback_hold_ms, hold_at_ms, sent_ms_at_hold>>
sendVars   == <<block_no, sent_at_ms, sent_wtimestamp, total_sent_ms>>
setupVars  == <<state, negotiated, started>>

Block == 0 .. BLOCKS - 1
None  == -1

RdpsndInit ==
    /\ state = "WaitFormats"
    /\ negotiated = FALSE /\ started = FALSE
    /\ block_no = 0
    /\ sent_at_ms = [b \in Block |-> 0]
    /\ sent_wtimestamp = [b \in Block |-> 0]
    /\ block_pending = {}
    /\ playback_hold_ms = None
    /\ hold_at_ms = 0 /\ sent_ms_at_hold = 0 /\ total_sent_ms = 0
    /\ clock = 0

-----------------------------------------------------------------------------
now_ms == clock % U32

saturating_sub(a, b) == IF b > a THEN 0 ELSE a - b
saturating_add(a, b) == IF a + b >= U32 THEN U32 - 1 ELSE a + b

\* The count is returned as a u8.
pending_count == Cardinality(block_pending) % BLOCKS

\* The last measured hold, plus what was sent since then (total is all that
\* was sent), minus the time that has passed.
HoldGiven(total) ==
    IF playback_hold_ms = None THEN 0
    ELSE LET sent == saturating_sub(total, sent_ms_at_hold)
             wall == saturating_sub(now_ms, hold_at_ms)
         IN  saturating_sub(saturating_add(playback_hold_ms, sent), wall)

estimated_hold_ms == HoldGiven(total_sent_ms)

-----------------------------------------------------------------------------
\* Format negotiation. A client of version 6 or later sends its quality mode
\* before training; messages out of sequence are dropped.
OnAudioFormats(common, quality) ==
    /\ state = "WaitFormats"
    /\ negotiated' = common
    /\ state' = IF quality THEN "WaitQualityMode" ELSE "WaitTrainingConfirm"
    /\ UNCHANGED <<started, sendVars, block_pending, holdVars, clock>>

OnQualityMode ==
    /\ state = "WaitQualityMode"
    /\ state' = "WaitTrainingConfirm"
    /\ UNCHANGED <<negotiated, started, sendVars, block_pending, holdVars,
                   clock>>

OnTrainingConfirm ==
    /\ state = "WaitTrainingConfirm"
    /\ started' = negotiated
    /\ state' = "Ready"
    /\ UNCHANGED <<negotiated, sendVars, block_pending, holdVars, clock>>

-----------------------------------------------------------------------------
note_playback_hold(rtt) ==
    /\ playback_hold_ms' = rtt
    /\ hold_at_ms' = now_ms
    /\ sent_ms_at_hold' = total_sent_ms

\* The delay a confirm reports: its timestamp against the one sent.
HoldOf(b, timestamp) == (timestamp - sent_wtimestamp[b]) % U16

Larger(a, b) == IF a > b THEN a ELSE b

\* How long the confirmed block was outstanding: wall time, or the client's
\* figure when that is plausible and larger.
RttOf(b, timestamp) ==
    LET wall == saturating_sub(now_ms, sent_at_ms[b])
        hold == HoldOf(b, timestamp)
    IN  IF hold <= MAX_PLAUSIBLE_HOLD_MS THEN Larger(wall, hold) ELSE wall

\* The first confirm of a block frees it. A fast one only acknowledges that
\* the block arrived and leaves the measured hold alone.
ConfirmPending(b, timestamp) ==
    /\ b \in block_pending
    /\ block_pending' = block_pending \ {b}
    /\ IF RttOf(b, timestamp) >= MIN_PLAYBACK_RTT_MS
       THEN note_playback_hold(RttOf(b, timestamp))
       ELSE UNCHANGED holdVars
    /\ UNCHANGED <<setupVars, sendVars, clock>>

\* A second confirm of a block carries the client's render latency.
ConfirmAgain(b, timestamp) ==
    /\ b \notin block_pending
    /\ LET hold == HoldOf(b, timestamp)
       IN  IF hold <= MAX_PLAUSIBLE_HOLD_MS /\ hold >= MIN_PLAYBACK_RTT_MS
           THEN note_playback_hold(hold)
           ELSE UNCHANGED holdVars
    /\ UNCHANGED <<setupVars, sendVars, block_pending, clock>>

on_wave_confirm(b, timestamp) ==
    ConfirmPending(b, timestamp) \/ ConfirmAgain(b, timestamp)

-----------------------------------------------------------------------------
\* The n block numbers from block_no on, wrapping.
NextBlocks(n) == {(block_no + k) % BLOCKS : k \in 0 .. n - 1}

\* should_skip_send as the chunk loop sees it once n blocks of the current
\* PCM chunk are noted as sent.
should_skip_send(n) ==
    \/ Cardinality(block_pending \cup NextBlocks(n)) % BLOCKS
          >= MAX_UNACKED_BLOCKS
    \/ HoldGiven(saturating_add(total_sent_ms, n * ChunkMs)) > TARGET_HOLD_MS

\* Mistake: the window is looked at once, before the first block.
BlocksSentCheckedOnce(chunks) ==
    IF should_skip_send(0) THEN 0 ELSE chunks

\* How many of the chunks go out: the loop stops at the first refusal.
BlocksSent(chunks) ==
    CHOOSE n \in 0 .. chunks :
        /\ \A k \in 0 .. n - 1 : ~should_skip_send(k)
        /\ n < chunks => should_skip_send(n)

note_send(n) ==
    /\ sent_at_ms' = [b \in Block |->
           IF b \in NextBlocks(n) THEN now_ms ELSE sent_at_ms[b]]
    /\ sent_wtimestamp' = [b \in Block |->
           IF b \in NextBlocks(n) THEN now_ms % U16 ELSE sent_wtimestamp[b]]
    /\ block_pending' = block_pending \cup NextBlocks(n)
    /\ total_sent_ms' = saturating_add(total_sent_ms, n * ChunkMs)
    /\ block_no' = (block_no + n) % BLOCKS

MayEncode == state = "Ready" /\ negotiated

\* encode_wave: the PCM is dropped unless the channel is ready and the window
\* and the estimate allow at least one block.
encode_wave(chunks) ==
    /\ MayEncode /\ BlocksSent(chunks) > 0
    /\ note_send(BlocksSent(chunks))
    /\ UNCHANGED <<setupVars, holdVars, clock>>

Skipped(chunks) == ~MayEncode \/ BlocksSent(chunks) = 0

Tick ==
    /\ clock < MaxClock
    /\ clock' = clock + 1
    /\ UNCHANGED <<setupVars, sendVars, block_pending, holdVars>>

-----------------------------------------------------------------------------
\* Any client: it may confirm any block number, also one it confirmed before,
\* with any delay up to MaxHold.
RdpsndNext ==
    \/ \E common, quality \in BOOLEAN : OnAudioFormats(common, quality)
    \/ OnQualityMode
    \/ OnTrainingConfirm
    \/ \E b \in Block, hold \in 0 .. MaxHold :
          on_wave_confirm(b, (sent_wtimestamp[b] + hold) % U16)
    \/ \E chunks \in 1 .. MaxChunks : encode_wave(chunks)
    \/ Tick

RdpsndSpec == RdpsndInit /\ [][RdpsndNext]_rdpsndVars

-----------------------------------------------------------------------------
RdpsndTypeOK ==
    /\ state \in {"WaitFormats", "WaitQualityMode", "WaitTrainingConfirm",
                  "Ready"}
    /\ negotiated \in BOOLEAN /\ started \in BOOLEAN
    /\ block_no \in Block
    /\ sent_at_ms \in [Block -> 0 .. U32 - 1]
    /\ sent_wtimestamp \in [Block -> 0 .. U16 - 1]
    /\ block_pending \subseteq Block
    /\ playback_hold_ms \in {None} \cup 0 .. U32 - 1
    /\ {hold_at_ms, sent_ms_at_hold, total_sent_ms} \subseteq 0 .. U32 - 1
    /\ clock \in Nat

\* However a PCM chunk is split and whichever blocks are confirmed, no more
\* than MAX_UNACKED_BLOCKS are unacknowledged, so the u8 count never wraps.
WindowHolds == Cardinality(block_pending) <= MAX_UNACKED_BLOCKS

\* Sending never pushes the estimate of the client's play queue further than
\* one block past the target, or past what the client itself reported.
QueueNotFed ==
    estimated_hold_ms <=
        Larger(playback_hold_ms, TARGET_HOLD_MS + ChunkMs)

\* A fast confirm, which only says that a block arrived, never replaces the
\* measured hold: the recorded hold is never below MIN_PLAYBACK_RTT_MS.
ReceiveAcksDoNotMeasure ==
    playback_hold_ms # None => playback_hold_ms >= MIN_PLAYBACK_RTT_MS

\* What holds of the audio window whatever the client confirms: numbers and
\* times keep their width, no more blocks are out than the window allows, the
\* play queue is not fed beyond its target, and receive-acks do not measure.
AudioWindowSafe ==
    RdpsndTypeOK /\ WindowHolds /\ QueueNotFed /\ ReceiveAcksDoNotMeasure
=============================================================================
