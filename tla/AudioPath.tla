----------------------------- MODULE AudioPath -----------------------------
(***************************************************************************)
(* Audio from the capture thread to the client's speaker and back: the     *)
(* latest-wins slot between capture and the connection's audio task        *)
(* (WavePublisher and WaveSubscriber), the audio task of session_loop.rs,  *)
(* the channel of module Rdpsnd behind its mutex, the writer's live slot,  *)
(* the network, and the client, whose confirms the session loop reads.     *)
(*                                                                         *)
(* The writer appears as FrameStream promises it: a wave in the live slot  *)
(* is replaced by a later one until it is taken, and then goes out whole.  *)
(* The audio task encodes and stores a wave without a pause in between,    *)
(* holding the channel's lock. While a resize is being negotiated the      *)
(* session loop hands all slow-path frames to the acceptor, which drops    *)
(* the ones of virtual channels.                                           *)
(***************************************************************************)
EXTENDS Rdpsnd, Sequences, SequencesExt

CONSTANTS
    MaxWaves,       \* bound: waves the capture thread publishes
    MaxResizes      \* bound: resizes in a behaviour

VARIABLES
    AckOnReceive,       \* the client confirms a block when it arrives, or
                        \* when it has played it; it never changes
    latest, notify,     \* the capture slot and its wake-up token
    publishing,         \* publish is between its store and its try_send
    task,               \* where the audio task is: "take", "wait" or "encode"
    published,          \* number of waves published so far
    live,               \* the block numbers of the wave in the live slot
    wire,               \* blocks written and not yet at the client
    playing,            \* the client's play queue
    confirms,           \* WaveConfirms under way to the server
    resizing, resizes

pathVars == <<AckOnReceive, latest, notify, publishing, task, published,
              live, wire, playing, confirms, resizing, resizes>>
audioVars == <<rdpsndVars, pathVars>>

AudioInit ==
    /\ RdpsndInit
    /\ AckOnReceive \in BOOLEAN
    /\ latest = FALSE /\ notify = FALSE /\ publishing = FALSE
    /\ task = "take"
    /\ published = 0
    /\ live = <<>> /\ wire = <<>> /\ playing = <<>> /\ confirms = <<>>
    /\ resizing = FALSE /\ resizes = 0

-----------------------------------------------------------------------------
\* Setup messages reach the channel through the session loop.
Setup ==
    /\ ~resizing
    /\ \/ \E common, quality \in BOOLEAN : OnAudioFormats(common, quality)
       \/ OnQualityMode
       \/ OnTrainingConfirm
    /\ UNCHANGED pathVars

\* Mistake: only a wave that replaces another one wakes the subscriber.
PublishStoreQuietly ==
    /\ started /\ ~publishing
    /\ published < MaxWaves
    /\ latest' = TRUE
    /\ publishing' = latest
    /\ published' = published + 1
    /\ UNCHANGED <<AckOnReceive, rdpsndVars, notify, task, live, wire,
                   playing, confirms, resizing, resizes>>

\* publish: store, then wake the subscriber unless a token is there already.
PublishStore ==
    /\ started /\ ~publishing
    /\ published < MaxWaves
    /\ latest' = TRUE
    /\ publishing' = TRUE
    /\ published' = published + 1
    /\ UNCHANGED <<AckOnReceive, rdpsndVars, notify, task, live, wire,
                   playing, confirms, resizing, resizes>>

PublishNotify ==
    /\ publishing
    /\ publishing' = FALSE
    /\ notify' = TRUE
    /\ UNCHANGED <<AckOnReceive, rdpsndVars, latest, task, published, live,
                   wire, playing, confirms, resizing, resizes>>

\* recv: take the newest wave, or wait for a token and look again.
RecvTake ==
    /\ task = "take"
    /\ latest' = FALSE
    /\ task' = IF latest THEN "encode" ELSE "wait"
    /\ UNCHANGED <<AckOnReceive, rdpsndVars, notify, publishing, published,
                   live, wire, playing, confirms, resizing, resizes>>

RecvWake ==
    /\ task = "wait" /\ notify
    /\ notify' = FALSE
    /\ task' = "take"
    /\ UNCHANGED <<AckOnReceive, rdpsndVars, latest, publishing, published,
                   live, wire, playing, confirms, resizing, resizes>>

\* send_wave_frames: encode under the lock and store in the live slot,
\* replacing a wave the writer has not taken; nothing is sent when the
\* channel refuses.
send_wave_frames(chunks) ==
    /\ task = "encode"
    /\ task' = "take"
    /\ \/ /\ encode_wave(chunks)
          /\ live' = [k \in 1 .. BlocksSent(chunks) |->
                         (block_no + k - 1) % BLOCKS]
       \/ /\ Skipped(chunks)
          /\ UNCHANGED <<rdpsndVars, live>>
    /\ UNCHANGED <<AckOnReceive, latest, notify, publishing, published,
                   wire, playing, confirms, resizing, resizes>>

\* The writer takes the wave and writes it.
WriteWave ==
    /\ live # <<>>
    /\ wire' = wire \o live
    /\ live' = <<>>
    /\ UNCHANGED <<AckOnReceive, rdpsndVars, latest, notify, publishing,
                   task, published, playing, confirms, resizing, resizes>>

-----------------------------------------------------------------------------
\* The client. A confirm carries the timestamp of the block plus the delay
\* the client measured.
Confirm(b) == [block |-> b, timestamp |-> now_ms % U16]

ClientReceives ==
    /\ wire # <<>>
    /\ wire' = Tail(wire)
    /\ playing' = Append(playing, Head(wire))
    /\ confirms' = IF AckOnReceive THEN Append(confirms, Confirm(Head(wire)))
                                   ELSE confirms
    /\ UNCHANGED <<AckOnReceive, rdpsndVars, latest, notify, publishing,
                   task, published, live, resizing, resizes>>

\* A block has been played when the clock moves on by its length.
ClientPlays ==
    /\ playing # <<>>
    /\ Tick
    /\ playing' = Tail(playing)
    /\ confirms' = IF AckOnReceive THEN confirms
                   ELSE Append(confirms, Confirm(Head(playing)))
    /\ UNCHANGED <<AckOnReceive, latest, notify, publishing, task,
                   published, live, wire, resizing, resizes>>

SilencePlays ==
    /\ playing = <<>>
    /\ Tick
    /\ UNCHANGED pathVars

-----------------------------------------------------------------------------
\* The session loop reads a WaveConfirm.
SessionReadsConfirm ==
    /\ confirms # <<>>
    /\ confirms' = Tail(confirms)
    /\ IF resizing THEN UNCHANGED rdpsndVars
       ELSE on_wave_confirm(Head(confirms).block, Head(confirms).timestamp)
    /\ UNCHANGED <<AckOnReceive, latest, notify, publishing, task,
                   published, live, wire, playing, resizing, resizes>>

BeginResize ==
    /\ ~resizing /\ resizes < MaxResizes
    /\ resizing' = TRUE
    /\ resizes' = resizes + 1
    /\ UNCHANGED <<AckOnReceive, rdpsndVars, latest, notify, publishing,
                   task, published, live, wire, playing, confirms>>

EndResize ==
    /\ resizing
    /\ resizing' = FALSE
    /\ UNCHANGED <<AckOnReceive, rdpsndVars, latest, notify, publishing,
                   task, published, live, wire, playing, confirms, resizes>>

AudioNext ==
    \/ Setup
    \/ PublishStore \/ PublishNotify
    \/ RecvTake \/ RecvWake
    \/ \E chunks \in 1 .. MaxChunks : send_wave_frames(chunks)
    \/ WriteWave
    \/ ClientReceives \/ ClientPlays \/ SilencePlays
    \/ SessionReadsConfirm
    \/ BeginResize \/ EndResize

AudioSpec == AudioInit /\ [][AudioNext]_audioVars

-----------------------------------------------------------------------------
AudioTypeOK ==
    /\ RdpsndTypeOK
    /\ {latest, notify, publishing, resizing} \subseteq BOOLEAN
    /\ task \in {"take", "wait", "encode"}
    /\ {live, wire, playing} \subseteq Seq(Block)

\* The audio task never sleeps over a wave: while it waits with the capture
\* slot occupied, a token is there or the publisher is about to send it.
SubscriberWakes == task = "wait" /\ latest => notify \/ publishing

\* "Spec clients that confirm after play: this is the jitter buffer". For
\* such a client the flags cover everything between the encoder and the
\* speaker: each block in the live slot, on the wire or in the play queue is
\* flagged, no block number is there twice, and so no more than
\* MAX_UNACKED_BLOCKS blocks of delay can build up, also when waves are
\* replaced in the slot and when confirms are lost in a resize.
DelayBounded ==
    ~AckOnReceive =>
        LET ahead == playing \o wire \o live
        IN  /\ ToSet(ahead) \subseteq block_pending
            /\ IsInjective(ahead)
            /\ Len(ahead) <= MAX_UNACKED_BLOCKS

\* "Receive-ack clients: the window never fills; we do not invent extra
\* skipping." Whenever the window is full, some block that fills it is still
\* on its way to the client or its confirm is on its way back.
WindowAlwaysRefills ==
    AckOnReceive /\ pending_count >= MAX_UNACKED_BLOCKS =>
        live # <<>> \/ wire # <<>> \/ confirms # <<>>

\* It does while no resize has lost a confirm: a wave replaced in the live
\* slot keeps its flags, but the wave that replaced it was within the window
\* with them.
WindowRefills == resizes = 0 => WindowAlwaysRefills

\* The path from the capture slot to the speaker: its task wakes for every wave
\* (LiveSlot), the delay is bounded by the window for a client that confirms
\* after playing, and the window of one that confirms on receipt refills.
AudioPathSafe == AudioTypeOK /\ SubscriberWakes /\ DelayBounded /\ WindowRefills
=============================================================================
