------------------------------ MODULE Graphics ------------------------------
(***************************************************************************)
(* The H.264 graphics channel of one connection: the state machine of      *)
(* crates/rdpcore-rdpegfx/src/session.rs, the part of the session loop     *)
(* that drives it (server/frame_pump.rs, server/session_loop.rs) and a     *)
(* client that plays the PDUs back.                                        *)
(*                                                                         *)
(* The loop awaits the diff and the encode inside its handler, so Caps and *)
(* acknowledge PDUs never fall between them; but the frame is read once    *)
(* for the diff and again for the encode, and the host goes on drawing in  *)
(* between. What the handlers send takes time as well. Answers of the      *)
(* dynamic channel are Latency frames and overtake the frames of video,    *)
(* which are Bulk frames; the PDUs of a resize are Bulk frames the loop    *)
(* enqueues itself, next to the spawned bulk send.                         *)
(*                                                                         *)
(* Reset, Create and Map are one PDU here, and so are Start, WireToSurface *)
(* and End. A captured frame is its number; equal numbers are the same     *)
(* Arc.                                                                    *)
(***************************************************************************)
EXTENDS Naturals, Sequences, FiniteSets, SequencesExt

CONSTANTS
    GfxSizes,               \* desktop sizes, non-zero numbers
    MAX_FRAMES_IN_FLIGHT,
    IDR_INTERVAL_FRAMES,
    ENCODE_FAIL_FALLBACK,
    GfxRoom,                \* bound: Bulk frames on their way
    GfxBudgets              \* bounds: how many captures of the host, Caps and
                            \* acknowledge PDUs and SuppressOutput requests of
                            \* the client a behaviour has

ASSUME GraphicsAssumption ==
    /\ GfxSizes \subseteq Nat \ {0} /\ GfxSizes # {}
    /\ {MAX_FRAMES_IN_FLIGHT, IDR_INTERVAL_FRAMES, ENCODE_FAIL_FALLBACK,
        GfxRoom} \subseteq Nat \ {0}

VARIABLES
    gfx,            \* Inner: the session's state
    encoder,        \* what the encoder's next delta refers to: nothing yet,
                    \* the frame issued last, or one that was never issued
    last_gfx_data,  \* the captured frame encoded last, 0 if none
    host,           \* the host's desktop: its size, the latest frame or 0
    updates,        \* display updates not yet handled: a new size, or 0 for a
                    \* bitmap
    gfx_resizing,   \* the deactivation-reactivation sequence is under way
    gate_open,      \* bitmap_gate_open
    output_allowed, \* display_updates_allowed
    owed, synced,   \* sync: pending_resync and the frame of last_synced_full
    to_pump,        \* bitmap_to_pump, while the loop awaits: the frame it shows
                    \* and its size, see Rectangle
    channel_open,   \* the mux has a slot for the graphics channel
    gfx_ended,      \* the session returned an error
    task,           \* what the spawned bulk send has still to enqueue
    inline,         \* what the loop itself is enqueueing
    wire,           \* Bulk frames on their way
    client,         \* the client, playing back what it receives
    as_issued,      \* a client that received the PDUs in the order issued
    overtaken,      \* history: the loop sent PDUs ahead of ones issued before
    lapsed,         \* history: the faults of two known lapses, see EncodeFails
                    \* and ClientCaps
    budget          \* what the bounds leave to the environment

gfxSendVars == <<task, inline, wire, client, as_issued, overtaken>>
gateVars == <<gate_open, output_allowed>>
hostVars == <<host, updates, gfx_resizing, owed, synced, to_pump>>
gfxVars == <<gfx, encoder, last_gfx_data, hostVars, gateVars, channel_open,
             gfx_ended, gfxSendVars, lapsed, budget>>

-----------------------------------------------------------------------------
\* PDUs and the client that plays them back.

Delete(id) == [type |-> "Delete", id |-> id, delta |-> FALSE, ref |-> "none"]
Create(id) == [type |-> "Create", id |-> id, delta |-> FALSE, ref |-> "none"]
Wire(id, delta, ref) ==
    [type |-> "Wire", id |-> id, delta |-> delta, ref |-> ref]

NewClient == [surfaces |-> {}, shown |-> 0, faults |-> {}]

Fault(what, id) == <<what, id>>

\* Creating a surface that is there, or a frame for one that is not, is a
\* protocol error. A delta frame is decodable after the frame it refers to, on
\* the same surface.
Faults(c, p) ==
    {f \in {"twice", "no surface", "undecodable"} :
        \/ f = "twice" /\ p.type = "Create" /\ p.id \in c.surfaces
        \/ f = "no surface" /\ p.type = "Wire" /\ p.id \notin c.surfaces
        \/ /\ f = "undecodable" /\ p.delta
           /\ ~(p.ref = "issued" /\ c.shown = p.id)}

Play(c, p) ==
    [surfaces |-> CASE p.type = "Create" -> c.surfaces \cup {p.id}
                    [] p.type = "Delete" -> c.surfaces \ {p.id}
                    [] OTHER -> c.surfaces,
     shown |-> IF p.type = "Wire" THEN p.id ELSE c.shown,
     faults |-> c.faults \cup {Fault(f, p.id) : f \in Faults(c, p)}]

PlayNth(c, pdus, k) == IF k \in DOMAIN pdus THEN Play(c, pdus[k]) ELSE c

\* A handler issues three PDUs at most: a Delete, a Create and a frame.
PlayAll(c, pdus) == PlayNth(PlayNth(PlayNth(c, pdus, 1), pdus, 2), pdus, 3)

Issue(pdus) == as_issued' = PlayAll(as_issued, pdus)

-----------------------------------------------------------------------------
\* Inner.

NewInner ==
    [state |-> "WaitCaps", surface_configured |-> FALSE, surface_id |-> 1,
     size |-> host.size, frames_in_flight |-> 0, frames_sent |-> 0,
     force_next_idr |-> TRUE, encode_failures |-> 0]

NextSurface(g) == g.surface_id + 1

\* CapsAdvertise with an AVC420 set; the size is never zero.
on_caps(g) ==
    [g EXCEPT !.state = "Ready",
              !.surface_id = IF g.state = "Ready" /\ g.surface_configured
                             THEN NextSurface(g) ELSE @,
              !.force_next_idr = TRUE,
              !.frames_in_flight = 0, !.frames_sent = 0,
              !.encode_failures = 0, !.surface_configured = TRUE]

CapsAnswer(g) ==
    (IF g.state = "Ready" /\ g.surface_configured
     THEN <<Delete(g.surface_id)>> ELSE <<>>)
    \o <<Create(on_caps(g).surface_id)>>

\* Whether resize has anything to do for this size.
Resizes(g, size) == ~(g.surface_configured /\ g.size = size)

resize(g, size) ==
    [g EXCEPT !.size = size,
              !.surface_id = IF g.surface_configured THEN NextSurface(g) ELSE @,
              !.force_next_idr = TRUE, !.frames_in_flight = 0,
              !.surface_configured = (g.state = "Ready")]

ResizePdus(g, size) ==
    IF g.state # "Ready" THEN <<>>
    ELSE (IF g.surface_configured THEN <<Delete(g.surface_id)>> ELSE <<>>)
         \o <<Create(resize(g, size).surface_id)>>

abandon(g) == [g EXCEPT !.surface_configured = FALSE, !.state = "Failed"]

Teardown(g) ==
    IF g.surface_configured THEN <<Delete(g.surface_id)>> ELSE <<>>

\* Mistake: a failed encode leaves the next frame a delta.
record_failure_as_delta(g) ==
    LET f == [g EXCEPT !.encode_failures = @ + 1, !.force_next_idr = FALSE]
    IN  IF f.encode_failures >= ENCODE_FAIL_FALLBACK THEN abandon(f) ELSE f

\* The encode failed twice: the next one is an IDR, or graphics are given up.
record_encode_failure(g) ==
    LET f == [g EXCEPT !.encode_failures = @ + 1, !.force_next_idr = TRUE]
    IN  IF f.encode_failures >= ENCODE_FAIL_FALLBACK THEN abandon(f) ELSE f

ForceIdr(g) ==
    \/ g.force_next_idr
    \/ g.frames_sent = 0
    \/ g.frames_sent % IDR_INTERVAL_FRAMES = 0

finish_encode(g) ==
    [g EXCEPT !.encode_failures = 0, !.force_next_idr = FALSE,
              !.frames_in_flight = @ + 1, !.frames_sent = @ + 1]

\* Backpressure: the client has not acknowledged enough.
Behind(g) == g.frames_in_flight >= MAX_FRAMES_IN_FLIGHT

\* The size of a bitmap that is a part of the desktop.
Rectangle == 0

NoPump == [frame |-> 0, size |-> Rectangle]

GraphicsInit ==
    /\ host = [size |-> CHOOSE size \in GfxSizes : TRUE, frame |-> 1]
    /\ gfx = NewInner
    /\ encoder = "none" /\ last_gfx_data = 0
    /\ updates = <<0>>
    /\ gfx_resizing = FALSE
    /\ gate_open \in BOOLEAN /\ output_allowed = TRUE
    /\ owed = FALSE /\ synced = 0 /\ to_pump = NoPump
    /\ channel_open = TRUE /\ gfx_ended = FALSE
    /\ task = <<>> /\ inline = <<>>
    /\ wire = <<>>
    /\ client = NewClient /\ as_issued = NewClient /\ overtaken = FALSE
    /\ lapsed = {}
    /\ \E b \in GfxBudgets :
          budget = [captures |-> b.captures, caps |-> b.caps, acks |-> b.acks,
                    requests |-> b.requests, frames |-> 1]

\* The loop waits in select.
GfxIdle == inline = <<>> /\ ~gfx_ended /\ to_pump = NoPump

-----------------------------------------------------------------------------
\* The catch-up of a handler. A high backlog in the kernel counts like a send
\* in flight and is left to module Session.

\* take_catchup: the whole frame the first time, afterwards the rectangle that
\* differs from the one synced, which may be the whole again.
TakeCatchup ==
    \/ /\ host.frame \in {0, synced}
       /\ owed' = FALSE
       /\ UNCHANGED to_pump
    \/ /\ host.frame \notin {0, synced} /\ task # <<>>
       /\ owed' = TRUE
       /\ UNCHANGED to_pump
    \/ /\ host.frame \notin {0, synced} /\ task = <<>>
       /\ owed' = FALSE
       /\ \E size \in {host.size} \cup (IF synced = 0 THEN {} ELSE {Rectangle}) :
             to_pump' = [frame |-> host.frame, size |-> size]

\* What try_encode_gfx_frame encodes: the latest frame, read again, or the
\* bitmap when a change of size has cleared it.
Source == IF host.frame = 0 THEN to_pump ELSE [frame |-> host.frame, size |-> host.size]

\* No graphics: the bitmap is painted with bitmap updates.
Classic ==
    /\ gfx.state # "Ready"
    /\ owed' = FALSE /\ synced' = to_pump.frame
    /\ Issue(<<>>)
    /\ UNCHANGED <<gfx, encoder, last_gfx_data, gfx_ended, task, lapsed>>

\* What begin_encode finds, or makes, of the session.
NeedsResize == Resizes(gfx, Source.size)
Fits == IF NeedsResize THEN resize(gfx, Source.size) ELSE gfx
Prefix == IF NeedsResize THEN ResizePdus(gfx, Source.size) ELSE <<>>
Reference == IF NeedsResize THEN "none" ELSE encoder

\* The same Arc as last time, or a client that is behind: SoftSkip.
Skip ==
    /\ gfx.state = "Ready"
    /\ owed' = TRUE
    /\ Issue(<<>>)
    /\ \/ last_gfx_data = Source.frame /\ UNCHANGED <<gfx, encoder>>
       \/ /\ last_gfx_data # Source.frame
          /\ Behind(Fits)
          /\ gfx' = Fits /\ encoder' = Reference
    /\ UNCHANGED <<last_gfx_data, synced, gfx_ended, task, lapsed>>

CanEncode ==
    /\ gfx.state = "Ready" /\ last_gfx_data # Source.frame
    /\ ~Behind(Fits)

\* The frame is encoded, at once or as an IDR after a failure. The frames go
\* to a spawned bulk send; without a channel the session ends.
Encode ==
    /\ CanEncode
    /\ \E retried \in BOOLEAN :
        LET delta == ~(retried \/ ForceIdr(Fits) \/ Reference = "none")
            pdus  == Prefix \o <<Wire(Fits.surface_id, delta, Reference)>>
        IN  /\ encoder' = "issued"
            /\ gfx' = finish_encode(Fits)
            /\ last_gfx_data' = Source.frame
            /\ \/ /\ channel_open
                  /\ task' = pdus /\ Issue(pdus)
                  /\ synced' = to_pump.frame /\ owed' = FALSE
                  /\ UNCHANGED gfx_ended
               \/ /\ ~channel_open
                  /\ gfx_ended' = TRUE /\ Issue(<<>>)
                  /\ UNCHANGED <<task, synced, owed>>
    /\ UNCHANGED lapsed

\* Both attempts failed. The encoder may have moved its reference all the
\* same. Prefix is dropped, so that the session takes for created a surface the
\* client has not heard of. When graphics are given up, the teardown goes out
\* with the bitmap update that replaces the frame.
EncodeFails ==
    /\ CanEncode
    /\ gfx' = record_encode_failure(Fits)
    /\ encoder' \in {Reference, "unissued"}
    /\ \/ /\ gfx'.state = "Ready"
          /\ owed' = TRUE /\ Issue(<<>>)
          /\ lapsed' = lapsed \cup IF Prefix = <<>> THEN {}
                                   ELSE {Fault("no surface", Fits.surface_id)}
          /\ UNCHANGED <<synced, task>>
       \/ /\ gfx'.state = "Failed"
          /\ owed' = FALSE /\ synced' = to_pump.frame
          /\ task' = IF channel_open THEN Teardown(Fits) ELSE <<>>
          /\ Issue(task')
          /\ UNCHANGED lapsed
    /\ UNCHANGED <<last_gfx_data, gfx_ended>>

\* The loop encodes what it found to send.
PumpGraphics ==
    /\ to_pump # NoPump /\ ~gfx_ended
    /\ Classic \/ Skip \/ Encode \/ EncodeFails
    /\ to_pump' = NoPump
    /\ UNCHANGED <<host, updates, gfx_resizing, gateVars, channel_open, inline,
                   wire, client, overtaken, budget>>

-----------------------------------------------------------------------------
\* Events of the session loop.

\* The host draws, or its desktop changes size: the frame is forgotten until
\* the next capture.
Capture ==
    /\ budget.captures > 0 \/ host.frame = 0
    /\ \/ /\ host' = [host EXCEPT !.frame = budget.frames + 1]
          /\ updates' = Append(updates, 0)
          /\ budget' = [budget EXCEPT !.frames = @ + 1,
                            !.captures = IF host.frame = 0 THEN @ ELSE @ - 1]
       \/ \E size \in GfxSizes \ {host.size} :
            /\ budget.captures > 0
            /\ host' = [size |-> size, frame |-> 0]
            /\ updates' = Append(updates, size)
            /\ budget' = [budget EXCEPT !.captures = @ - 1]
    /\ UNCHANGED <<gfx, encoder, last_gfx_data, gfx_resizing, owed, synced,
                   to_pump, gateVars, channel_open, gfx_ended, gfxSendVars,
                   lapsed>>

\* A bitmap is a wake-up only; during a resize it is kept for the bitmap path,
\* behind the closed gate it is noted, with the output suppressed it is ignored.
HandleBitmap ==
    /\ GfxIdle /\ updates # <<>> /\ Head(updates) = 0
    /\ updates' = Tail(updates)
    /\ \/ /\ gfx_resizing \/ (gate_open /\ ~output_allowed)
          /\ UNCHANGED <<owed, to_pump>>
       \/ /\ ~gfx_resizing /\ ~gate_open
          /\ owed' = TRUE /\ UNCHANGED to_pump
       \/ /\ ~gfx_resizing /\ gate_open /\ output_allowed
          /\ TakeCatchup
    /\ UNCHANGED <<gfx, encoder, last_gfx_data, host, gfx_resizing, synced,
                   gateVars, channel_open, gfx_ended, gfxSendVars, lapsed, budget>>

\* Mistake: only video is retried.
TickerForVideo ==
    owed /\ task = <<>> /\ output_allowed /\ gate_open /\ gfx.state = "Ready"

TickerArmed == owed /\ task = <<>> /\ output_allowed /\ gate_open

\* The ticker, or the end of the bulk send. A resize leaves nothing owed.
Tick ==
    /\ GfxIdle /\ TickerArmed
    /\ TakeCatchup
    /\ UNCHANGED <<gfx, encoder, last_gfx_data, host, updates, gfx_resizing,
                   synced, gateVars, channel_open, gfx_ended, gfxSendVars,
                   lapsed, budget>>

GateOpensForVideo ==
    /\ GfxIdle /\ ~gate_open
    /\ gate_open' = TRUE
    /\ IF owed /\ output_allowed THEN TakeCatchup ELSE UNCHANGED <<owed, to_pump>>
    /\ UNCHANGED <<gfx, encoder, last_gfx_data, host, updates, gfx_resizing,
                   synced, output_allowed, channel_open, gfx_ended, gfxSendVars,
                   lapsed, budget>>

\* The client suppresses the output or allows it again; what the handler sends
\* then is a bitmap update. During a resize the acceptor drops the request.
ClientSuppresses ==
    /\ GfxIdle /\ budget.requests > 0
    /\ budget' = [budget EXCEPT !.requests = @ - 1]
    /\ IF gfx_resizing THEN UNCHANGED output_allowed
       ELSE output_allowed' \in BOOLEAN
    /\ UNCHANGED <<gfx, encoder, last_gfx_data, hostVars, gate_open, channel_open,
                   gfx_ended, gfxSendVars, lapsed>>

\* A resize during a resize is dropped. The loop enqueues the PDUs itself.
HandleResized ==
    /\ GfxIdle /\ updates # <<>> /\ Head(updates) # 0
    /\ updates' = Tail(updates)
    /\ IF gfx_resizing
       THEN UNCHANGED <<gfx, encoder, last_gfx_data, gfx_resizing, owed, synced,
                        inline, as_issued, overtaken>>
       ELSE LET size == Head(updates)
                pdus == IF Resizes(gfx, size) /\ channel_open
                        THEN ResizePdus(gfx, size) ELSE <<>>
            IN  /\ gfx' = IF Resizes(gfx, size) THEN resize(gfx, size) ELSE gfx
                /\ encoder' = IF Resizes(gfx, size) THEN "none" ELSE encoder
                /\ last_gfx_data' = IF Resizes(gfx, size) /\ gfx.state = "Ready"
                                    THEN 0 ELSE last_gfx_data
                /\ inline' = [k \in DOMAIN pdus |-> <<"Bulk", pdus[k]>>]
                /\ Issue(pdus)
                /\ overtaken' = (overtaken \/ (pdus # <<>> /\ task # <<>>))
                /\ gfx_resizing' = TRUE
                /\ owed' = FALSE /\ synced' = 0
    /\ UNCHANGED <<host, to_pump, gateVars, channel_open, gfx_ended, task, wire,
                   client, lapsed, budget>>

\* The client has confirmed the new size.
ResizeDone ==
    /\ GfxIdle /\ gfx_resizing
    /\ gfx_resizing' = FALSE
    /\ UNCHANGED <<gfx, encoder, last_gfx_data, host, updates, owed, synced,
                   to_pump, gateVars, channel_open, gfx_ended, gfxSendVars,
                   lapsed, budget>>

\* What the client sends on the channel. During a resize the loop hands it to
\* the acceptor, which drops it. A client without AVC420 keeps its surface, and
\* when it advertises AVC420 after all the same surface is created again.
ClientCaps ==
    /\ GfxIdle /\ channel_open /\ budget.caps > 0
    /\ budget' = [budget EXCEPT !.caps = @ - 1]
    /\ \/ /\ gfx_resizing
          /\ UNCHANGED <<gfx, encoder, inline, as_issued, overtaken, lapsed>>
       \/ /\ ~gfx_resizing
          /\ gfx' = on_caps(gfx) /\ encoder' = "none"
          /\ inline' = [k \in DOMAIN CapsAnswer(gfx) |->
                            <<"Latency", CapsAnswer(gfx)[k]>>]
          /\ Issue(CapsAnswer(gfx))
          /\ overtaken' = (overtaken \/ task # <<>> \/ wire # <<>>)
          /\ lapsed' = lapsed \cup
                 IF gfx.state = "Failed" /\ gfx.surface_configured
                 THEN {Fault("twice", gfx.surface_id)} ELSE {}
       \/ /\ ~gfx_resizing          \* no AVC420 set
          /\ gfx' = [gfx EXCEPT !.state = "Failed"]
          /\ UNCHANGED <<encoder, inline, as_issued, overtaken, lapsed>>
    /\ UNCHANGED <<last_gfx_data, hostVars, gateVars, channel_open, gfx_ended,
                   task, wire, client>>

Smaller(a, b) == IF a < b THEN a ELSE b

\* queueDepth, where MAX_FRAMES_IN_FLIGHT + 2 stands for "unavailable".
on_frame_ack(depth) ==
    /\ GfxIdle /\ channel_open /\ ~gfx_resizing /\ budget.acks > 0
    /\ budget' = [budget EXCEPT !.acks = @ - 1]
    /\ gfx' = [gfx EXCEPT !.frames_in_flight =
                    IF depth = MAX_FRAMES_IN_FLIGHT + 2 THEN 0
                    ELSE Smaller(depth, MAX_FRAMES_IN_FLIGHT)]
    /\ UNCHANGED <<encoder, last_gfx_data, hostVars, gateVars, channel_open,
                   gfx_ended, gfxSendVars, lapsed>>

\* The client refuses or closes the dynamic channel: the mux forgets it.
ClientClose ==
    /\ GfxIdle /\ channel_open /\ ~gfx_resizing
    /\ channel_open' = FALSE
    /\ UNCHANGED <<gfx, encoder, last_gfx_data, hostVars, gateVars, gfx_ended,
                   gfxSendVars, lapsed, budget>>

-----------------------------------------------------------------------------
\* Sending and receiving.

Enqueue(pdu) == Len(wire) < GfxRoom /\ wire' = Append(wire, pdu)

TaskSend ==
    /\ task # <<>>
    /\ Enqueue(Head(task))
    /\ task' = Tail(task)
    /\ UNCHANGED <<gfx, encoder, last_gfx_data, hostVars, gateVars, channel_open,
                   gfx_ended, inline, client, as_issued, overtaken, lapsed, budget>>

InlineSend ==
    /\ inline # <<>>
    /\ \/ Head(inline)[1] = "Bulk" /\ Enqueue(Head(inline)[2]) /\ UNCHANGED client
       \/ /\ Head(inline)[1] = "Latency"
          /\ client' = Play(client, Head(inline)[2])
          /\ UNCHANGED wire
    /\ inline' = Tail(inline)
    /\ UNCHANGED <<gfx, encoder, last_gfx_data, hostVars, gateVars, channel_open,
                   gfx_ended, task, as_issued, overtaken, lapsed, budget>>

Receive ==
    /\ wire # <<>>
    /\ client' = Play(client, Head(wire))
    /\ wire' = Tail(wire)
    /\ UNCHANGED <<gfx, encoder, last_gfx_data, hostVars, gateVars, channel_open,
                   gfx_ended, task, inline, as_issued, overtaken, lapsed, budget>>

GraphicsNext ==
    \/ Capture \/ HandleBitmap \/ Tick \/ GateOpensForVideo \/ PumpGraphics
    \/ HandleResized \/ ResizeDone
    \/ ClientCaps \/ ClientSuppresses \/ ClientClose
    \/ \E depth \in {0, MAX_FRAMES_IN_FLIGHT + 1, MAX_FRAMES_IN_FLIGHT + 2} :
            on_frame_ack(depth)
    \/ TaskSend \/ InlineSend \/ Receive

\* The loop, the bulk send and the writer keep running.
GraphicsFairness ==
    /\ WF_gfxVars(HandleBitmap) /\ WF_gfxVars(Tick)
    /\ WF_gfxVars(GateOpensForVideo) /\ WF_gfxVars(PumpGraphics)
    /\ WF_gfxVars(HandleResized)
    /\ WF_gfxVars(TaskSend) /\ WF_gfxVars(InlineSend)
    /\ WF_gfxVars(Receive)

GraphicsSpec == GraphicsInit /\ [][GraphicsNext]_gfxVars /\ GraphicsFairness

-----------------------------------------------------------------------------

\* The type invariant: frames in flight and failures stay within their limits.
GfxTypeOK ==
    /\ gfx.state \in {"WaitCaps", "Ready", "Failed"}
    /\ gfx.surface_id \in Nat \ {0}
    /\ gfx.frames_in_flight \in 0 .. MAX_FRAMES_IN_FLIGHT
    /\ gfx.encode_failures \in 0 .. ENCODE_FAIL_FALLBACK
    /\ encoder \in {"none", "issued", "unissued"}

\* What surface_configured stands for ("False until ResetGraphics/CreateSurface/
\* Map have been sent"), and force_next_idr, and the argument in begin_encode
\* that skipping needs no IDR: every frame issued is for a surface the client
\* has, no surface is created twice, and every delta frame refers to the frame
\* issued just before it, whatever encodes fail, are skipped for backpressure
\* or are retried in between. Two known lapses excepted, and only for their
\* own surface: a set-up dropped with a failed encode, and a client that
\* withdraws AVC420 and advertises it again.
FramesDecodable == as_issued.faults \subseteq lapsed

\* What the client has played back, once nothing is on its way, is what was
\* issued: the loop starts no frame while the last one is being enqueued
\* (bulk_send). A Caps answer or a resize that the loop sends itself may
\* overtake frames issued before.
ClientKeepsStep ==
    overtaken \/ gfx_ended \/ task \o wire \o inline # <<>> \/ client = as_issued

\* A frame the client is owed is sent, or painted with bitmap updates once
\* the encoder has failed for good, whenever the gate opens and whatever the
\* host draws during the diff, unless the client has suppressed the output or
\* reports that it is behind, or that very frame was encoded before: the
\* catch-up ticker retries what was skipped or deferred.
OwedIsSettled ==
    []<>(\/ ~owed /\ to_pump = NoPump
         \/ gfx_ended \/ ~output_allowed
         \/ last_gfx_data = host.frame
         \/ gfx.frames_in_flight >= MAX_FRAMES_IN_FLIGHT)

\* The video stream is decodable as issued, and played back as issued, within
\* the limits on frames in flight and on failures.
GraphicsSafe == GfxTypeOK /\ FramesDecodable /\ ClientKeepsStep

\* surface_configured, as its comment has it ("False until ResetGraphics/
\* CreateSurface/Map have been sent"): no frame is issued for a surface whose
\* creation was not.
SurfaceSent == \A f \in as_issued.faults : f[1] # "no surface"
=============================================================================
