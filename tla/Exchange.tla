------------------------------- MODULE Exchange -------------------------------
(***************************************************************************)
(* One message at a time crosses the wire: its encoder's bytes arrive      *)
(* whole, cut short, or with the next message behind them in the same      *)
(* buffer, and the receiver's decoder reads them.  Encoders and decoders   *)
(* are those of ConnectPdus, UpdatePdus and DevicePdus, each translated    *)
(* from its own function, so that nothing but the code makes them agree.   *)
(* A second part sends long messages over a static channel in chunks.      *)
(***************************************************************************)
EXTENDS ConnectPdus, UpdatePdus, DevicePdus

\* Cases: a sequence of [pdu, bytes, v, open]: which decoder reads the bytes,
\* what they were encoded from, and the fields that run to the end of the
\* buffer.  Lengths: of the messages sent in chunks.  MaxChunked bounds those.
CONSTANTS Cases, Lengths, MaxChunked

VARIABLES case, shape, next, wire, heard, chunked, pieces, receiver

exchangeVars == <<case, shape, next, wire, heard, chunked, pieces, receiver>>

\* Messages of one layout.
Layouts ==
  [connect_initial |-> ConnectInitial_layout,
   connect_response |-> ConnectResponse_layout,
   conference_request |-> ConferenceCreateRequest_layout,
   conference_response |-> ConferenceCreateResponse_layout,
   pointer_cap |-> PointerCapability_layout,
   input_cap |-> InputCapability_layout,
   virtual_channel_cap |-> VirtualChannelCapability_layout,
   synchronize |-> SynchronizePdu_layout,
   control |-> ControlPdu_layout,
   font |-> FontPdu_layout,
   frame_marker |-> FrameMarker_peer,
   surface_bits |-> SetSurfaceBits_peer,
   snd_formats |-> SndFormats_peer,
   snd_wave2 |-> Wave2_peer,
   mic_open |-> MicOpen_peer,
   create_reply |-> decode_create_reply,
   read_reply |-> decode_read_reply,
   write_reply |-> decode_write_reply]

\* Which decoder of the receiver reads a message: the connection sequence, the
\* share PDUs, input and updates, dynamic channels and graphics, devices.
ConnectionKinds == {"tpkt_data", "connection_request", "connection_confirm",
                    "erect_domain", "attach_user", "attach_user_confirm",
                    "channel_join", "channel_join_confirm", "send_data_request",
                    "send_data_indication", "disconnect", "client_gcc",
                    "server_gcc"}
ReadConnection(pdu, b) ==
  CASE pdu = "tpkt_data"            -> unwrap_data(b)
    [] pdu = "connection_request"   -> ConnectionRequest_decode(b)
    [] pdu = "connection_confirm"   -> ConnectionConfirm_decode(b)
    [] pdu = "erect_domain"         -> ErectDomainRequest_decode(b)
    [] pdu = "attach_user"          -> AttachUserRequest_decode(b)
    [] pdu = "attach_user_confirm"  -> AttachUserConfirm_decode(b)
    [] pdu = "channel_join"         -> ChannelJoinRequest_decode(b)
    [] pdu = "channel_join_confirm" -> ChannelJoinConfirm_decode(b)
    [] pdu = "send_data_request"    -> SendData_decode("SendDataRequest", b)
    [] pdu = "send_data_indication" -> SendData_decode("SendDataIndication", b)
    [] pdu = "disconnect"           -> DisconnectProviderUltimatum_decode(b)
    [] pdu = "client_gcc"           -> ClientGccBlocks_decode(b)
    [] pdu = "server_gcc"           -> ServerGccBlocks_decode(b)

ShareKinds == {"client_info", "license", "demand_active", "general", "bitmap",
               "order", "confirm_active", "deactivate_all", "data",
               "suppress_output", "refresh_rect", "monitor_layout"}
ReadShare(pdu, b) ==
  CASE pdu = "client_info"     -> ClientInfoPdu_decode(b)
    [] pdu = "license"         -> decode_valid_client(b)
    [] pdu = "demand_active"   -> DemandActive_peer(b)
    [] pdu = "general"         -> GeneralCapability_decode(b)
    [] pdu = "bitmap"          -> BitmapCapability_decode(b)
    [] pdu = "order"           -> OrderCapability_decode(b)
    [] pdu = "confirm_active"  -> ConfirmActive_decode(b)
    [] pdu = "deactivate_all"  -> DeactivateAllPdu_peer(b)
    [] pdu = "data"            -> DataPdu_decode(b)
    [] pdu = "suppress_output" -> decode_suppress_output(b)
    [] pdu = "refresh_rect"    -> decode_refresh_rect(b)
    [] pdu = "monitor_layout"  -> decode_monitor_layout(b)

UpdateKinds == {"slow_input", "fast_input", "fast_output", "bitmap_update",
                "pointer"}
ReadUpdate(pdu, b) ==
  CASE pdu = "slow_input"    -> decode_slowpath_input(b)
    [] pdu = "fast_input"    -> FastPathInput_decode(b)
    [] pdu = "fast_output"   -> FastPathOutput_decode(b)
    [] pdu = "bitmap_update" -> BitmapUpdateData_decode(b)
    [] pdu = "pointer"       -> ColorPointer_peer(b)

DynamicKinds == {"dvc", "gfx_server", "gfx_segments", "gfx"}
ReadDynamic(pdu, b) ==
  CASE pdu = "dvc"          -> DvcMessage(b)
    [] pdu = "gfx_server"   -> GfxServer_peer(b)
    [] pdu = "gfx_segments" -> Map(Segmented_peer(b), LAMBDA d : [data |-> d])
    [] pdu = "gfx"          -> GfxMessage(b)

DeviceKinds == {"snd_wave", "snd", "mic", "clip", "drives", "printer", "irp",
                "directory"}
ReadDevice(pdu, b) ==
  CASE pdu = "snd_wave"  -> Wave_peer(b)
    [] pdu = "snd"       -> SndMessage(b)
    [] pdu = "mic"       -> MicMessage(b)
    [] pdu = "clip"      -> ClipMessage(b)
    [] pdu = "drives"    -> RdpdrMessage(b)
    [] pdu = "printer"   -> decode_printer_device_data(b)
    [] pdu = "irp"       -> Irp_peer(b)
    [] pdu = "directory" -> Map(decode_query_directory_reply(b), LAMBDA es : [entries |-> es])

\* Messages that may share a buffer: the connector reads one after another
\* from the same frame, a share data PDU or an update follows another.
Streamed == {"erect_domain", "attach_user", "channel_join", "send_data_request", "disconnect",
             "data", "fast_output", "bitmap_update", "snd_wave2", "gfx_server"}

\* Where a message may be cut: everywhere near its ends, now and then between.
Cuts(n) == {i \in 0 .. n - 1 : i < 48 \/ i >= n - 8 \/ i % 16 = 0}

\* Nothing but chunks is sent.
NoCase == [pdu |-> "none", bytes |-> <<>>]

ExchangeInit ==
  /\ case = NoCase \/ \E k \in DOMAIN Cases : case = Cases[k]
  /\ shape = "unsent" /\ next = <<>> /\ wire = <<>> /\ heard = <<>>
  /\ chunked = <<>> /\ pieces = <<>> /\ receiver = Reassembly

Transmit(how, bytes) ==
  /\ shape = "unsent" /\ case.pdu /= "none"
  /\ shape' = how
  /\ wire' = bytes
  /\ UNCHANGED <<case, heard, chunked, pieces, receiver>>

Whole == Transmit("whole", case.bytes) /\ UNCHANGED next

Cut ==
  /\ \E n \in Cuts(Len(case.bytes)) : Transmit("cut", SubSeq(case.bytes, 1, n))
  /\ UNCHANGED next

Join ==
  /\ case.pdu \in Streamed
  /\ \E k \in DOMAIN Cases : Cases[k].pdu \in Streamed /\ next' = Cases[k].bytes
  /\ Transmit("joined", case.bytes \o next')

Hear(pdus, r) ==
  /\ shape \notin {"unsent", "done"} /\ heard = <<>>
  /\ case.pdu \in pdus
  /\ heard' = r
  /\ UNCHANGED <<case, shape, next, wire, chunked, pieces, receiver>>

ReceivePlain == Hear(DOMAIN Layouts, Decode(Layouts[case.pdu], wire))
ReceiveConnection == Hear(ConnectionKinds, ReadConnection(case.pdu, wire))
ReceiveShare == Hear(ShareKinds, ReadShare(case.pdu, wire))
ReceiveUpdate == Hear(UpdateKinds, ReadUpdate(case.pdu, wire))
ReceiveDynamic == Hear(DynamicKinds, ReadDynamic(case.pdu, wire))
ReceiveDevice == Hear(DeviceKinds, ReadDevice(case.pdu, wire))

----------------------------------------------------------------------------
\* Chunks over a static channel.  Byte values tell positions apart.

Text(n) == [i \in 1 .. n |-> i % 251]

\* A dynamic channel's message is split twice: into PDUs, then into chunks.
Split(kind, n) ==
  CASE kind = "static"  -> chunkify(Text(n))
    [] kind = "dynamic" -> LET pdus == encode_channel_payload(7, Text(n))
                           IN  FlattenSeq([i \in DOMAIN pdus |-> chunkify(pdus[i])])

\* What the other side puts together again from the same message.
Whole_of(kind, n) ==
  CASE kind = "static"  -> <<Text(n)>>
    [] kind = "dynamic" -> encode_channel_payload(7, Text(n))

SendChunked(kind, n) ==
  /\ shape = "unsent" /\ case.pdu = "none"
  /\ pieces = <<>> /\ Len(chunked) < MaxChunked
  /\ chunked' = Append(chunked, [kind |-> kind, n |-> n, given_up |-> FALSE])
  /\ pieces' = Split(kind, n)
  /\ UNCHANGED <<case, shape, next, wire, heard, receiver>>

DeliverChunk ==
  /\ pieces /= <<>>
  /\ receiver' = reassemble(receiver, Head(pieces), 16384)
  /\ pieces' = Tail(pieces)
  /\ UNCHANGED <<case, shape, next, wire, heard, chunked>>

\* The sender stops in the middle of a message and starts another.
GiveUp ==
  /\ pieces /= <<>> /\ receiver.buffer /= <<>>
  /\ chunked[Len(chunked)].kind = "static"
  /\ chunked' = [chunked EXCEPT ![Len(chunked)].given_up = TRUE]
  /\ pieces' = <<>>
  /\ UNCHANGED <<case, shape, next, wire, heard, receiver>>

Transmission == Whole \/ Cut \/ Join

Chunking ==
  \/ \E kind \in {"static", "dynamic"}, n \in Lengths : SendChunked(kind, n)
  \/ DeliverChunk
  \/ GiveUp

ExchangeNext ==
  \/ Transmission
  \/ ReceivePlain
  \/ ReceiveConnection
  \/ ReceiveShare
  \/ ReceiveUpdate
  \/ ReceiveDynamic
  \/ ReceiveDevice
  \/ Chunking

ExchangeSpec == ExchangeInit /\ [][ExchangeNext]_exchangeVars

----------------------------------------------------------------------------
Heard == heard /= <<>>

\* The decoded fields are the ones the message was made from.
Agrees(got, sent) == \A f \in DOMAIN sent : got[f] = sent[f]

\* Every message that arrives whole is read back as what was sent, for every
\* format the server writes or reads (the encode and decode functions of
\* rdpcore-pdu and of the channel crates), at the values where an encoding
\* changes its form.
RoundTrip ==
  Heard /\ shape = "whole" => heard.ok /\ Agrees(heard.v, case.v)

\* read_u16_le().unwrap_or(0) in ConfirmActive::decode
Defaulted == {"originator_id"}

\* A message cut short is refused, or read as what was sent when the missing
\* bytes carry nothing, or, where a field runs to the end of its buffer, read
\* with that field cut short: never as another message (cursor.rs:43-52).
TruncationNoticed ==
  Heard /\ shape = "cut" /\ heard.ok =>
    \A f \in DOMAIN case.v :
      IF f \in Defaulted THEN heard.v[f] \in {0, case.v[f]}
      ELSE IF f \in case.open THEN IsPrefix(heard.v[f], case.v[f])
      ELSE heard.v[f] = case.v[f]

\* A decoder takes its own message off a shared buffer and not a byte of the
\* next one, so the next is read from its start (mcs.rs:261-267).
NextMessageIntact ==
  Heard /\ shape = "joined" =>
    /\ heard.ok
    /\ Agrees(heard.v, case.v)
    /\ heard.rest = next

\* Chunks put together again are the messages that were sent, each exactly
\* once and none mixed with the remains of one the sender gave up; and every
\* PDU of a dynamic channel fits one chunk (svc.rs:54-133, dvc/src/pdu.rs:31).
SplitsReassemble ==
  /\ ~ receiver.failed
  /\ pieces = <<>> =>
       receiver.done = FlattenSeq([i \in DOMAIN chunked |->
         IF chunked[i].given_up THEN <<>> ELSE Whole_of(chunked[i].kind, chunked[i].n)])
  /\ \A i \in DOMAIN chunked : chunked[i].kind = "dynamic" =>
       Len(Split("dynamic", chunked[i].n)) = Len(Whole_of("dynamic", chunked[i].n))

\* A message survives the wire, whichever way it crosses: whole, cut short, in
\* front of another one, or in chunks.
MessagesSurvive ==
  RoundTrip /\ TruncationNoticed /\ NextMessageIntact /\ SplitsReassemble

\* What the server picks from a client's offer is in the offer and usable,
\* nothing better is passed over, and something is picked whenever something
\* fits: the graphics capability, the sound formats (numbered as the client
\* numbers them) and the NSCodec properties.
OffersHonoured ==
  Heard /\ shape = "whole" /\ "offer" \in DOMAIN case =>
    LET server == case.offer IN
    CASE case.pdu = "gfx" ->
           LET sets == heard.v.sets
               pick == select_avc420_capability(sets)
           IN  /\ pick = <<>> <=> ~ \E c \in Range(sets) : supports_avc420(c)
               /\ pick /= <<>> =>
                    /\ pick[1] \in Range(sets) /\ supports_avc420(pick[1])
                    /\ \A c \in Range(sets) : supports_avc420(c) => cap_rank(c.version) <= cap_rank(pick[1].version)
      [] case.pdu = "snd" ->
           LET picks == negotiate_formats(server, heard.v.formats)
           IN  /\ \A p \in Range(picks) : negotiation_eq(p.format, heard.v.formats[p.format_no + 1])
               /\ \A f \in Range(heard.v.formats) :
                    (\E g \in Range(server) : negotiation_eq(f, g)) => \E p \in Range(picks) : negotiation_eq(f, p.format)
      [] case.pdu = "confirm_active" ->
           /\ parse_client_nscodec(heard.v.capabilities, server.color_loss_level) = server.nscodec
           /\ parse_client_max_request_size(heard.v.capabilities) = server.max_request_size
=============================================================================
