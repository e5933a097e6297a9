----------------------------- MODULE ChannelPdus -----------------------------
(***************************************************************************)
(* The messages inside the virtual channels: the chunks of a static        *)
(* channel (svc.rs), dynamic channels (rdpcore-dvc/src/pdu.rs), graphics   *)
(* (rdpcore-rdpegfx/src/pdu.rs), sound, the microphone, the clipboard and  *)
(* drives (the pdu.rs of rdpcore-rdpsnd, -rdpeai, -cliprdr and -rdpdr, and *)
(* rdpcore-rdpdr/src/irp.rs).  Conventions are those of ConnectPdus; a     *)
(* decoded message carries its enum variant in the field `message`.        *)
(***************************************************************************)
EXTENDS Wire

CONSTANT ZGFX_MAX_SEGMENT_PAYLOAD

Message(name) == "message" :> name
Named(r, name) == Map(r, LAMBDA v : Message(name) @@ v)

chunks(s, n) ==
  [i \in 1 .. (Len(s) + n - 1) \div n |-> SubSeq(s, (i - 1) * n + 1, Least(i * n, Len(s)))]

----------------------------------------------------------------------------
\* svc.rs

CHANNEL_FLAG_FIRST == 1
CHANNEL_FLAG_LAST == 2
DEFAULT_CHUNK_LENGTH == 1600

chunkify(data) ==
  IF data = <<>> THEN <<LE(4, 0) \o LE(4, 3)>>
  ELSE LET parts == chunks(data, DEFAULT_CHUNK_LENGTH)
           flags(i) == (IF i = 1 THEN CHANNEL_FLAG_FIRST ELSE 0)
                         + (IF i = Len(parts) THEN CHANNEL_FLAG_LAST ELSE 0)
       IN  [i \in DOMAIN parts |-> LE(4, Len(data)) \o LE(4, flags(i)) \o parts[i]]

dechunkify == <<U("total_length", 4), U("flags", 4), Rest("chunk")>>

\* The receiver's buffer, what it has completed and whether it failed.
Reassembly == [buffer |-> <<>>, done |-> <<>>, failed |-> FALSE]

\* Mistake: a first chunk does not drop what an unfinished message left.
reassemble_keeping(r, payload, max_size) ==
  LET d == Decode(dechunkify, payload)
      kept == r.buffer
      whole == kept \o d.v.chunk
  IN  CASE ~ d.ok -> [r EXCEPT !.failed = TRUE]
        [] d.ok /\ ~ Has(d.v.flags, CHANNEL_FLAG_FIRST) /\ r.buffer = <<>> -> r
        [] d.ok /\ (Has(d.v.flags, CHANNEL_FLAG_FIRST) \/ r.buffer /= <<>>) ->
             IF Len(whole) > max_size THEN [r EXCEPT !.buffer = <<>>, !.failed = TRUE]
             ELSE IF Has(d.v.flags, CHANNEL_FLAG_LAST) THEN [r EXCEPT !.buffer = <<>>, !.done = Append(@, whole)]
             ELSE [r EXCEPT !.buffer = whole]

reassemble(r, payload, max_size) ==
  LET d == Decode(dechunkify, payload)
      kept == IF Has(d.v.flags, CHANNEL_FLAG_FIRST) THEN <<>> ELSE r.buffer
      whole == kept \o d.v.chunk
  IN  CASE ~ d.ok -> [r EXCEPT !.failed = TRUE]
        [] d.ok /\ ~ Has(d.v.flags, CHANNEL_FLAG_FIRST) /\ r.buffer = <<>> -> r
        [] d.ok /\ (Has(d.v.flags, CHANNEL_FLAG_FIRST) \/ r.buffer /= <<>>) ->
             IF Len(whole) > max_size THEN [r EXCEPT !.buffer = <<>>, !.failed = TRUE]
             ELSE IF Has(d.v.flags, CHANNEL_FLAG_LAST) THEN [r EXCEPT !.buffer = <<>>, !.done = Append(@, whole)]
             ELSE [r EXCEPT !.buffer = whole]

----------------------------------------------------------------------------
\* rdpcore-dvc/src/pdu.rs

MAX_DATA_SIZE == 1590

field_size_for(v) == IF v <= 255 THEN <<0, 1>> ELSE IF v <= 65535 THEN <<1, 2>> ELSE <<2, 4>>
write_variable(v) == LE(field_size_for(v)[2], v)
Selector(v) == field_size_for(v)[1]
read_variable(b, selector) == IF selector = 3 THEN Failed ELSE ReadLE(b, 2 ^ selector)

encode_capability_request == <<80, 0>> \o LE16(<<2, 0, 0, 0, 0>>)
dvc_create_request(v) == <<16 + Selector(v.channel_id)>> \o write_variable(v.channel_id) \o v.name \o <<0>>
encode_close(v) == <<64 + Selector(v.channel_id)>> \o write_variable(v.channel_id)
encode_data(channel_id, data) == <<48 + Selector(channel_id)>> \o write_variable(channel_id) \o data
encode_data_first(channel_id, total, data) ==
  <<32 + 4 * Selector(total) + Selector(channel_id)>> \o write_variable(channel_id) \o write_variable(total) \o data

encode_channel_payload(channel_id, payload) ==
  IF Len(payload) <= MAX_DATA_SIZE THEN <<encode_data(channel_id, payload)>>
  ELSE LET parts == chunks(payload, MAX_DATA_SIZE)
       IN  [i \in DOMAIN parts |-> IF i = 1 THEN encode_data_first(channel_id, Len(payload), parts[1])
                                   ELSE encode_data(channel_id, parts[i])]

DvcMessage(b) ==
  Then(ReadLE(b, 1), LAMBDA header, r1 :
       LET cmd == header \div 16
           id  == Map(read_variable(r1, header % 4), LAMBDA v : [channel_id |-> v])
       IN  CASE cmd = 5 -> Named(Decode(<<Skip(1), U("version", 2)>>, r1), "CapabilityResponse")
             [] cmd = 1 -> Named(Then(id, LAMBDA v, r2 : Read(r2, <<Pair("creation_status")>>, v)), "CreateResponse")
             [] cmd = 3 -> Named(Then(id, LAMBDA v, r2 : Read(r2, <<Rest("data")>>, v)), "Data")
             [] cmd = 2 -> Named(Then(id, LAMBDA v, r2 :
                                   Then(read_variable(r2, (header \div 4) % 4), LAMBDA n, r3 :
                                        Read(r3, <<Rest("data")>>, ("total_length" :> n) @@ v))), "DataFirst")
             [] cmd = 4 -> Named(id, "Close")
             [] OTHER   -> Got(Message("Other"), r1))

\* The client's answers.
DvcCapability_peer(v) == <<80, 0>> \o LE(2, v.version)
DvcCreate_peer(v) == <<16 + Selector(v.channel_id)>> \o write_variable(v.channel_id) \o LEPair(v.creation_status)

----------------------------------------------------------------------------
\* rdpcore-rdpegfx/src/pdu.rs

gfx_header(cmd_id, body) == LE16(<<cmd_id, 0>>) \o LE(4, 8 + Len(body)) \o body

\* Mistake: the size of a segment leaves out its compression byte.
encode_segmented_short(pdus) ==
  IF Len(pdus) <= ZGFX_MAX_SEGMENT_PAYLOAD THEN <<224, 4>> \o pdus
  ELSE LET parts == chunks(pdus, ZGFX_MAX_SEGMENT_PAYLOAD)
       IN  <<225>> \o LE(2, Len(parts)) \o LE(4, Len(pdus))
             \o FlattenSeq([i \in DOMAIN parts |-> LE(4, Len(parts[i])) \o <<4>> \o parts[i]])

encode_segmented(pdus) ==
  IF Len(pdus) <= ZGFX_MAX_SEGMENT_PAYLOAD THEN <<224, 4>> \o pdus
  ELSE LET parts == chunks(pdus, ZGFX_MAX_SEGMENT_PAYLOAD)
       IN  <<225>> \o LE(2, Len(parts)) \o LE(4, Len(pdus))
             \o FlattenSeq([i \in DOMAIN parts |-> LE(4, 1 + Len(parts[i])) \o <<4>> \o parts[i]])

\* The client's bulk decompressor, for segments that are not compressed.
Segmented_peer(b) ==
  Then(ReadLE(b, 1), LAMBDA descriptor, rest :
       CASE descriptor = 224 -> Map(Decode(<<Is(<<4>>), Rest("data")>>, rest), LAMBDA v : v.data)
         [] descriptor = 225 ->
              Map(Check(Decode(<<U("count", 2), U("total", 4),
                                 List("segments", "count", <<U("size", 4), Is(<<4>>), Body("data", "size", 1)>>)>>, rest),
                        LAMBDA v : v.total = Len(FlattenSeq([i \in DOMAIN v.segments |-> v.segments[i].data]))),
                  LAMBDA v : FlattenSeq([i \in DOMAIN v.segments |-> v.segments[i].data]))
         [] OTHER -> Failed)

GfxCapability(c) == LE(4, c.version) \o LE(4, Len(c.data)) \o c.data
GfxCapability_layout == <<U("version", 4), U("length", 4), Body("data", "length", 0)>>
caps_confirm(c) == gfx_header(19, GfxCapability(c))

gfx_flags(c) == IF Len(c.data) >= 4 THEN FromLE(SubSeq(c.data, 1, 4)) ELSE 0

CAP_VERSION_8 == 524292
CAP_VERSION_81 == 524293
\* Versions 10, 10.1 to 10.5, 10.6, its misnumbered twin and 10.7, by rank.
AVC_VERSIONS == <<655362, 655363, 655364, 655365, 655366, 655367, 656896, 656897, 657153>>

supports_avc420(c) ==
  \/ c.version = CAP_VERSION_81 /\ Has(gfx_flags(c), 16)
  \/ c.version \in Range(AVC_VERSIONS) /\ ~ Has(gfx_flags(c), 32)

cap_rank(version) ==
  CASE version = 657153                  -> 11
    [] version \in {656896, 656897}      -> 10
    [] version \in 655362 .. 655367      -> 4 + (version - 655362)
    [] version = CAP_VERSION_81          -> 3
    [] version = CAP_VERSION_8           -> 1
    [] OTHER                             -> 0

\* Mistake: the best-ranked set is chosen before asking whether it has AVC.
select_best_first(sets) ==
  LET best == {i \in DOMAIN sets : \A j \in DOMAIN sets : cap_rank(sets[j].version) <= cap_rank(sets[i].version)}
      ok   == {i \in best : supports_avc420(sets[i])}
  IN  IF ok = {} THEN <<>> ELSE <<sets[CHOOSE i \in ok : \A j \in ok : j <= i]>>

\* max_by_key: the last of the sets whose rank is the highest.
select_avc420_capability(sets) ==
  LET avc  == {i \in DOMAIN sets : supports_avc420(sets[i])}
      best == {i \in avc : \A j \in avc : cap_rank(sets[j].version) <= cap_rank(sets[i].version)}
  IN  IF avc = {} THEN <<>> ELSE <<sets[CHOOSE i \in best : \A j \in best : j <= i]>>

\* Padded or cut to 340 bytes with its header.
encode_reset_graphics(v) ==
  LET full == LE(4, v.width) \o LE(4, v.height) \o LE(4, Len(v.monitors))
                \o FlattenSeq([i \in DOMAIN v.monitors |->
                     LE(4, v.monitors[i].left) \o LE(4, v.monitors[i].top) \o LE(4, v.monitors[i].right)
                       \o LE(4, v.monitors[i].bottom) \o LE(4, IF v.monitors[i].primary THEN 1 ELSE 0)])
  IN  gfx_header(14, SubSeq(full \o Zeros(332), 1, 332))

encode_create_surface(v) == gfx_header(9, LE16(<<v.surface_id, v.width, v.height>>) \o <<32>>)
encode_delete_surface(v) == gfx_header(10, LE(2, v.surface_id))
encode_map_surface(v) == gfx_header(15, LE16(<<v.surface_id, 0>>) \o LE(4, v.x) \o LE(4, v.y))
encode_start_frame(v) == gfx_header(11, LE(4, v.timestamp) \o LE(4, v.frame_id))
encode_end_frame(v) == gfx_header(12, LE(4, v.frame_id))

avc420_bitmap_stream(v) ==
  LE(4, 1) \o LE16(<<0, 0, v.width, v.height>>) \o <<128 + (v.qp % 64), v.quality>> \o v.stream
wire_to_surface_1(v) ==
  LET data == avc420_bitmap_stream(v)
  IN  gfx_header(1, LE16(<<v.surface_id, 11>>) \o <<32>> \o LE16(<<0, 0, v.width, v.height>>)
                      \o LE(4, Len(data)) \o data)

\* The client's reader of what the server sends.
GfxServer_layout(cmd) ==
  CASE cmd = 19 -> GfxCapability_layout
    [] cmd = 14 -> <<U("width", 4), U("height", 4), U("count", 4), List("monitors", "count",
                       <<U("left", 4), U("top", 4), U("right", 4), U("bottom", 4), U("flags", 4)>>)>>
    [] cmd = 9  -> <<U("surface_id", 2), U("width", 2), U("height", 2), Is(<<32>>)>>
    [] cmd = 10 -> <<U("surface_id", 2)>>
    [] cmd = 15 -> <<U("surface_id", 2), Skip(2), U("x", 4), U("y", 4)>>
    [] cmd = 11 -> <<U("timestamp", 4), U("frame_id", 4)>>
    [] cmd = 12 -> <<U("frame_id", 4)>>
    [] cmd = 1  -> <<U("surface_id", 2), Is(<<11, 0>>), Is(<<32>>), Skip(4), U("width", 2),
                     U("height", 2), U("length", 4), Is(LE(4, 1)), Skip(4), U("visible_width", 2),
                     U("visible_height", 2), U("qp", 1), U("quality", 1), Body("stream", "length", 14)>>

GfxServer_peer(b) ==
  Then(Decode(<<U("cmd", 2), Skip(2), U("pdu_length", 4), Body("body", "pdu_length", 8)>>, b), LAMBDA h, rest :
       Within(Read(h.body, GfxServer_layout(h.cmd), "cmd" :> h.cmd), rest))

GfxCaps_peer(v) ==
  gfx_header(18, LE(2, Len(v.sets)) \o FlattenSeq([i \in DOMAIN v.sets |-> GfxCapability(v.sets[i])]))
GfxAck_peer(v) == gfx_header(13, LEPair(v.queue_depth) \o LE(4, v.frame_id) \o LE(4, v.total_frames_decoded))

GfxMessage(b) ==
  Then(Check(Decode(<<U("cmd_id", 2), Skip(2), U("pdu_length", 4)>>, b), LAMBDA h : h.pdu_length >= 8),
       LAMBDA h, rest :
         IF Len(rest) < h.pdu_length - 8 THEN Failed
         ELSE CASE h.cmd_id = 18 ->
                     Map(Decode(<<U("count", 2), List("sets", "count", GfxCapability_layout)>>, rest), LAMBDA v :
                         [message |-> "CapsAdvertise",
                          sets |-> [i \in DOMAIN v.sets |-> Fields(v.sets[i], {"version", "data"})]])
                [] h.cmd_id = 13 -> Named(Decode(<<Pair("queue_depth"), U("frame_id", 4), U("total_frames_decoded", 4)>>,
                                                 rest), "FrameAcknowledge")
                [] h.cmd_id = 16 -> Got(Message("CacheImportOffer"), rest)
                [] OTHER         -> Got(Message("Other"), rest))
=============================================================================
