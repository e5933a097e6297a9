------------------------------ MODULE UpdatePdus ------------------------------
(***************************************************************************)
(* What flows in an established session outside the virtual channels: the  *)
(* share data PDUs and slow-path input (finalization.rs), fast-path input  *)
(* and output (fastpath.rs), pointer updates (pointer.rs) and surface      *)
(* commands (surface_commands.rs).  Conventions are those of ConnectPdus.  *)
(***************************************************************************)
EXTENDS SessionPdus

----------------------------------------------------------------------------
\* finalization.rs

DataSubtypes == {20, 39, 40, 31, 33, 35, 38, 55, 28}

ShareDataHeader(v, body) ==
  <<0, v.stream_id>> \o LE(2, Len(body) % 65536) \o <<v.pdu_type2, 0>> \o LE(2, 0) \o body
ShareDataHeader_decode(b) ==
  Check(Decode(<<Skip(1), U("stream_id", 1), Skip(2), U("pdu_type2", 1), Skip(1), Skip(2)>>, b),
        LAMBDA h : h.pdu_type2 \in DataSubtypes)

DataPdu(v) == ShareControlHeader(DataType, v, ShareDataHeader(v, v.body))

\* Mistake: the declared length is believed to leave out the data header.
DataBodyDeclared(h, rest) == Least(Monus(h.total_length, 10), Len(rest))

\* The declared length less both headers, or what has arrived of it.
DataBody(h, rest) == Least(Monus(Monus(h.total_length, 10), 8), Len(rest))

DataPdu_decode(b) ==
  Then(ShareControlHeader_decode(b, DataType), LAMBDA h, r1 :
       Then(ShareDataHeader_decode(r1), LAMBDA d, r2 :
            Map(read_slice(r2, DataBody(h, r2)), LAMBDA body :
                [share_id |-> h.share_id, pdu_source |-> h.pdu_source, stream_id |-> d.stream_id,
                 pdu_type2 |-> d.pdu_type2, body |-> body])))

SynchronizePdu(v) == LE16(<<1, v.target_user>>)
SynchronizePdu_layout == <<Is(<<1, 0>>), U("target_user", 2)>>

ControlPdu(v) == LE16(<<v.action, v.grant_id>>) \o LE(4, v.control_id)
ControlPdu_layout == <<U("action", 2), U("grant_id", 2), U("control_id", 4)>>

FontPdu(v) == LE16(<<v.number_fonts, v.total_num_fonts, v.flags, v.entry_size>>)
FontPdu_layout == <<U("number_fonts", 2), U("total_num_fonts", 2), U("flags", 2), U("entry_size", 2)>>
font_map_default == [number_fonts |-> 0, total_num_fonts |-> 0, flags |-> 3, entry_size |-> 4]

InclusiveRect_layout == <<U("left", 2), U("top", 2), U("right", 2), U("bottom", 2)>>
RectBytes(r) == LE16(<<r.left, r.top, r.right, r.bottom>>)

\* The client's suppress-output message, with a rectangle only when allowed.
SuppressOutput_peer(v) ==
  <<Bit(v.allow), 0, 0, 0>> \o (IF v.allow THEN RectBytes(v.rect) ELSE <<>>)
decode_suppress_output(b) ==
  Then(Decode(<<U("allow", 1), Skip(3)>>, b), LAMBDA v, rest :
       CASE v.allow = 0 -> Got([allow |-> FALSE], rest)
         [] v.allow = 1 -> Got([allow |-> TRUE], IF Len(rest) >= 8 THEN From(rest, 8) ELSE rest)
         [] OTHER       -> Failed)

RefreshRect_peer(v) == <<Len(v.rects), 0, 0, 0>> \o FlattenSeq([i \in DOMAIN v.rects |-> RectBytes(v.rects[i])])
decode_refresh_rect(b) ==
  Map(Decode(<<U("count", 1), Skip(3), List("rects", "count", InclusiveRect_layout)>>, b),
      LAMBDA v : [rects |-> v.rects])

save_session_info_plain_notify == LE(4, 2) \o Zeros(576)

\* MonitorDef: four signed coordinates, kept here as their low 31 bits.
MonitorDef(v) ==
  LE(4, v.left) \o LE(4, v.top) \o LE(4, v.right) \o LE(4, v.bottom) \o LE(4, Bit(v.primary))
encode_monitor_layout(v) ==
  LE(4, Len(v.monitors)) \o FlattenSeq([i \in DOMAIN v.monitors |-> MonitorDef(v.monitors[i])])
decode_monitor_layout(b) ==
  Then(ReadLE(b, 4), LAMBDA count, rest :
       IF Len(rest) < count * 20 THEN Failed
       ELSE Map(ReadList(rest, <<U("left", 4), U("top", 4), U("right", 4), U("bottom", 4), U("flags", 4)>>, count),
                LAMBDA ms : [monitors |-> [i \in DOMAIN ms |->
                    [left |-> ms[i].left, top |-> ms[i].top, right |-> ms[i].right,
                     bottom |-> ms[i].bottom, primary |-> Has(ms[i].flags, 1)]]]))

----------------------------------------------------------------------------
\* Input events, which arrive in two encodings.

Scancode(flags, code) == [event |-> "scancode", flags |-> flags, code |-> code]
Mouse(pointer_flags, x, y) == [event |-> "mouse", pointer_flags |-> pointer_flags, x |-> x, y |-> y]
Sync(flags) == [event |-> "sync", flags |-> flags]
Unicode(flags, code) == [event |-> "unicode", flags |-> flags, code |-> code]

FastPathInputEvent(e) ==
  CASE e.event = "scancode" -> <<e.flags % 32, e.code>>
    [] e.event = "mouse"    -> <<32>> \o LE16(<<e.pointer_flags, e.x, e.y>>)
    [] e.event = "sync"     -> <<96 + (e.flags % 32)>>
    [] e.event = "unicode"  -> <<128 + (e.flags % 32)>> \o LE(2, e.code)

FastPathInputEvent_decode(b) ==
  Then(ReadLE(b, 1), LAMBDA header, rest :
       LET flags == header % 32 IN
       CASE header \div 32 = 0 -> Map(ReadLE(rest, 1), LAMBDA code : Scancode(flags, code))
         [] header \div 32 = 1 -> Map(Decode(<<U("p", 2), U("x", 2), U("y", 2)>>, rest),
                                      LAMBDA v : Mouse(v.p, v.x, v.y))
         [] header \div 32 = 3 -> Got(Sync(flags), rest)
         [] header \div 32 = 4 -> Map(ReadLE(rest, 2), LAMBDA code : Unicode(flags, code))
         [] OTHER              -> Failed)

\* keyboard_flags: RELEASE, EXTENDED and EXTENDED1, moved from the slow-path bits.
KeyFlags(kb) == Bit(Has(kb, 32768)) + 2 * Bit(Has(kb, 256)) + 4 * Bit(Has(kb, 512))

SlowEvent_peer(e) ==
  LET slow == Bit(Has(e.flags, 1)) * 32768 + Bit(Has(e.flags, 2)) * 256 + Bit(Has(e.flags, 4)) * 512
  IN  LE(4, 0) \o CASE e.event = "scancode" -> LE16(<<0, slow, e.code, 0>>)
                    [] e.event = "mouse"    -> LE16(<<1, e.pointer_flags, e.x, e.y>>)
                    [] e.event = "sync"     -> LE16(<<3, 0>>) \o LE(4, e.flags)
                    [] e.event = "unicode"  -> LE16(<<4, slow, e.code, 0>>)
SlowInput_peer(v) == LE16(<<Len(v.events), 0>>) \o FlattenSeq([i \in DOMAIN v.events |-> SlowEvent_peer(v.events[i])])

SlowEvent(type, b) ==
  CASE type = 0 -> Map(Decode(<<U("kb", 2), U("code", 2), Skip(2)>>, b),
                       LAMBDA v : Scancode(KeyFlags(v.kb), v.code % 256))
    [] type = 1 -> Map(Decode(<<U("p", 2), U("x", 2), U("y", 2)>>, b), LAMBDA v : Mouse(v.p, v.x, v.y))
    [] type = 3 -> Map(Decode(<<Skip(2), U("toggle", 4)>>, b), LAMBDA v : Sync(v.toggle % 256))
    [] type = 4 -> Map(Decode(<<U("kb", 2), U("code", 2), Skip(2)>>, b),
                       LAMBDA v : Unicode(KeyFlags(v.kb) % 2, v.code))

\* An event of another type ends the list; those before it are kept.
RECURSIVE SlowEvents(_, _)
SlowEvents(b, n) ==
  IF n = 0 THEN Got(<<>>, b)
  ELSE Then(Decode(<<Skip(4), U("type", 2)>>, b), LAMBDA h, rest :
            IF h.type \notin {0, 1, 3, 4} THEN Got(<<>>, rest)
            ELSE Then(SlowEvent(h.type, rest), LAMBDA e, r :
                      Map(SlowEvents(r, n - 1), LAMBDA es : <<e>> \o es)))
decode_slowpath_input(b) ==
  Then(Decode(<<U("num_events", 2), Skip(2)>>, b), LAMBDA h, rest :
       Map(SlowEvents(rest, h.num_events), LAMBDA es : [events |-> es]))

----------------------------------------------------------------------------
\* fastpath.rs

\* Mistake: the second length byte is added one byte too late.
encode_fastpath_late(header, prefix, inner) ==
  LET fixed == 1 + Len(prefix) + Len(inner)
  IN  <<header>> \o per_length(IF fixed <= 127 THEN fixed + 1 ELSE fixed + 2) \o prefix \o inner

\* The length counts its own one or two bytes.
encode_fastpath_frame(header, prefix, inner) ==
  LET fixed == 1 + Len(prefix) + Len(inner)
  IN  <<header>> \o per_length(IF fixed < 127 THEN fixed + 1 ELSE fixed + 2) \o prefix \o inner

FastPathInput(v) ==
  LET count  == Len(v.events)
      inline == count \in 1 .. 14
  IN  encode_fastpath_frame(IF inline THEN count * 4 ELSE 0, IF inline THEN <<>> ELSE <<count % 256>>,
                            FlattenSeq([i \in 1 .. count |-> FastPathInputEvent(v.events[i])]))

FastPathHeader(b) ==
  Then(Check(ReadLE(b, 1), LAMBDA h : h % 4 = 0 /\ h \div 64 = 0), LAMBDA h, rest :
       Map(per_read_length(rest), LAMBDA n : [count |-> (h \div 4) % 16, total_length |-> n]))

FastPathInput_decode(b) ==
  Then(FastPathHeader(b), LAMBDA h, r1 :
       Then(IF h.count = 0 THEN ReadLE(r1, 1) ELSE Got(h.count, r1), LAMBDA n, r2 :
            Map(Repeat(n, r2, FastPathInputEvent_decode), LAMBDA es : [events |-> es])))

\* Single, Last, First, Next
Fragmentation == 0 .. 3

FastPathUpdatePdu(u) ==
  <<(u.update_code % 16) + 16 * u.fragmentation>> \o LE(2, Len(u.data) % 65536) \o u.data

RECURSIVE FastPathUpdates(_)
FastPathUpdates(b) ==
  IF b = <<>> THEN Got(<<>>, b)
  ELSE Then(Check(Decode(<<U("header", 1), U("size", 2), Body("data", "size", 0)>>, b),
                  LAMBDA u : ~ Has(u.header, 128)),
            LAMBDA u, rest :
              Map(FastPathUpdates(rest), LAMBDA us :
                  <<[update_code |-> u.header % 16, fragmentation |-> (u.header \div 16) % 4,
                     data |-> u.data]>> \o us))

FastPathOutput(v) ==
  encode_fastpath_frame(0, <<>>, FlattenSeq([i \in DOMAIN v.updates |-> FastPathUpdatePdu(v.updates[i])]))
FastPathOutput_decode(b) ==
  Then(FastPathHeader(b), LAMBDA h, rest :
       Then(read_slice(rest, Monus(h.total_length, Len(b) - Len(rest))), LAMBDA body, after :
            LET us == FastPathUpdates(body)
            IN  IF us.ok THEN Got([updates |-> us.v], after) ELSE Failed))

BitmapNames == <<"dest_left", "dest_top", "dest_right", "dest_bottom", "width", "height", "bits_per_pixel">>

BitmapRect(v) ==
  LET n == Len(v.data)
  IN  LE16([i \in 1 .. 7 |-> v[BitmapNames[i]]])
        \o (IF v.scan_width = <<>> THEN LE16(<<0, n % 65536>>)
            ELSE LE16(<<1, (8 + n) % 65536, 0, n % 65536, v.scan_width[1],
                        (v.height * v.scan_width[1]) % 65536>>))
        \o v.data
BitmapRect_decode(b) ==
  Then(Decode([i \in 1 .. 7 |-> U(BitmapNames[i], 2)] \o <<U("flags", 2), U("bitmap_length", 2)>>, b),
       LAMBDA h, rest :
         IF Has(h.flags, 1)
         THEN Map(Read(rest, <<Skip(2), U("main", 2), U("scan", 2), Skip(2), Body("data", "main", 0)>>, h),
                  LAMBDA v : ("scan_width" :> <<v.scan>>) @@ Fields(v, Range(BitmapNames) \union {"data"}))
         ELSE Map(Read(rest, <<Body("data", "bitmap_length", 0)>>, h),
                  LAMBDA v : ("scan_width" :> <<>>) @@ Fields(v, Range(BitmapNames) \union {"data"})))

BitmapUpdateData(v) ==
  LE16(<<1, Len(v.rectangles)>>) \o FlattenSeq([i \in DOMAIN v.rectangles |-> BitmapRect(v.rectangles[i])])
BitmapUpdateData_decode(b) ==
  Then(Check(Decode(<<U("update_type", 2), U("count", 2)>>, b), LAMBDA h : Has(h.update_type, 1)),
       LAMBDA h, rest : Map(Repeat(h.count, rest, BitmapRect_decode), LAMBDA rs : [rectangles |-> rs]))

----------------------------------------------------------------------------
\* pointer.rs and surface_commands.rs; their readers are the client's.

single_update(code, data) ==
  FastPathOutput([updates |-> <<[update_code |-> code, fragmentation |-> 0, data |-> data]>>])
ptr_default == single_update(6, <<>>)

encode_color_pointer(v, xor, and_mask) ==
  single_update(9, LE16(<<v.cache_index, v.hot_x, v.hot_y, v.width, v.height, Len(and_mask), Len(xor)>>)
                     \o xor \o and_mask)

\* A picture is its rows from the top; the message holds them from the bottom.
encode_rgba_pointer(v) ==
  IF v.width = 0 \/ v.height = 0 \/ Len(v.bgra) < v.width * v.height * 4 THEN ptr_default
  ELSE encode_color_pointer(v,
         FlattenSeq([y \in 1 .. v.height |->
           SubSeq(v.bgra, (v.height - y) * v.width * 4 + 1, (v.height - y + 1) * v.width * 4)]),
         Zeros(((v.width + 15) \div 16) * 2 * v.height))

ColorPointer_peer(b) ==
  Then(FastPathOutput_decode(b), LAMBDA o, rest :
       Map(Decode(<<U("cache_index", 2), U("hot_x", 2), U("hot_y", 2), U("width", 2), U("height", 2),
                    U("and_len", 2), U("xor_len", 2), Body("xor", "xor_len", 0), Body("and", "and_len", 0)>>,
                  o.updates[1].data),
           LAMBDA v : [cache_index |-> v.cache_index, hot_x |-> v.hot_x, hot_y |-> v.hot_y,
                       width |-> v.width, height |-> v.height,
                       bgra |-> FlattenSeq([y \in 1 .. v.height |->
                         SubSeq(v.xor, (v.height - y) * v.width * 4 + 1, (v.height - y + 1) * v.width * 4)])]))

encode_frame_marker(v) == LE16(<<4, v.frame_action>>) \o LE(4, v.frame_id)
FrameMarker_peer == <<Is(<<4, 0>>), U("frame_action", 2), U("frame_id", 4)>>

\* right and bottom saturate at u16::MAX.
encode_set_surface_bits(v) ==
  LE16(<<1, v.left, v.top, Least(v.left + v.width, 65535), Least(v.top + v.height, 65535)>>)
    \o <<32, 0, 0, v.codec_id>> \o LE16(<<v.width, v.height>>) \o LE(4, Len(v.data)) \o v.data
SetSurfaceBits_peer ==
  <<Is(<<1, 0>>), U("left", 2), U("top", 2), Skip(4), Skip(3), U("codec_id", 1), U("width", 2),
    U("height", 2), U("length", 4), Body("data", "length", 0)>>
=============================================================================
