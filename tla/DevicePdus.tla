------------------------------ MODULE DevicePdus ------------------------------
(***************************************************************************)
(* The messages of the device channels: sound (rdpcore-rdpsnd/src/pdu.rs), *)
(* the microphone (rdpcore-rdpeai/src/pdu.rs), the clipboard               *)
(* (rdpcore-cliprdr/src/pdu.rs) and drives (rdpcore-rdpdr/src/pdu.rs and   *)
(* irp.rs).  Conventions are those of ChannelPdus.                         *)
(***************************************************************************)
EXTENDS ChannelPdus

----------------------------------------------------------------------------
\* Sound

snd_header(msg_type, body) == <<msg_type, 0>> \o LE(2, Len(body) % 65536) \o body

pcm(channels, rate, bits) ==
  LET align == channels * (bits \div 8)
  IN  [format_tag |-> 1, n_channels |-> channels, n_samples_per_sec |-> rate,
       n_avg_bytes_per_sec |-> rate * align, n_block_align |-> align, bits_per_sample |-> bits,
       extra_data |-> <<>>]

AudioFormat(f) ==
  LE16(<<f.format_tag, f.n_channels>>) \o LE(4, f.n_samples_per_sec) \o LE(4, f.n_avg_bytes_per_sec)
    \o LE16(<<f.n_block_align, f.bits_per_sample, Len(f.extra_data)>>) \o f.extra_data
AudioFormat_layout ==
  <<U("format_tag", 2), U("n_channels", 2), U("n_samples_per_sec", 4), U("n_avg_bytes_per_sec", 4),
    U("n_block_align", 2), U("bits_per_sample", 2), U("cb_size", 2), Body("extra_data", "cb_size", 0)>>
AudioFormats(fs) == FlattenSeq([i \in DOMAIN fs |-> AudioFormat(fs[i])])
Plain(fs) == [i \in DOMAIN fs |-> Fields(fs[i], DOMAIN fs[i] \ {"cb_size"})]

\* The average rate and the alignment are not compared.
negotiation_eq(f, g) ==
  \A n \in {"format_tag", "n_channels", "n_samples_per_sec", "bits_per_sample", "extra_data"} : f[n] = g[n]

\* Mistake: the number is the server's index, not the client's.
negotiate_by_server(server, client) ==
  LET common == SelectSeq([i \in DOMAIN server |-> i], LAMBDA i : \E f \in Range(client) : negotiation_eq(server[i], f))
  IN  [k \in DOMAIN common |-> [format |-> server[common[k]], format_no |-> common[k] - 1]]

\* One entry per client format the server also has, numbered as the client did.
negotiate_formats(server, client) ==
  LET match(i) == {j \in DOMAIN server : negotiation_eq(server[j], client[i])}
      common == SelectSeq([i \in DOMAIN client |-> i], LAMBDA i : match(i) /= {})
      first(S) == CHOOSE j \in S : \A k \in S : j <= k
  IN  [k \in DOMAIN common |-> [format |-> server[first(match(common[k]))], format_no |-> common[k] - 1]]

server_audio_formats(v) ==
  snd_header(7, Zeros(14) \o LE(2, Len(v.formats)) \o <<0>> \o LE(2, 8) \o <<0>> \o AudioFormats(v.formats))
encode_training == snd_header(6, Zeros(4))

\* A wave before version 8 is two messages: the first four bytes travel in
\* the first, and the second leaves room for them.
encode_wave_info(v) ==
  <<2, 0>> \o LE(2, (8 + Len(v.data)) % 65536) \o LE16(<<v.timestamp % 65536, v.format_no>>)
    \o <<v.block_no, 0, 0, 0>> \o SubSeq(v.data, 1, 4)
encode_wave_rest(v) == Zeros(4) \o From(v.data, 4)

encode_wave2(v) ==
  snd_header(13, LE16(<<v.timestamp % 65536, v.format_no>>) \o <<v.block_no, 0, 0, 0>> \o LE(4, v.timestamp) \o v.data)

\* The client's readers and its messages.
SndFormats_peer ==
  <<Is(<<7>>), Skip(1), U("body_len", 2), Skip(14), U("count", 2), Skip(1), Is(LE(2, 8)), Skip(1),
    List("formats", "count", AudioFormat_layout)>>
Wave2_peer ==
  <<Is(<<13>>), Skip(1), U("body_len", 2), Skip(2), U("format_no", 2), U("block_no", 1), Skip(3),
    U("timestamp", 4), Body("data", "body_len", 12)>>
\* Both halves, one after the other, as the client takes them from the channel.
Wave_peer(b) ==
  Map(Decode(<<Is(<<2>>), Skip(1), U("body_len", 2), U("timestamp", 2), U("format_no", 2), U("block_no", 1), Skip(3),
               Raw("first", 4), Is(Zeros(4)), Body("rest", "body_len", 12)>>, b),
      LAMBDA v : [timestamp |-> v.timestamp, format_no |-> v.format_no, block_no |-> v.block_no,
                  data |-> v.first \o v.rest])
ClientFormats_peer(v) ==
  snd_header(7, Zeros(14) \o LE(2, Len(v.formats)) \o <<0>> \o LE(2, v.version) \o <<0>> \o AudioFormats(v.formats))
WaveConfirm_peer(v) == snd_header(5, LE(2, v.timestamp) \o <<v.block_no, 0>>)

SndMessage(b) ==
  Then(Decode(<<U("type", 1), Skip(1), U("len", 2), Body("body", "len", 0)>>, b), LAMBDA h, rest :
       Within(CASE h.type = 7 ->
                     Map(Decode(<<Skip(12), Skip(2), U("count", 2), Skip(1), U("version", 2), Skip(1),
                                  List("formats", "count", AudioFormat_layout)>>, h.body),
                         LAMBDA v : [message |-> "AudioFormats", version |-> v.version, formats |-> Plain(v.formats)])
                [] h.type = 5 -> Named(Decode(<<U("timestamp", 2), U("block_no", 1)>>, h.body), "WaveConfirm")
                [] h.type = 6 -> Got(Message("TrainingConfirm"), <<>>)
                [] h.type = 12 -> Got(Message("QualityMode"), <<>>)
                [] OTHER -> Got(Message("Other"), <<>>), rest))

----------------------------------------------------------------------------
\* The microphone

mic_version(v) == <<1>> \o LE(4, v.version)
mic_formats(v) == LET fs == AudioFormats(v.formats) IN <<2>> \o LE(4, Len(v.formats)) \o LE(4, Len(fs)) \o fs
mic_open(v) == <<3>> \o LE(4, v.frames_per_packet) \o LE(4, v.initial_format_index) \o AudioFormat(v.format)
MicOpen_peer == <<Is(<<3>>), U("frames_per_packet", 4), U("initial_format_index", 4), Sub("format", AudioFormat_layout)>>
MicReply_peer(v) == <<4>> \o LEPair(v.result)
MicFormatChange_peer(v) == <<7>> \o LE(4, v.new_format)

MicMessage(b) ==
  Then(ReadLE(b, 1), LAMBDA id, rest :
       CASE id = 1 -> Named(Decode(<<U("version", 4)>>, rest), "Version")
         [] id = 2 -> Map(Decode(<<U("count", 4), Skip(4), List("formats", "count", AudioFormat_layout)>>, rest),
                          LAMBDA v : [message |-> "Formats", formats |-> Plain(v.formats)])
         [] id = 4 -> Named(Decode(<<Pair("result")>>, rest), "OpenReply")
         [] id = 5 -> Got(Message("DataIncoming"), rest)
         [] id = 6 -> Named(Decode(<<Rest("data")>>, rest), "Data")
         [] id = 7 -> Named(Decode(<<U("new_format", 4)>>, rest), "FormatChange")
         [] OTHER  -> Got(Message("Other"), rest))

----------------------------------------------------------------------------
\* The clipboard

clip_header(msg_type, flags, body) == LE16(<<msg_type, flags>>) \o LE(4, Len(body)) \o body

encode_capabilities == clip_header(7, 0, LE16(<<1, 0, 1, 12>>) \o LE(4, 2) \o LE(4, 2))
encode_monitor_ready == clip_header(1, 0, <<>>)
format_list_unicode_text == clip_header(2, 0, LE(4, 13) \o Zeros(2))
format_list_response_ok == clip_header(3, 1, <<>>)
format_data_request(v) == clip_header(4, 0, LE(4, v.format_id))
format_data_response_text(text) == clip_header(5, 1, encode_units(text) \o Zeros(2))
format_data_response_error == clip_header(5, 2, <<>>)

\* A long-format list: an id and a zero-terminated name, as often as it fits.
RECURSIVE decode_format_list(_), SkipName(_)
SkipName(b) ==
  IF Len(b) < 2 THEN b ELSE IF b[1] = 0 /\ b[2] = 0 THEN From(b, 2) ELSE SkipName(From(b, 2))
decode_format_list(b) ==
  IF Len(b) < 4 THEN <<>> ELSE <<FromLE(SubSeq(b, 1, 4))>> \o decode_format_list(SkipName(From(b, 4)))

\* Mistake: only the first unit decides, so text that starts outside Latin-1
\* is taken for single bytes.
decode_text_first_unit(b) ==
  IF Len(b) >= 2 /\ Len(b) % 2 = 0 /\ b[2] = 0 THEN read_fixed(b) ELSE UpToNul(b)

\* UTF-16 when the length is even and a zero is where UTF-16 would put one.
decode_text_body(b) ==
  IF /\ Len(b) >= 2
     /\ Len(b) % 2 = 0
     /\ b[2] = 0 \/ \E i \in 3 .. Len(b) : i % 2 = 1 /\ b[i] = 0
  THEN read_fixed(b) ELSE UpToNul(b)

FormatList_peer(v) ==
  clip_header(2, 0, FlattenSeq([i \in DOMAIN v.formats |->
                                LE(4, v.formats[i].id) \o encode_units(v.formats[i].name) \o Zeros(2)]))

ClipMessage(b) ==
  Then(Decode(<<U("type", 2), U("flags", 2), U("len", 4), Body("body", "len", 0)>>, b), LAMBDA h, rest :
       Within(CASE h.type = 2 -> Got([message |-> "FormatList", ids |-> decode_format_list(h.body)], <<>>)
                [] h.type = 3 -> Got(Message("FormatListResponse"), <<>>)
                [] h.type = 4 -> Named(Decode(<<U("format_id", 4)>>, h.body), "FormatDataRequest")
                [] h.type = 5 -> Got(IF Has(h.flags, 2) THEN Message("Failed")
                                     ELSE [message |-> "Text", text |-> decode_text_body(h.body)], <<>>)
                [] OTHER -> Got(Message("Other"), <<>>), rest))

----------------------------------------------------------------------------
\* Drives

RDPDR_CTYP_CORE == 17522
dr_header(packet_id) == LE16(<<RDPDR_CTYP_CORE, packet_id>>)
server_announce_request(v) == dr_header(18798) \o LE16(<<1, 12>>) \o LE(4, v.client_id)
client_id_confirm(v) == dr_header(17219) \o LE16(<<1, 12>>) \o LE(4, v.client_id)
encode_user_logged_on == dr_header(21836)
encode_device_reply(v) == dr_header(25714) \o LE(4, v.device_id) \o LEPair(v.status)

RDPDR_DTYP_FILESYSTEM == 8
RDPDR_DTYP_PRINT == 4

server_capability_request(v) ==
  LET optional(type, cap, version) ==
        IF Has(v.supported, type) THEN <<LE16(<<cap, 8>>) \o LE(4, version)>> ELSE <<>>
      caps == <<LE16(<<1, 44>>) \o LE(4, 2) \o Zeros(8) \o LE16(<<1, 12>>) \o <<255, 255, 255, 255>> \o Zeros(4)
                  \o LE(4, 7) \o LE(4, 1) \o Zeros(8)>>
              \o optional(RDPDR_DTYP_FILESYSTEM, 4, 2) \o optional(RDPDR_DTYP_PRINT, 2, 1)
  IN  dr_header(21328) \o LE16(<<Len(caps), 0>>) \o FlattenSeq(caps)

\* Trailing NULs only; an ASCII string has one byte to a character.
TrimNuls(s) ==
  LET kept == {i \in DOMAIN s : s[i] /= 0}
  IN  IF kept = {} THEN <<>> ELSE SubSeq(s, 1, CHOOSE i \in kept : \A j \in kept : j <= i)
decode_printer_string(b, len, ascii) ==
  Map(read_slice(b, len), LAMBDA s : TrimNuls(IF ascii THEN s ELSE decode_units(s)))

decode_printer_device_data(b) ==
  Then(Decode(<<U("flags", 4), Skip(4), U("pnp", 4), U("driver", 4), U("print", 4), Skip(4)>>, b), LAMBDA h, r1 :
       LET ascii == Has(h.flags, 1) IN
       Then(decode_printer_string(r1, h.pnp, ascii), LAMBDA p, r2 :
            Then(decode_printer_string(r2, h.driver, ascii), LAMBDA driver, r3 :
                 Map(decode_printer_string(r3, h.print, ascii), LAMBDA name :
                     [driver_name |-> driver, print_name |-> name, is_default |-> Has(h.flags, 2)]))))

Printer_peer(v) ==
  LET text(s) == encode_units(s) \o Zeros(2)
  IN  LE(4, IF v.is_default THEN 2 ELSE 0) \o Zeros(8) \o LE(4, Len(text(v.driver_name)))
        \o LE(4, Len(text(v.print_name))) \o Zeros(4) \o text(v.driver_name) \o text(v.print_name)

DeviceAnnounce_layout ==
  <<U("device_type", 4), U("device_id", 4), Ansi("preferred_dos_name", 8), U("data_length", 4),
    Body("device_data", "data_length", 0)>>
DeviceList_peer(v) ==
  dr_header(17473) \o LE(4, Len(v.devices)) \o FlattenSeq([i \in DOMAIN v.devices |->
    LE(4, v.devices[i].device_type) \o LE(4, v.devices[i].device_id)
      \o SubSeq(v.devices[i].preferred_dos_name \o Zeros(8), 1, 8)
      \o LE(4, Len(v.devices[i].device_data)) \o v.devices[i].device_data])
DeviceRemove_peer(v) ==
  dr_header(17485) \o LE(4, Len(v.device_ids)) \o FlattenSeq([i \in DOMAIN v.device_ids |-> LE(4, v.device_ids[i])])
Completion_peer(v) ==
  dr_header(18755) \o LE(4, v.device_id) \o LE(4, v.completion_id) \o LEPair(v.io_status) \o v.body

RdpdrMessage(b) ==
  Then(Decode(<<Skip(2), U("packet_id", 2)>>, b), LAMBDA h, body :
       CASE h.packet_id = 17219 -> Got(Message("AnnounceReply"), body)
         [] h.packet_id = 17230 -> Got(Message("ClientName"), body)
         [] h.packet_id = 17232 -> Got(Message("ClientCapability"), body)
         [] h.packet_id = 17473 ->
              Map(Decode(<<U("count", 4), List("devices", "count", DeviceAnnounce_layout)>>, body), LAMBDA v :
                  [message |-> "DeviceListAnnounce", devices |-> [i \in DOMAIN v.devices |->
                     Fields(v.devices[i], {"device_type", "device_id", "preferred_dos_name", "device_data"})]])
         [] h.packet_id = 17485 ->
              Map(Decode(<<U("count", 4), List("ids", "count", <<U("id", 4)>>)>>, body), LAMBDA v :
                  [message |-> "DeviceListRemove", device_ids |-> [i \in DOMAIN v.ids |-> v.ids[i].id]])
         [] h.packet_id = 21836 -> Got(Message("UserLoggedOn"), body)
         [] h.packet_id = 18755 ->
              Named(Decode(<<U("device_id", 4), U("completion_id", 4), Pair("io_status"), Rest("body")>>, body),
                    "DeviceIoCompletion")
         [] OTHER -> Got(Message("Other"), body))

----------------------------------------------------------------------------
\* irp.rs: the server's requests, and the bodies of the client's completions.

io_request(v, file_id, major, minor, body) ==
  dr_header(18770) \o LE(4, v.device_id) \o LE(4, file_id) \o LE(4, v.completion_id) \o LE(4, major)
    \o LE(4, minor) \o body

PathBytes(path) == encode_units(path) \o Zeros(2)

irp_create(v) ==
  LET path == PathBytes(v.path)
  IN  io_request(v, 0, 0, 0, LEPair(v.desired_access) \o Zeros(12) \o LE(4, 7) \o LE(4, v.create_disposition)
                               \o LE(4, v.create_options) \o LE(4, Len(path)) \o path)
irp_close(v) == io_request(v, v.file_id, 2, 0, Zeros(32))
irp_read(v) == io_request(v, v.file_id, 3, 0, LE(4, v.length) \o LE(8, v.offset) \o Zeros(20))
irp_write(v) == io_request(v, v.file_id, 4, 0, LE(4, Len(v.data)) \o LE(8, v.offset) \o Zeros(20) \o v.data)

\* No path continues the listing where the last answer left it.
irp_query_directory(v) ==
  LET path == IF v.path = <<>> THEN <<>> ELSE PathBytes(v.path[1])
  IN  io_request(v, v.file_id, 12, 1, LE(4, 1) \o <<Len(v.path)>> \o LE(4, Len(path)) \o Zeros(23) \o path)

irp_set_information(v, class, buffer) ==
  io_request(v, v.file_id, 6, 0, LE(4, class) \o LE(4, Len(buffer)) \o Zeros(24) \o buffer)
set_disposition(v) == irp_set_information(v, 13, <<IF v.delete THEN 1 ELSE 0>>)
set_rename(v) ==
  LET name == PathBytes(v.new_path)
  IN  irp_set_information(v, 10, <<IF v.replace THEN 1 ELSE 0, 0>> \o LE(4, Len(name)) \o name)
set_end_of_file(v) == irp_set_information(v, 20, LE(8, v.end_of_file))
set_basic_information(v) ==
  irp_set_information(v, 4, LE(8, v.creation_time) \o LE(8, v.last_access_time) \o LE(8, v.last_write_time)
                              \o LE(8, v.change_time) \o LE(4, v.file_attributes))

\* The client's reader: 32 bytes of parameters, then what they count.
Irp_layout(major) ==
  CASE major = 0  -> <<Pair("desired_access"), Skip(12), U("shared", 4), U("create_disposition", 4),
                       U("create_options", 4), U("path_length", 4), Utf16("path", "path_length", 2), Skip(2)>>
    [] major = 2  -> <<Skip(32)>>
    [] major = 3  -> <<U("length", 4), U("offset", 8), Skip(20)>>
    [] major = 4  -> <<U("length", 4), U("offset", 8), Skip(20), Body("data", "length", 0)>>
    [] major = 12 -> <<Skip(4), U("initial", 1), U("path_length", 4), Skip(23), Body("path_bytes", "path_length", 0)>>
    [] major = 6  -> <<U("class", 4), U("length", 4), Skip(24), Body("buffer", "length", 0)>>

SetInformation_layout(class) ==
  CASE class = 13 -> <<U("flag", 1)>>
    [] class = 10 -> <<U("flag", 1), Skip(1), U("len", 4), Utf16("new_path", "len", 2), Skip(2)>>
    [] class = 20 -> <<U("end_of_file", 8)>>
    [] class = 4  -> <<U("creation_time", 8), U("last_access_time", 8),
                       U("last_write_time", 8), U("change_time", 8), U("file_attributes", 4)>>

Irp_peer(b) ==
  Then(Decode(<<Is(dr_header(18770)), U("device_id", 4), U("file_id", 4), U("completion_id", 4),
                U("major", 4), U("minor", 4)>>, b), LAMBDA h, body :
       Then(Read(body, Irp_layout(h.major), h), LAMBDA v, rest :
            IF h.major /= 6 THEN Got(v, rest)
            ELSE Within(Read(v.buffer, SetInformation_layout(v.class),
                             Fields(v, {"class"}) @@ h), rest)))

decode_create_reply == <<U("file_id", 4), U("information", 1)>>
decode_read_reply == <<U("length", 4), Body("data", "length", 0)>>
decode_write_reply == <<U("length", 4)>>

DirectoryEntry_layout ==
  <<Skip(4), U("file_index", 4), U("creation_time", 8), U("last_access_time", 8), U("last_write_time", 8),
    U("change_time", 8), U("end_of_file", 8), U("allocation_size", 8), U("file_attributes", 4),
    U("name_length", 4), Utf16("file_name", "name_length", 0)>>

\* Mistake: the reply's length is not used to bound the entry.
query_reply_unbounded(b) ==
  Map(Decode(<<Skip(4)>> \o DirectoryEntry_layout, b), LAMBDA e : <<Fields(e, DOMAIN e \ {"name_length"})>>)

\* An empty reply, or one of length zero, ends the listing.
decode_query_directory_reply(b) ==
  IF b = <<>> THEN Got(<<>>, b)
  ELSE Then(ReadLE(b, 4), LAMBDA length, r1 :
            IF length = 0 THEN Got(<<>>, r1)
            ELSE Then(read_slice(r1, length), LAMBDA entry, r2 :
                      Within(Map(Decode(DirectoryEntry_layout, entry),
                                 LAMBDA e : <<Fields(e, DOMAIN e \ {"name_length"})>>), r2)))

DirectoryEntry_peer(e) ==
  LET body == LE(4, 0) \o LE(4, e.file_index) \o LE(8, e.creation_time) \o LE(8, e.last_access_time)
                \o LE(8, e.last_write_time) \o LE(8, e.change_time) \o LE(8, e.end_of_file)
                \o LE(8, e.allocation_size) \o LE(4, e.file_attributes) \o LE(4, 2 * Len(e.file_name))
                \o encode_units(e.file_name)
  IN  LE(4, Len(body)) \o body
=============================================================================
