----------------------------- MODULE SessionPdus -----------------------------
(***************************************************************************)
(* The messages after the connection sequence: the capability exchange     *)
(* (capability_sets.rs), the client's credentials and the licence          *)
(* (client_info.rs, licensing.rs), finalization and slow-path data         *)
(* (finalization.rs), fast-path input and output (fastpath.rs), pointer    *)
(* updates and surface commands.  Conventions are those of ConnectPdus.    *)
(***************************************************************************)
EXTENDS Wire

----------------------------------------------------------------------------
\* headers.rs and client_info.rs

BasicSecurityHeader(flags) == LE(2, flags) \o LE(2, 0)
BasicSecurityHeader_layout == <<U("sec_flags", 2), Skip(2)>>
INFO_PKT == 64
LICENSE_PKT == 128
UNICODE == 16

write_len_included_string(s) == LE(2, 2 * Len(s) + 2) \o encode_units(s) \o Zeros(2)
read_len_included_string(b) ==
  Then(ReadLE(b, 2), LAMBDA n, rest : Map(read_slice(rest, n), read_fixed))

ExtendedClientInfo(v) ==
  LE(2, v.address_family) \o write_len_included_string(v.address) \o write_len_included_string(v.dir)
ExtendedClientInfo_decode(b) ==
  Then(ReadLE(b, 2), LAMBDA family, r1 :
       Then(read_len_included_string(r1), LAMBDA address, r2 :
            Map(read_len_included_string(r2), LAMBDA dir :
                [address_family |-> family, address |-> address, dir |-> dir])))

InfoStrings == <<"domain", "username", "password", "alternate_shell", "working_dir">>

ClientInfo(v) ==
  LE(4, v.code_page) \o LE(4, IF Has(v.flags, UNICODE) THEN v.flags ELSE v.flags + UNICODE)
    \o FlattenSeq([i \in 1 .. 5 |-> LE(2, 2 * Len(v[InfoStrings[i]]))])
    \o FlattenSeq([i \in 1 .. 5 |-> encode_units(v[InfoStrings[i]]) \o Zeros(2)])
    \o ExtendedClientInfo(v.extended)

\* Mistake: the terminator is taken to be part of the counted string.
read_string_counted(b, len) == Map(read_slice(b, len), read_fixed)

\* The two bytes of the terminator follow the counted ones.
read_string_body(b, len) ==
  Then(Map(read_slice(b, len), decode_units), LAMBDA s, rest : Map(read_slice(rest, 2), LAMBDA nul : s))

RECURSIVE read_strings(_, _, _, _)
read_strings(b, i, lens, got) ==
  IF i > 5 THEN Got(got, b)
  ELSE Then(read_string_body(b, lens[i].cb), LAMBDA s, rest :
            read_strings(rest, i + 1, lens, (InfoStrings[i] :> s) @@ got))

ClientInfo_decode(b) ==
  Then(Check(Decode(<<U("code_page", 4), U("flags", 4)>>, b), LAMBDA v : Has(v.flags, UNICODE)),
       LAMBDA v, r1 :
         Then(ReadList(r1, <<U("cb", 2)>>, 5), LAMBDA lens, r2 :
              Then(read_strings(r2, 1, lens, v), LAMBDA got, r3 :
                   Map(ExtendedClientInfo_decode(r3), LAMBDA x : ("extended" :> x) @@ got))))

ClientInfoPdu(v) == BasicSecurityHeader(INFO_PKT) \o ClientInfo(v)
ClientInfoPdu_decode(b) ==
  Then(Check(Decode(BasicSecurityHeader_layout, b), LAMBDA h : Has(h.sec_flags, INFO_PKT)),
       LAMBDA h, rest : ClientInfo_decode(rest))

----------------------------------------------------------------------------
\* licensing.rs

encode_valid_client ==
  BasicSecurityHeader(LICENSE_PKT) \o <<255, 3>> \o LE(2, 16) \o LE(4, 7) \o LE(4, 2) \o LE(2, 4) \o LE(2, 0)
decode_valid_client(b) ==
  Map(Check(Decode(BasicSecurityHeader_layout \o
                     <<Is(<<255>>), Skip(1), Skip(2), Is(LE(4, 7)), Skip(4), Skip(2), Is(Zeros(2))>>, b),
            LAMBDA h : Has(h.sec_flags, LICENSE_PKT)),
      LAMBDA h : <<>>)

----------------------------------------------------------------------------
\* capability_sets.rs

DemandActiveType == 1
ConfirmActiveType == 3
DeactivateAllType == 6
DataType == 7

ShareControlHeader(type, v, body) ==
  LE(2, (10 + Len(body)) % 65536) \o LE(2, 16 + type) \o LE(2, v.pdu_source) \o LE(4, v.share_id) \o body

ShareControlHeader_decode(b, type) ==
  Check(Decode(<<U("total_length", 2), U("raw_type", 2), U("pdu_source", 2), U("share_id", 4)>>, b),
        LAMBDA h : h.raw_type = 16 + type)

write_capset(type, body) == LE(2, type) \o LE(2, (Len(body) + 4) % 65536) \o body
RawCapabilitySet_layout == <<U("set_type", 2), U("length", 2), BodyLeft("body", "length", 4)>>

CAPSET_GENERAL == 1
CAPSET_BITMAP == 2
CAPSET_ORDER == 3
CAPSET_POINTER == 8
CAPSET_INPUT == 13
CAPSET_VIRTUAL_CHANNEL == 20
CAPSET_MULTIFRAGMENT_UPDATE == 26
CAPSET_SURFACE_COMMANDS == 28
CAPSET_BITMAP_CODECS == 29

Bit(flag) == IF flag THEN 1 ELSE 0

GeneralCapability(v) ==
  LE16(<<1, 3, 512, 0, 0, v.extra_flags, 0, 0, 0>>)
    \o <<Bit(v.refresh_rect_support), Bit(v.suppress_output_support)>>
GeneralCapability_decode(body) ==
  Map(Decode(<<Skip(8), Is(Zeros(2)), U("extra_flags", 2), Skip(6), U("refresh", 1), U("suppress", 1)>>, body),
      LAMBDA v : [extra_flags |-> v.extra_flags, refresh_rect_support |-> v.refresh /= 0,
                  suppress_output_support |-> v.suppress /= 0])

BitmapCapability(v) ==
  LE16(<<v.preferred_bits_per_pixel, 1, 1, 1, v.desktop_width, v.desktop_height, 0,
         Bit(v.desktop_resize_flag), 1>>) \o <<0, 8>> \o LE16(<<1, 0>>)
BitmapCapability_decode(body) ==
  Map(Check(Decode(<<U("bpp", 2), Skip(6), U("width", 2), U("height", 2), Skip(2), U("resize", 2),
                     U("compression", 2), Skip(6)>>, body),
            LAMBDA v : v.compression /= 0),
      LAMBDA v : [preferred_bits_per_pixel |-> v.bpp, desktop_width |-> v.width,
                  desktop_height |-> v.height, desktop_resize_flag |-> v.resize /= 0])

OrderCapability == Zeros(20) \o LE16(<<1, 20, 0, 1, 0, 2>>) \o Zeros(32 + 20)
OrderCapability_decode(body) == IF Len(body) < 84 THEN Failed ELSE Got(<<>>, <<>>)

PointerCapability(v) == LE16(<<1, v.color_pointer_cache_size, v.pointer_cache_size>>)
PointerCapability_layout == <<Skip(2), U("color_pointer_cache_size", 2), U("pointer_cache_size", 2)>>

InputCapability(v) ==
  LE16(<<v.input_flags, 0>>) \o LE(4, v.keyboard_layout) \o LE(4, v.keyboard_type)
    \o LE(4, v.keyboard_subtype) \o LE(4, v.keyboard_function_key) \o Zeros(64)
InputCapability_layout ==
  <<U("input_flags", 2), Skip(2), U("keyboard_layout", 4), U("keyboard_type", 4),
    U("keyboard_subtype", 4), U("keyboard_function_key", 4), Skip(64)>>

\* flags of the virtual channel set, max_request_size of the multifragment one
VirtualChannelCapability(v) == LE(4, v.flags)
VirtualChannelCapability_layout == <<U("flags", 4)>>
MultiFragmentUpdateCapability(v) == LE(4, v.max_request_size)
MultiFragmentUpdateCapability_layout == <<U("max_request_size", 4)>>

SurfaceCommandsCapability == LE(4, 82) \o LE(4, 0)

NSCODEC_GUID ==
  <<185, 27, 141, 202, 15, 0, 79, 21, 88, 159, 174, 45, 26, 135, 226, 214>>

Clamp(lo, hi, v) == IF v < lo THEN lo ELSE IF v > hi THEN hi ELSE v

BitmapCodecsCapability(v) ==
  <<1>> \o NSCODEC_GUID \o <<v.nscodec_id>> \o LE(2, 3) \o <<1, 1, Clamp(1, 7, v.color_loss_level)>>

ServerCapabilities(v) ==
  <<write_capset(CAPSET_GENERAL, GeneralCapability(v.general)),
    write_capset(CAPSET_BITMAP, BitmapCapability(v.bitmap)),
    write_capset(CAPSET_ORDER, OrderCapability),
    write_capset(CAPSET_POINTER, PointerCapability(v.pointer)),
    write_capset(CAPSET_INPUT, InputCapability(v.input)),
    write_capset(CAPSET_VIRTUAL_CHANNEL, VirtualChannelCapability(v.virtual_channel)),
    write_capset(CAPSET_MULTIFRAGMENT_UPDATE, MultiFragmentUpdateCapability(v.multifragment_update)),
    write_capset(CAPSET_SURFACE_COMMANDS, SurfaceCommandsCapability),
    write_capset(CAPSET_BITMAP_CODECS, BitmapCodecsCapability(v.bitmap_codecs))>>

\* DemandActive and what a client sends back share this shape.
CapabilityBody(descriptor, sets) ==
  LET all == FlattenSeq(sets)
  IN  LE16(<<Len(descriptor), (4 + Len(all)) % 65536>>) \o descriptor \o LE16(<<Len(sets), 0>>) \o all

DemandActive(v) ==
  ShareControlHeader(DemandActiveType, v, CapabilityBody(<<0>>, ServerCapabilities(v.capabilities)) \o LE(4, 0))

DeactivateAllPdu(v) == ShareControlHeader(DeactivateAllType, v, LE(2, 0))

\* The client's side of the two.
DemandActive_peer(b) ==
  Then(ShareControlHeader_decode(b, DemandActiveType), LAMBDA h, rest :
       Read(rest, <<U("descriptor", 2), U("combined", 2), Body("", "descriptor", 0), U("count", 2), Skip(2),
                    List("sets", "count", RawCapabilitySet_layout), Skip(4)>>, h))
ConfirmActive_peer(v) ==
  ShareControlHeader(ConfirmActiveType, v,
    LE(2, v.originator_id)
      \o CapabilityBody(<<77, 0>>, [i \in DOMAIN v.capabilities |->
                                    write_capset(v.capabilities[i].set_type, v.capabilities[i].body)]))
DeactivateAllPdu_peer(b) ==
  Then(ShareControlHeader_decode(b, DeactivateAllType), LAMBDA h, rest :
       Read(rest, <<U("descriptor", 2), Body("", "descriptor", 0)>>, h))

RECURSIVE ReadSets(_, _)
ReadSets(b, n) ==
  LET r == Decode(RawCapabilitySet_layout, b)
  IN  IF n = 0 \/ ~ r.ok THEN <<>>
      ELSE <<Fields(r.v, {"set_type", "body"})>> \o ReadSets(r.rest, n - 1)

\* read_u16_le().unwrap_or(0), and a cursor that stays where it was.
OrZero(b) == IF Len(b) < 2 THEN Got(0, b) ELSE ReadLE(b, 2)

\* Past the header a short body is not an error: what is missing is left out.
ConfirmActive_decode(b) ==
  Map(ShareControlHeader_decode(b, ConfirmActiveType), LAMBDA h :
      LET originator == OrZero(From(b, 10))
          descriptor == OrZero(originator.rest)
          combined   == OrZero(descriptor.rest)
          list       == From(combined.rest, Least(descriptor.v, Len(combined.rest)))
          count      == OrZero(list)
      IN  [share_id |-> h.share_id, pdu_source |-> h.pdu_source, originator_id |-> originator.v,
           capabilities |-> IF Len(list) < 4 THEN <<>> ELSE ReadSets(From(list, 4), count.v)])

\* The first set of a type, as a zero- or one-element sequence.
find_set(sets, type) ==
  LET at == {i \in DOMAIN sets : sets[i].set_type = type}
  IN  IF at = {} THEN <<>> ELSE <<sets[CHOOSE i \in at : \A j \in at : i <= j].body>>

parse_client_max_request_size(sets) ==
  LET body == find_set(sets, CAPSET_MULTIFRAGMENT_UPDATE)
      r    == Decode(MultiFragmentUpdateCapability_layout, body[1])
  IN  IF body = <<>> THEN <<>> ELSE IF r.ok /\ r.v.max_request_size > 0 THEN <<r.v.max_request_size>> ELSE <<>>

\* Mistake: a codec of another kind is skipped without its properties.
SkipHeaderOnly(b) == Decode(<<Skip(1), Skip(2)>>, b)

SkipCodec(b) == Decode(<<Skip(1), U("prop_len", 2), Body("", "prop_len", 0)>>, b)

NsCodecProperties(b, server_cll) ==
  LET r == Check(Decode(<<U("codec_id", 1), U("prop_len", 2), Skip(2), U("cll", 1)>>, b),
                 LAMBDA v : v.prop_len >= 3)
  IN  IF r.ok THEN <<[codec_id |-> r.v.codec_id,
                      color_loss_level |-> Least(Clamp(1, 7, r.v.cll), IF server_cll < 1 THEN 1 ELSE server_cll)]>>
      ELSE <<>>

RECURSIVE FindNsCodec(_, _, _)
FindNsCodec(b, n, server_cll) ==
  LET guid == read_slice(b, 16)
      next == SkipCodec(guid.rest)
  IN  IF n = 0 \/ ~ guid.ok THEN <<>>
      ELSE IF guid.v = NSCODEC_GUID THEN NsCodecProperties(guid.rest, server_cll)
      ELSE IF next.ok THEN FindNsCodec(next.rest, n - 1, server_cll) ELSE <<>>

parse_client_nscodec(sets, server_cll) ==
  LET body == find_set(sets, CAPSET_BITMAP_CODECS)
  IN  IF body = <<>> THEN <<>>
      ELSE IF body[1] = <<>> THEN <<>> ELSE FindNsCodec(From(body[1], 1), body[1][1], server_cll)
=============================================================================
