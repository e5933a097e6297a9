----------------------------- MODULE ConnectPdus -----------------------------
(***************************************************************************)
(* The messages of the connection sequence: TPKT and X.224 framing         *)
(* (tpkt.rs, tpdu.rs, x224.rs), the MCS connect and domain PDUs (mcs.rs)   *)
(* and the GCC conference data inside them (gcc.rs).  An operator named    *)
(* after a Rust type is its encoder; the one with the suffix _decode is    *)
(* its decoder.  An optional field is an empty or one-element sequence.    *)
(***************************************************************************)
EXTENDS Wire

----------------------------------------------------------------------------
\* tpkt.rs and tpdu.rs

TpktHeader(packet_length) == <<3, 0>> \o BE(2, packet_length % 65536)
TpktLayout == <<Is(<<3>>), Skip(1), B("packet_length", 2)>>

CONNECTION_REQUEST == 224
CONNECTION_CONFIRM == 208
DATA == 240

header_fixed_part_size(code) == IF code = DATA THEN 3 ELSE 7

for_pdu(code, variable) == (header_fixed_part_size(code) - 1 + variable) % 256

TpduHeader(li, code) == <<li, code>> \o (IF code = DATA THEN <<128>> ELSE Zeros(5))

decode_x224_header(b, code) ==
  LET fixed == header_fixed_part_size(code)
  IN  Then(Decode(TpktLayout, b), LAMBDA h, rest :
           Check(Decode(<<U("li", 1), Is(<<code>>), Skip(fixed - 2)>>, rest),
                 LAMBDA t : t.li /= 255 /\ t.li + 1 >= fixed))

variable_part_size(t, code) == t.li + 1 - header_fixed_part_size(code)

----------------------------------------------------------------------------
\* x224.rs

encode_x224(code, body) ==
  LET li == for_pdu(code, Len(body))
  IN  TpktHeader(4 + li + 1) \o TpduHeader(li, code) \o body

\* "Cookie: mstshash="
COOKIE_PREFIX ==
  <<67, 111, 111, 107, 105, 101, 58, 32, 109, 115, 116, 115, 104, 97, 115, 104, 61>>

ConnectionRequest(v) ==
  encode_x224(CONNECTION_REQUEST,
              (IF v.cookie = <<>> THEN <<>> ELSE COOKIE_PREFIX \o v.cookie[1] \o <<13, 10>>)
                \o <<1, v.flags>> \o LE(2, 8) \o LE(4, v.protocol))

read_cookie(b) ==
  LET n    == Len(COOKIE_PREFIX)
      rest == From(b, n)
      ends == {i \in 1 .. Len(rest) - 1 : rest[i] = 13 /\ rest[i + 1] = 10}
      end  == CHOOSE i \in ends : \A j \in ends : i <= j
  IN  IF Len(b) < n + 2 \/ SubSeq(b, 1, n) /= COOKIE_PREFIX THEN Got(<<>>, b)
      ELSE IF ends = {} THEN Failed
      ELSE Got(<<SubSeq(rest, 1, end - 1)>>, From(rest, end + 1))

ConnectionRequest_decode(b) ==
  Then(decode_x224_header(b, CONNECTION_REQUEST), LAMBDA t, rest :
       IF Len(rest) < variable_part_size(t, CONNECTION_REQUEST) THEN Failed
       ELSE Then(read_cookie(rest), LAMBDA cookie, nego :
                 Read(nego, <<Is(<<1>>), U("flags", 1), Skip(2), U("protocol", 4)>>,
                      "cookie" :> cookie)))

ConnectionConfirm(v) ==
  encode_x224(CONNECTION_CONFIRM, <<v.type, v.flags>> \o LE(2, 8) \o LE(4, v.code))

ConnectionConfirm_decode(b) ==
  Then(decode_x224_header(b, CONNECTION_CONFIRM), LAMBDA t, rest :
       LET size == variable_part_size(t, CONNECTION_CONFIRM)
       IN  IF Len(rest) < size \/ size < 8 THEN Failed
           ELSE Check(Decode(<<U("type", 1), U("flags", 1), Skip(2), U("code", 4)>>, rest),
                      LAMBDA v : v.type \in {2, 3}))

\* Mistake: the data TPDU's length indicator counts the payload, as the
\* connection TPDUs' does.
wrap_counted(payload) == encode_x224(DATA, payload)

wrap_data(payload) ==
  LET n == 4 + 3 + Len(payload)
  IN  TpktHeader(IF n > 65535 THEN 65535 ELSE n) \o TpduHeader(2, DATA) \o payload

\* The length indicator says where a peer finds the payload: li + 1 bytes in.
unwrap_data(b) ==
  Then(decode_x224_header(b, DATA), LAMBDA t, rest : Got([payload |-> rest, li |-> t.li], <<>>))

----------------------------------------------------------------------------
\* mcs.rs

DomainNames == <<"max_channel_ids", "max_user_ids", "max_token_ids", "num_priorities",
                 "min_throughput", "max_height", "max_mcs_pdu_size", "protocol_version">>

Params(values) == [f \in Range(DomainNames) |-> <<0, values[CHOOSE i \in 1 .. 8 : DomainNames[i] = f]>>]
target == Params(<<34, 2, 0, 1, 0, 1, 65535, 2>>)
min    == Params(<<1, 1, 1, 1, 0, 1, 1056, 2>>)
max    == Params(<<65535, 64535, 65535, 1, 0, 1, 65535, 2>>)

DomainParameters(v) ==
  ber_sequence(FlattenSeq([i \in 1 .. 8 |-> ber_integer(v[DomainNames[i]])]))
DomainParameters_layout ==
  <<Per("sequence", "", 0)>> \o [i \in 1 .. 8 |-> Per("integer", DomainNames[i], 0)]

Application(tag, body) == ber_application_tag(tag, Len(body)) \o body

ConnectInitial(v) ==
  Application(101, ber_octet_string(<<1>>) \o ber_octet_string(<<1>>) \o ber_boolean(TRUE)
                     \o DomainParameters(v.target_parameters)
                     \o DomainParameters(v.min_parameters)
                     \o DomainParameters(v.max_parameters)
                     \o ber_octet_string(v.user_data))
ConnectInitial_layout ==
  <<Per("application", "", 101), Per("string", "", 0), Per("string", "", 0), Per("boolean", "", 0),
    Sub("target_parameters", DomainParameters_layout),
    Sub("min_parameters", DomainParameters_layout),
    Sub("max_parameters", DomainParameters_layout), Per("string", "user_data", 0)>>

ConnectResponse(v) ==
  Application(102, ber_enumerated(0) \o ber_integer(v.called_connect_id)
                     \o DomainParameters(v.domain_parameters) \o ber_octet_string(v.user_data))
ConnectResponse_layout ==
  <<Per("application", "", 102), Per("enumerated", "", 0), Per("integer", "called_connect_id", 0),
    Sub("domain_parameters", DomainParameters_layout), Per("string", "user_data", 0)>>

BASE_CHANNEL_ID == 1001

DomainMcsPdu == [ErectDomainRequest |-> 1, DisconnectProviderUltimatum |-> 8,
                 AttachUserRequest |-> 10, AttachUserConfirm |-> 11, ChannelJoinRequest |-> 14,
                 ChannelJoinConfirm |-> 15, SendDataRequest |-> 25, SendDataIndication |-> 26]

write_choice_byte(pdu, options) == <<DomainMcsPdu[pdu] * 4 + options>>

read_choice_byte(b, pdu) ==
  Map(Check(ReadBE(b, 1), LAMBDA byte : byte \div 4 = DomainMcsPdu[pdu]), LAMBDA byte : byte % 4)

Domain(b, pdu, layout) ==
  Then(read_choice_byte(b, pdu), LAMBDA options, rest : Read(rest, layout, "options" :> options))

\* Mistake: the two option bytes are left for the next PDU.
leave_non_standard(r) == r

skip_optional_non_standard(r) ==
  Then(r, LAMBDA v, rest :
       IF v.options \div 2 = 1 THEN Map(read_slice(rest, 2), LAMBDA s : v) ELSE Got(v, rest))

ErectDomainRequest(v) ==
  write_choice_byte("ErectDomainRequest", 0) \o per_u32(v.sub_height) \o per_u32(v.sub_interval)
ErectDomainRequest_decode(b) ==
  skip_optional_non_standard(
    Domain(b, "ErectDomainRequest", <<Per("u32", "sub_height", 0), Per("u32", "sub_interval", 0)>>))

\* A client may set the option bit and append the two bytes it announces.
AttachUserRequest(v) ==
  write_choice_byte("AttachUserRequest", IF v.non_standard = <<>> THEN 0 ELSE 2) \o v.non_standard
AttachUserRequest_decode(b) == skip_optional_non_standard(Domain(b, "AttachUserRequest", <<>>))

AttachUserConfirm(v) ==
  write_choice_byte("AttachUserConfirm", 2) \o <<v.result>> \o per_u16(v.initiator, BASE_CHANNEL_ID)
AttachUserConfirm_decode(b) ==
  Domain(b, "AttachUserConfirm", <<U("result", 1), Per("u16", "initiator", BASE_CHANNEL_ID)>>)

ChannelJoinRequest(v) ==
  write_choice_byte("ChannelJoinRequest", 0)
    \o per_u16(v.initiator, BASE_CHANNEL_ID) \o per_u16(v.channel_id, 0)
ChannelJoinRequest_decode(b) ==
  Domain(b, "ChannelJoinRequest",
         <<Per("u16", "initiator", BASE_CHANNEL_ID), Per("u16", "channel_id", 0)>>)

ChannelJoinConfirm(v) ==
  write_choice_byte("ChannelJoinConfirm", 2) \o <<v.result>>
    \o per_u16(v.initiator, BASE_CHANNEL_ID)
    \o per_u16(v.requested_channel_id, 0) \o per_u16(v.channel_id, 0)
ChannelJoinConfirm_decode(b) ==
  Domain(b, "ChannelJoinConfirm",
         <<U("result", 1), Per("u16", "initiator", BASE_CHANNEL_ID),
           Per("u16", "requested_channel_id", 0), Per("u16", "channel_id", 0)>>)

\* Priority and segmentation: 0x70, whose bit 0x10 marks the last segment.
SendData(pdu, v) ==
  write_choice_byte(pdu, 0) \o per_u16(v.initiator, BASE_CHANNEL_ID) \o per_u16(v.channel_id, 0)
    \o <<112>> \o per_length(Len(v.data)) \o v.data
SendData_decode(pdu, b) ==
  Map(Domain(b, pdu, <<Per("u16", "initiator", BASE_CHANNEL_ID), Per("u16", "channel_id", 0),
                       U("priority", 1), Per("length", "length", 0), Body("data", "length", 0)>>),
      LAMBDA v : [complete |-> (v.priority \div 16) % 2 = 1] @@ v)

DisconnectProviderUltimatum(v) ==
  <<32 + ((v.reason \div 2) % 4), (v.reason * 128) % 256>>
DisconnectProviderUltimatum_decode(b) ==
  Then(read_choice_byte(b, "DisconnectProviderUltimatum"), LAMBDA high, rest :
       Map(ReadBE(rest, 1), LAMBDA low : [reason |-> high * 2 + low \div 128]))

----------------------------------------------------------------------------
\* gcc.rs

write_block(kind, body) == LE(2, kind) \o LE(2, Len(body) + 4) \o body

RECURSIVE for_each_user_data_block(_)
for_each_user_data_block(b) ==
  IF Len(b) < 4 THEN Got(<<>>, <<>>)
  ELSE Then(Decode(<<U("kind", 2), U("length", 2), Body("body", "length", 4)>>, b),
            LAMBDA block, rest :
            Map(for_each_user_data_block(rest), LAMBDA blocks : <<block>> \o blocks))

CoreNumbers == <<"version", "desktop_width", "desktop_height", "color_depth", "sas_sequence",
                 "keyboard_layout", "client_build">>
CoreWidths == <<4, 2, 2, 2, 2, 4, 4>>
KeyboardNumbers == <<"keyboard_type", "keyboard_subtype", "keyboard_function_key">>

ClientCoreData(v) ==
  FlattenSeq([i \in 1 .. 7 |-> LE(CoreWidths[i], v[CoreNumbers[i]])])
    \o write_fixed(v.client_name, 32)
    \o FlattenSeq([i \in 1 .. 3 |-> LE(4, v[KeyboardNumbers[i]])])
    \o write_fixed(v.ime_file_name, 64)
ClientCoreData_layout ==
  [i \in 1 .. 7 |-> U(CoreNumbers[i], CoreWidths[i])] \o <<Utf16Fixed("client_name", 32)>>
    \o [i \in 1 .. 3 |-> U(KeyboardNumbers[i], 4)] \o <<Utf16Fixed("ime_file_name", 64)>>

ClientSecurityData(v) == LE(4, v.encryption_methods) \o LE(4, v.ext_encryption_methods)
ClientSecurityData_layout == <<U("encryption_methods", 4), U("ext_encryption_methods", 4)>>

ChannelDef(v) ==
  LET n == IF Len(v.name) < 7 THEN Len(v.name) ELSE 7
  IN  SubSeq(v.name, 1, n) \o Zeros(8 - n) \o LE(4, v.options)
ChannelDef_layout == <<Ansi("name", 8), U("options", 4)>>

CHANNELS_MAX == 31

ClientNetworkData(v) ==
  LE(4, Len(v.channels)) \o FlattenSeq([i \in DOMAIN v.channels |-> ChannelDef(v.channels[i])])
ClientNetworkData_decode(b) ==
  Then(ReadLE(b, 4), LAMBDA count, rest :
       Map(ReadList(rest, ChannelDef_layout, IF count > CHANNELS_MAX THEN CHANNELS_MAX ELSE count),
           LAMBDA channels : [channels |-> channels]))

ClientClusterData_layout == <<U("flags", 4), U("redirected_session_id", 4)>>
ClientMessageChannelData_layout == <<U("flags", 4)>>

\* Mistake: the offset counts the block's header, which `body` leaves out.
flags_past_header(body) ==
  IF Len(body) < 128 + 16 + 2 THEN <<>> ELSE <<FromLE(SubSeq(body, 145, 146))>>

early_capability_flags_from_cs_core(body) ==
  IF Len(body) < 128 + 12 + 2 THEN <<>> ELSE <<FromLE(SubSeq(body, 141, 142))>>

\* The last block of a kind, decoded; parts are the blocks' decoded bodies.
Last_of(blocks, parts, kind) ==
  LET at == {i \in DOMAIN blocks : blocks[i].kind = kind}
  IN  IF at = {} THEN <<>> ELSE <<parts[CHOOSE i \in at : \A j \in at : j <= i].v>>

CS_CORE == 49153
CS_SECURITY == 49154
CS_NET == 49155
CS_CLUSTER == 49156
CS_MCS_MSGCHANNEL == 49158

ClientBlock(kind, body) ==
  CASE kind = CS_NET -> ClientNetworkData_decode(body)
    [] kind = CS_CORE ->
         Map(Decode(ClientCoreData_layout, body),
             LAMBDA v : [core |-> v, early |-> early_capability_flags_from_cs_core(body)])
    [] OTHER -> Decode(CASE kind = CS_SECURITY       -> ClientSecurityData_layout
                         [] kind = CS_CLUSTER        -> ClientClusterData_layout
                         [] kind = CS_MCS_MSGCHANNEL -> ClientMessageChannelData_layout
                         [] OTHER                    -> <<>>, body)

\* Every block of a known kind must decode.
ClientGccBlocks_of(blocks, parts) ==
  LET last(kind) == Last_of(blocks, parts, kind)
  IN  IF \/ \E i \in DOMAIN parts : ~ parts[i].ok
         \/ last(CS_CORE) = <<>>
         \/ last(CS_SECURITY) = <<>>
      THEN Failed
      ELSE Got([core |-> last(CS_CORE)[1].core, security |-> last(CS_SECURITY)[1],
                network |-> last(CS_NET), cluster |-> last(CS_CLUSTER),
                message_channel |-> last(CS_MCS_MSGCHANNEL),
                early_capability_flags |-> last(CS_CORE)[1].early], <<>>)

ClientGccBlocks_decode(b) ==
  Then(for_each_user_data_block(b), LAMBDA blocks, rest :
       ClientGccBlocks_of(blocks, [i \in DOMAIN blocks |-> ClientBlock(blocks[i].kind, blocks[i].body)]))

\* The blocks as a client sends them: ClientGccBlocks::encode writes the first
\* three, a real client appends the optional tail of CS_CORE and the others.
ClientGccBlocks(v) ==
  write_block(CS_CORE, ClientCoreData(v.core) \o
     (IF v.early_capability_flags = <<>> THEN <<>> ELSE Zeros(12) \o LE(2, v.early_capability_flags[1])))
    \o write_block(CS_SECURITY, ClientSecurityData(v.security))
    \o (IF v.network = <<>> THEN <<>> ELSE write_block(CS_NET, ClientNetworkData(v.network[1])))
    \o (IF v.cluster = <<>> THEN <<>>
        ELSE write_block(CS_CLUSTER, LE(4, v.cluster[1].flags) \o LE(4, v.cluster[1].redirected_session_id)))
    \o (IF v.message_channel = <<>> THEN <<>>
        ELSE write_block(CS_MCS_MSGCHANNEL, LE(4, v.message_channel[1].flags)))

SC_CORE == 3073
SC_SECURITY == 3074
SC_NET == 3075
SC_MCS_MSGCHANNEL == 3076

Optional(o, n) == IF o = <<>> THEN <<>> ELSE LE(n, o[1])

ServerCoreData(v) ==
  LE(4, v.version) \o Optional(v.client_requested_protocols, 4) \o Optional(v.early_capability_flags, 4)
ServerCoreData_layout ==
  <<U("version", 4), Opt("client_requested_protocols", 4), Opt("early_capability_flags", 4)>>

ServerSecurityData == LE(4, 0) \o LE(4, 0)
ServerSecurityData_layout == <<Is(Zeros(4)), Is(Zeros(4))>>

ServerNetworkData(v) ==
  LE(2, v.io_channel_id) \o LE(2, Len(v.channel_ids)) \o LE16(v.channel_ids)
    \o (IF Len(v.channel_ids) % 2 = 1 THEN Zeros(2) ELSE <<>>)
ServerNetworkData_decode(b) ==
  Map(Decode(<<U("io_channel_id", 2), U("count", 2), List("ids", "count", <<U("id", 2)>>)>>, b),
      LAMBDA v : [io_channel_id |-> v.io_channel_id,
                  channel_ids |-> [i \in DOMAIN v.ids |-> v.ids[i].id]])

ServerBlock(kind, body) ==
  IF kind = SC_NET THEN ServerNetworkData_decode(body)
  ELSE Decode(CASE kind = SC_CORE           -> ServerCoreData_layout
                [] kind = SC_SECURITY       -> ServerSecurityData_layout
                [] kind = SC_MCS_MSGCHANNEL -> <<U("mcs_channel_id", 2)>>
                [] OTHER                    -> <<>>, body)

ServerGccBlocks(v) ==
  write_block(SC_CORE, ServerCoreData(v.core)) \o write_block(SC_NET, ServerNetworkData(v.network))
    \o write_block(SC_SECURITY, ServerSecurityData)
    \o (IF v.message_channel = <<>> THEN <<>>
        ELSE write_block(SC_MCS_MSGCHANNEL, LE(2, v.message_channel[1].mcs_channel_id)))

ServerGccBlocks_of(blocks, parts) ==
  LET last(kind) == Last_of(blocks, parts, kind)
  IN  IF \/ \E i \in DOMAIN parts : ~ parts[i].ok
         \/ \E kind \in {SC_CORE, SC_NET, SC_SECURITY} : last(kind) = <<>>
      THEN Failed
      ELSE Got([core |-> last(SC_CORE)[1], network |-> last(SC_NET)[1],
                message_channel |-> last(SC_MCS_MSGCHANNEL)], <<>>)

ServerGccBlocks_decode(b) ==
  Then(for_each_user_data_block(b), LAMBDA blocks, rest :
       ServerGccBlocks_of(blocks, [i \in DOMAIN blocks |-> ServerBlock(blocks[i].kind, blocks[i].body)]))

\* "Duca" and "McDn", and the OID {0 0 20 124 0 1}.
CLIENT_TO_SERVER_H221 == <<68, 117, 99, 97>>
SERVER_TO_CLIENT_H221 == <<77, 99, 68, 110>>
GCC_CONFERENCE_OBJECT_ID == <<0, 0, 20, 124, 0, 1>>

UserDataEntry(h221, blocks) ==
  <<1, 192>> \o per_octet_string(h221, 4) \o per_length(Len(blocks)) \o blocks
UserDataEntry_layout(name) ==
  <<Skip(1), Skip(1), Per("octets", "", 4), Per("length", "blocks_len", 0), Body(name, "blocks_len", 0)>>

ConnectData(overhead, blocks) ==
  <<0>> \o per_object_id(GCC_CONFERENCE_OBJECT_ID) \o per_length(Len(blocks) + overhead)
ConnectData_layout == <<Is(<<0>>), Per("object", "", 0), Per("length", "", 0)>>

ConferenceCreateRequest(v) ==
  ConnectData(12, v.client_gcc_blocks) \o <<0, 8>> \o per_numeric_string(<<1>>, 1) \o Zeros(1)
    \o UserDataEntry(CLIENT_TO_SERVER_H221, v.client_gcc_blocks)
ConferenceCreateRequest_layout ==
  ConnectData_layout \o <<Is(<<0>>), Skip(1), Per("digits", "", 1), Skip(1)>>
    \o UserDataEntry_layout("client_gcc_blocks")

ConferenceCreateResponse(v) ==
  ConnectData(13, v.server_gcc_blocks) \o <<20>> \o per_u16(v.node_id, 1001) \o per_u32(<<0, 1>>) \o <<0>>
    \o UserDataEntry(SERVER_TO_CLIENT_H221, v.server_gcc_blocks)
ConferenceCreateResponse_layout ==
  ConnectData_layout \o <<Is(<<20>>), Per("u16", "node_id", 1001), Per("u32", "", 0), Skip(1)>>
    \o UserDataEntry_layout("server_gcc_blocks")
=============================================================================
