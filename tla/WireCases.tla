------------------------------ MODULE WireCases ------------------------------
(***************************************************************************)
(* The messages the exchange model sends: for each format, values on both  *)
(* sides of every place where its encoding changes form (a length that     *)
(* needs a second byte, an integer whose top bit is set, a list of odd     *)
(* length, an optional part present or absent).                            *)
(***************************************************************************)
EXTENDS ConnectPdus, UpdatePdus, DevicePdus

Case(pdu, bytes, v) == [pdu |-> pdu, bytes |-> bytes, v |-> v, open |-> {}]
OpenCase(pdu, bytes, v, fields) == [pdu |-> pdu, bytes |-> bytes, v |-> v, open |-> fields]
Offer(pdu, bytes, v, offer) == [pdu |-> pdu, bytes |-> bytes, v |-> v, open |-> {}, offer |-> offer]

\* One case for each value of a sequence.
Each(values, F(_)) == [i \in DOMAIN values |-> F(values[i])]

Bytes_n(n) == [i \in 1 .. n |-> (i * 7) % 256]

----------------------------------------------------------------------------
Numbers == <<<<0, 0>>, <<0, 127>>, <<0, 128>>, <<0, 255>>, <<0, 256>>, <<0, 32767>>, <<0, 32768>>,
             <<0, 65535>>, <<1, 0>>, <<127, 65535>>, <<128, 0>>, <<32767, 65535>>, <<32768, 0>>>>

UserData(n) == [target_parameters |-> target, min_parameters |-> min, max_parameters |-> max,
                user_data |-> Bytes_n(n)]
Answer(x, n) == [called_connect_id |-> x, domain_parameters |-> target, user_data |-> Bytes_n(n)]
Join_v(i, c) == [initiator |-> i, channel_id |-> c]
Send_v(n) == [initiator |-> 1007, channel_id |-> 1003, data |-> Bytes_n(n)]

McsCases ==
  Each(<<<<>>, <<<<117>>>>, <<<<97, 13, 98>>>>>>, LAMBDA cookie :
       LET v == [cookie |-> cookie, flags |-> 0, protocol |-> 11]
       IN  Case("connection_request", ConnectionRequest(v), v))
  \o Each(<<2, 3>>, LAMBDA t :
          LET v == [type |-> t, flags |-> 31, code |-> 2]
          IN  Case("connection_confirm", ConnectionConfirm(v), v))
  \o Each(<<0, 1, 300>>, LAMBDA n :
          OpenCase("tpkt_data", wrap_data(Bytes_n(n)), [payload |-> Bytes_n(n), li |-> 2], {"payload"}))
  \o Each(<<0, 127, 128, 255, 256>>, LAMBDA n :
          Case("connect_initial", ConnectInitial(UserData(n)), UserData(n)))
  \o Each(Numbers, LAMBDA x : Case("connect_response", ConnectResponse(Answer(x, 3)), Answer(x, 3)))
  \o Each(Numbers, LAMBDA x :
          LET v == [sub_height |-> x, sub_interval |-> <<0, 1>>]
          IN  Case("erect_domain", ErectDomainRequest(v), v))
  \o Each(<<<<>>, <<1, 2>>>>, LAMBDA s :
          Case("attach_user", AttachUserRequest([non_standard |-> s]), [options |-> IF s = <<>> THEN 0 ELSE 2]))
  \o Each(<<1001, 1007, 65535>>, LAMBDA i :
          LET v == [result |-> 0, initiator |-> i]
          IN  Case("attach_user_confirm", AttachUserConfirm(v), v))
  \o Each(<<Join_v(1007, 1003), Join_v(1001, 65535)>>, LAMBDA v :
          Case("channel_join", ChannelJoinRequest(v), v))
  \o Each(<<Join_v(1007, 1003), Join_v(1007, 0)>>, LAMBDA j :
          LET v == [result |-> 15, requested_channel_id |-> 1004] @@ j
          IN  Case("channel_join_confirm", ChannelJoinConfirm(v), v))
  \o Each(<<0, 127, 128>>, LAMBDA n :
          Case("send_data_request", SendData("SendDataRequest", Send_v(n)), [complete |-> TRUE] @@ Send_v(n)))
  \o Each(<<1, 300>>, LAMBDA n :
          Case("send_data_indication", SendData("SendDataIndication", Send_v(n)), Send_v(n)))
  \o Each(<<0, 1, 2, 3, 4>>, LAMBDA r :
          Case("disconnect", DisconnectProviderUltimatum([reason |-> r]), [reason |-> r]))

----------------------------------------------------------------------------
Core == [version |-> 524292, desktop_width |-> 1920, desktop_height |-> 1080, color_depth |-> 51713,
         sas_sequence |-> 43523, keyboard_layout |-> 1041, client_build |-> 7601, client_name |-> <<112, 99>>,
         keyboard_type |-> 7, keyboard_subtype |-> 0, keyboard_function_key |-> 12, ime_file_name |-> <<>>]
Channels(n) == [i \in 1 .. n |-> [name |-> <<99, 100 + i>>, options |-> 128]]
GccClient(channels, cluster, message, early) ==
  [core |-> Core, security |-> [encryption_methods |-> 27, ext_encryption_methods |-> 0],
   network |-> channels, cluster |-> cluster, message_channel |-> message, early_capability_flags |-> early]
Net(n) == <<[channels |-> Channels(n)]>>
Cluster == [flags |-> 13, redirected_session_id |-> 0]
GccServer(ids, protocols, early, message) ==
  [core |-> [version |-> 524292, client_requested_protocols |-> protocols, early_capability_flags |-> early],
   network |-> [io_channel_id |-> 1003, channel_ids |-> ids], message_channel |-> message]

GccCases ==
  Each(<<GccClient(<<>>, <<>>, <<>>, <<>>), GccClient(Net(0), <<>>, <<>>, <<>>),
         GccClient(Net(3), <<Cluster>>, <<>>, <<259>>), GccClient(Net(31), <<Cluster>>, <<[flags |-> 0]>>, <<1>>)>>,
       LAMBDA v : OpenCase("client_gcc", ClientGccBlocks(v), v,
                           {"network", "cluster", "message_channel", "early_capability_flags"}))
  \o Each(<<GccServer(<<>>, <<>>, <<>>, <<>>), GccServer(<<1004>>, <<11>>, <<>>, <<>>),
            GccServer(<<1004, 1005>>, <<11>>, <<1>>, <<[mcs_channel_id |-> 1006]>>)>>,
          LAMBDA v : OpenCase("server_gcc", ServerGccBlocks(v), v, {"message_channel"}))
  \o Each(<<1, 127, 128, 300>>, LAMBDA n :
          LET v == [client_gcc_blocks |-> Bytes_n(n)]
          IN  Case("conference_request", ConferenceCreateRequest(v), v))
  \o Each(<<1, 127, 128>>, LAMBDA n :
          LET v == [server_gcc_blocks |-> Bytes_n(n), node_id |-> 31219]
          IN  Case("conference_response", ConferenceCreateResponse(v), v))

----------------------------------------------------------------------------
Info(user, password) ==
  [code_page |-> 0, flags |-> 16 + 8, domain |-> <<>>, username |-> user, password |-> password,
   alternate_shell |-> <<>>, working_dir |-> <<12354>>,
   extended |-> [address_family |-> 2, address |-> <<49>>, dir |-> <<>>]]

Share == [pdu_source |-> 1002, share_id |-> 66538]
ServerCaps ==
  [general |-> [extra_flags |-> 1029, refresh_rect_support |-> TRUE, suppress_output_support |-> TRUE],
   bitmap |-> [preferred_bits_per_pixel |-> 32, desktop_width |-> 1920, desktop_height |-> 1080,
               desktop_resize_flag |-> TRUE],
   pointer |-> [color_pointer_cache_size |-> 2048, pointer_cache_size |-> 2048],
   input |-> [input_flags |-> 53, keyboard_layout |-> 0, keyboard_type |-> 0, keyboard_subtype |-> 0,
              keyboard_function_key |-> 0],
   virtual_channel |-> [flags |-> 0], multifragment_update |-> [max_request_size |-> 8388608],
   bitmap_codecs |-> [nscodec_id |-> 1, color_loss_level |-> 3]]
General(r, s) == [extra_flags |-> 1029, refresh_rect_support |-> r, suppress_output_support |-> s]

OtherGuid == [i \in 1 .. 16 |-> i]
Codec(guid, id, props) == guid \o <<id>> \o LE(2, Len(props)) \o props
Set(type, body) == [set_type |-> type, body |-> body]
Confirm(sets) == [originator_id |-> 1002, capabilities |-> sets] @@ Share
ConfirmCase(sets, nscodec, size) ==
  [Offer("confirm_active", ConfirmActive_peer(Confirm(sets)), Confirm(sets),
         [color_loss_level |-> 3, nscodec |-> nscodec, max_request_size |-> size])
     EXCEPT !.open = {"capabilities"}]

CapabilityCases ==
  Each(<<Info(<<117>>, <<112, 12354>>), Info(<<>>, <<>>)>>, LAMBDA v : Case("client_info", ClientInfoPdu(v), v))
  \o <<Case("license", encode_valid_client, <<>>)>>
  \o <<Case("demand_active", DemandActive([capabilities |-> ServerCaps] @@ Share), [count |-> 9] @@ Share)>>
  \o Each(<<General(TRUE, FALSE), General(FALSE, TRUE)>>, LAMBDA v : Case("general", GeneralCapability(v), v))
  \o <<Case("bitmap", BitmapCapability(ServerCaps.bitmap), ServerCaps.bitmap),
       Case("order", OrderCapability, <<>>),
       Case("pointer_cap", PointerCapability(ServerCaps.pointer), ServerCaps.pointer),
       Case("input_cap", InputCapability(ServerCaps.input), ServerCaps.input),
       Case("virtual_channel_cap", VirtualChannelCapability([flags |-> 1]), [flags |-> 1])>>
  \o <<ConfirmCase(<<>>, <<>>, <<>>),
       ConfirmCase(<<Set(1, Bytes_n(20)), Set(26, LE(4, 65536))>>, <<>>, <<65536>>),
       ConfirmCase(<<Set(29, <<1>> \o Codec(NSCODEC_GUID, 1, <<1, 1, 7>>)), Set(26, LE(4, 0))>>,
                   <<[codec_id |-> 1, color_loss_level |-> 3]>>, <<>>),
       ConfirmCase(<<Set(29, <<2>> \o Codec(OtherGuid, 3, Bytes_n(5)) \o Codec(NSCODEC_GUID, 4, <<1, 1, 2>>))>>,
                   <<[codec_id |-> 4, color_loss_level |-> 2]>>, <<>>),
       ConfirmCase(<<Set(29, <<1>> \o Codec(OtherGuid, 3, Bytes_n(5)))>>, <<>>, <<>>)>>
  \o <<Case("deactivate_all", DeactivateAllPdu(Share), Share)>>

----------------------------------------------------------------------------
Data(type, body) == [stream_id |-> 1, pdu_type2 |-> type, body |-> body] @@ Share
Rect == [left |-> 0, top |-> 0, right |-> 1919, bottom |-> 1079]
Monitor(x, p) == [left |-> x, top |-> 0, right |-> x + 1919, bottom |-> 1079, primary |-> p]
Events(n) == [i \in 1 .. n |-> IF i % 4 = 0 THEN Scancode(i % 8, 29 + (i % 200))
                               ELSE IF i % 4 = 1 THEN Mouse(2048, i, 1080)
                               ELSE IF i % 4 = 2 THEN Sync(i % 16) ELSE Unicode(i % 2, 12354)]
Updates(lens) == [i \in DOMAIN lens |-> [update_code |-> 1, fragmentation |-> i % 4, data |-> Bytes_n(lens[i])]]
Bitmap(scan, n) ==
  [dest_left |-> 0, dest_top |-> 64, dest_right |-> 63, dest_bottom |-> 127, width |-> 64, height |-> 64,
   bits_per_pixel |-> 32, scan_width |-> scan, data |-> Bytes_n(n)]
Pointer(w, h) == [cache_index |-> 0, hot_x |-> 1, hot_y |-> 2, width |-> w, height |-> h, bgra |-> Bytes_n(w * h * 4)]
Surface(n) == [left |-> 64, top |-> 0, width |-> 64, height |-> 64, codec_id |-> 1, data |-> Bytes_n(n)]

UpdateCases ==
  Each(<<Data(31, <<1, 0, 234, 3>>), Data(28, <<>>), Data(35, Bytes_n(12))>>, LAMBDA v :
       OpenCase("data", DataPdu(v), v, {"body"}))
  \o <<Case("synchronize", SynchronizePdu([target_user |-> 1002]), [target_user |-> 1002]),
       Case("control", ControlPdu([action |-> 4, grant_id |-> 0, control_id |-> 1002]),
            [action |-> 4, grant_id |-> 0, control_id |-> 1002]),
       Case("font", FontPdu(font_map_default), font_map_default),
       Case("suppress_output", SuppressOutput_peer([allow |-> FALSE]), [allow |-> FALSE]),
       Case("suppress_output", SuppressOutput_peer([allow |-> TRUE, rect |-> Rect]), [allow |-> TRUE]),
       Case("refresh_rect", RefreshRect_peer([rects |-> <<Rect, Rect>>]), [rects |-> <<Rect, Rect>>])>>
  \o Each(<<<<>>, <<Monitor(0, TRUE)>>, <<Monitor(0, TRUE), Monitor(1920, FALSE)>>>>, LAMBDA ms :
          Case("monitor_layout", encode_monitor_layout([monitors |-> ms]), [monitors |-> ms]))
  \o Each(<<1, 4, 14, 15, 16, 30>>, LAMBDA n :
          Case("fast_input", FastPathInput([events |-> Events(n)]), [events |-> Events(n)]))
  \o Each(<<0, 1, 4>>, LAMBDA n :
          Case("slow_input", SlowInput_peer([events |-> Events(n)]), [events |-> Events(n)]))
  \o Each(<<<<>>, <<0>>, <<122>>, <<123>>, <<124>>, <<125>>, <<3, 300>>>>, LAMBDA ls :
          Case("fast_output", FastPathOutput([updates |-> Updates(ls)]), [updates |-> Updates(ls)]))
  \o Each(<<<<>>, <<Bitmap(<<>>, 12)>>, <<Bitmap(<<256>>, 9), Bitmap(<<>>, 0)>>>>, LAMBDA rs :
          Case("bitmap_update", BitmapUpdateData([rectangles |-> rs]), [rectangles |-> rs]))
  \o Each(<<Pointer(1, 1), Pointer(2, 3), Pointer(5, 7)>>, LAMBDA v : Case("pointer", encode_rgba_pointer(v), v))
  \o <<Case("frame_marker", encode_frame_marker([frame_action |-> 1, frame_id |-> 9]),
            [frame_action |-> 1, frame_id |-> 9])>>
  \o Each(<<0, 300>>, LAMBDA n : Case("surface_bits", encode_set_surface_bits(Surface(n)), Surface(n)))

----------------------------------------------------------------------------
Ids == <<1, 255, 256, 65535, 65536>>
Cap(version, flags) == [version |-> version, data |-> LE(4, flags)]
Caps(sets) == Offer("gfx", GfxCaps_peer([sets |-> sets]), [message |-> "CapsAdvertise", sets |-> sets], <<>>)
GfxMonitor == [left |-> 0, top |-> 0, right |-> 1919, bottom |-> 1079, primary |-> TRUE]
AvcFrame(n) == [surface_id |-> 1, width |-> 64, height |-> 64, qp |-> 22, quality |-> 100, stream |-> Bytes_n(n)]

ChannelCases ==
  Each(Ids, LAMBDA id :
       OpenCase("dvc", encode_data(id, Bytes_n(3)),
                [message |-> "Data", channel_id |-> id, data |-> Bytes_n(3)], {"data"}))
  \o Each(Ids, LAMBDA n :
          OpenCase("dvc", encode_data_first(7, n, Bytes_n(2)),
                   [message |-> "DataFirst", channel_id |-> 7, total_length |-> n, data |-> Bytes_n(2)], {"data"}))
  \o Each(Ids, LAMBDA id :
          Case("dvc", DvcCreate_peer([channel_id |-> id, creation_status |-> <<49152, 55>>]),
               [message |-> "CreateResponse", channel_id |-> id, creation_status |-> <<49152, 55>>]))
  \o <<Case("dvc", encode_close([channel_id |-> 300]), [message |-> "Close", channel_id |-> 300]),
       Case("dvc", DvcCapability_peer([version |-> 2]), [message |-> "CapabilityResponse", version |-> 2])>>
  \o Each(<<0, 1, 8, 9, 16, 17>>, LAMBDA n :
          OpenCase("gfx_segments", encode_segmented(Bytes_n(n)), [data |-> Bytes_n(n)], {"data"}))
  \o <<Caps(<<Cap(CAP_VERSION_8, 0)>>), Caps(<<Cap(CAP_VERSION_81, 16), Cap(CAP_VERSION_8, 0)>>),
       Caps(<<Cap(657153, 32), Cap(CAP_VERSION_81, 16)>>), Caps(<<Cap(655362, 0), Cap(656896, 0), Cap(656897, 0)>>),
       Caps(<<>>), Caps(<<[version |-> 655363, data |-> Zeros(16)], Cap(CAP_VERSION_81, 0)>>)>>
  \o <<Case("gfx", GfxAck_peer([queue_depth |-> <<65535, 65535>>, frame_id |-> 5, total_frames_decoded |-> 5]),
            [message |-> "FrameAcknowledge", queue_depth |-> <<65535, 65535>>, frame_id |-> 5])>>
  \o <<Case("gfx_server", caps_confirm(Cap(657153, 0)), Cap(657153, 0)),
       Case("gfx_server", encode_reset_graphics([width |-> 1920, height |-> 1080, monitors |-> <<GfxMonitor>>]),
            [width |-> 1920, height |-> 1080, count |-> 1]),
       Case("gfx_server", encode_create_surface([surface_id |-> 1, width |-> 64, height |-> 32]),
            [cmd |-> 9, surface_id |-> 1, width |-> 64, height |-> 32]),
       Case("gfx_server", encode_delete_surface([surface_id |-> 1]), [cmd |-> 10, surface_id |-> 1]),
       Case("gfx_server", encode_map_surface([surface_id |-> 1, x |-> 0, y |-> 0]), [cmd |-> 15, surface_id |-> 1]),
       Case("gfx_server", encode_start_frame([timestamp |-> 9, frame_id |-> 1]), [cmd |-> 11, frame_id |-> 1]),
       Case("gfx_server", encode_end_frame([frame_id |-> 1]), [cmd |-> 12, frame_id |-> 1]),
       Case("gfx_server", wire_to_surface_1(AvcFrame(30)),
            [cmd |-> 1, width |-> 64, visible_width |-> 64, qp |-> 150, quality |-> 100, stream |-> Bytes_n(30)])>>

----------------------------------------------------------------------------
Stereo == pcm(2, 44100, 16)
Mono == pcm(1, 22050, 16)
Adpcm == [format_tag |-> 2, n_channels |-> 2, n_samples_per_sec |-> 22050, n_avg_bytes_per_sec |-> 22311,
          n_block_align |-> 1024, bits_per_sample |-> 4, extra_data |-> <<1, 2>>]
Formats(fs) == Offer("snd", ClientFormats_peer([version |-> 6, formats |-> fs]),
                     [message |-> "AudioFormats", version |-> 6, formats |-> fs], <<Stereo, pcm(2, 48000, 16)>>)
Wave(n) == [timestamp |-> 1234, format_no |-> 1, block_no |-> 255, data |-> Bytes_n(n)]

SoundCases ==
  <<Formats(<<>>), Formats(<<Adpcm, Mono>>), Formats(<<Adpcm, Stereo>>),
    Formats(<<Mono, pcm(2, 48000, 16), Adpcm, Stereo>>)>>
  \o <<Case("snd", WaveConfirm_peer([timestamp |-> 65535, block_no |-> 255]),
            [message |-> "WaveConfirm", timestamp |-> 65535, block_no |-> 255]),
       Case("snd", encode_training, [message |-> "TrainingConfirm"]),
       Case("snd_formats", server_audio_formats([formats |-> <<Stereo, Mono>>]), [count |-> 2])>>
  \o Each(<<4, 5, 300>>, LAMBDA n : Case("snd_wave2", encode_wave2(Wave(n)), Wave(n)))
  \o Each(<<4, 5, 300>>, LAMBDA n : Case("snd_wave", encode_wave_info(Wave(n)) \o encode_wave_rest(Wave(n)), Wave(n)))
  \o <<Case("mic", mic_version([version |-> 2]), [message |-> "Version", version |-> 2]),
       Case("mic", mic_formats([formats |-> <<Stereo, Adpcm>>]), [message |-> "Formats", formats |-> <<Stereo, Adpcm>>]),
       Case("mic", MicReply_peer([result |-> <<32768, 5>>]), [message |-> "OpenReply", result |-> <<32768, 5>>]),
       Case("mic", MicFormatChange_peer([new_format |-> 1]), [message |-> "FormatChange", new_format |-> 1]),
       OpenCase("mic", <<6>> \o Bytes_n(9), [message |-> "Data", data |-> Bytes_n(9)], {"data"}),
       Case("mic_open", mic_open([frames_per_packet |-> 2048, initial_format_index |-> 1, format |-> Adpcm]),
            [frames_per_packet |-> 2048, initial_format_index |-> 1])>>

Texts == <<<<>>, <<97>>, <<12354>>, <<256, 97>>, <<12354, 257>>>>

ClipCases ==
  Each(Texts, LAMBDA t : Case("clip", format_data_response_text(t), [message |-> "Text", text |-> t]))
  \o Each(<<<<>>, <<[id |-> 13, name |-> <<>>]>>, <<[id |-> 49161, name |-> <<72, 84>>], [id |-> 13, name |-> <<>>]>>>>,
          LAMBDA fs : Case("clip", FormatList_peer([formats |-> fs]),
                           [message |-> "FormatList", ids |-> [i \in DOMAIN fs |-> fs[i].id]]))
  \o <<Case("clip", format_list_unicode_text, [message |-> "FormatList", ids |-> <<13>>]),
       Case("clip", format_list_response_ok, [message |-> "FormatListResponse"]),
       Case("clip", format_data_request([format_id |-> 13]), [message |-> "FormatDataRequest", format_id |-> 13]),
       Case("clip", format_data_response_error, [message |-> "Failed"]),
       Case("clip", encode_capabilities, [message |-> "Other"]),
       Case("clip", encode_monitor_ready, [message |-> "Other"])>>

----------------------------------------------------------------------------
Device(type, name, data) ==
  [device_type |-> type, device_id |-> 1, preferred_dos_name |-> name, device_data |-> data]
Printed == [driver_name |-> <<80, 83>>, print_name |-> <<80>>, is_default |-> TRUE]
Request == [device_id |-> 1, completion_id |-> 7]
File == [file_id |-> 3] @@ Request
Entry(name) ==
  [file_index |-> 0, creation_time |-> 5, last_access_time |-> 6, last_write_time |-> 7, change_time |-> 8,
   end_of_file |-> 4096, allocation_size |-> 4096, file_attributes |-> 32, file_name |-> name]

DriveCases ==
  Each(<<<<>>, <<Device(8, <<67>>, <<>>)>>, <<Device(4, <<80, 82, 78, 49>>, Printer_peer(Printed)), Device(8, <<68>>, <<0>>)>>>>,
       LAMBDA ds : Case("drives", DeviceList_peer([devices |-> ds]),
                        [message |-> "DeviceListAnnounce", devices |-> ds]))
  \o <<Case("drives", DeviceRemove_peer([device_ids |-> <<1, 2>>]), [message |-> "DeviceListRemove", device_ids |-> <<1, 2>>]),
       OpenCase("drives", Completion_peer([io_status |-> <<49152, 52>>, body |-> <<1, 2>>] @@ Request),
                [message |-> "DeviceIoCompletion", io_status |-> <<49152, 52>>, body |-> <<1, 2>>] @@ Request, {"body"}),
       Case("drives", client_id_confirm([client_id |-> 2]), [message |-> "AnnounceReply"]),
       Case("drives", encode_user_logged_on, [message |-> "UserLoggedOn"]),
       Case("drives", server_announce_request([client_id |-> 1]), [message |-> "Other"]),
       Case("drives", server_capability_request([supported |-> 12]), [message |-> "Other"]),
       Case("drives", encode_device_reply([device_id |-> 1, status |-> <<0, 0>>]), [message |-> "Other"]),
       Case("printer", Printer_peer(Printed), Printed)>>
  \o <<Case("irp", irp_create([desired_access |-> <<32768, 128>>, create_disposition |-> 1, create_options |-> 33,
                               path |-> <<92, 97>>] @@ Request),
            [major |-> 0, desired_access |-> <<32768, 128>>, path |-> <<92, 97>>, create_disposition |-> 1,
             create_options |-> 33] @@ Request),
       Case("irp", irp_close(File), [major |-> 2] @@ File),
       Case("irp", irp_read([length |-> 65536, offset |-> 4096] @@ File), [major |-> 3, length |-> 65536, offset |-> 4096] @@ File),
       Case("irp", irp_write([offset |-> 0, data |-> Bytes_n(5)] @@ File), [major |-> 4, offset |-> 0, data |-> Bytes_n(5)] @@ File),
       Case("irp", irp_query_directory([path |-> <<<<92, 42>>>>] @@ File),
            [major |-> 12, minor |-> 1, initial |-> 1, path_bytes |-> <<92, 0, 42, 0, 0, 0>>] @@ File),
       Case("irp", irp_query_directory([path |-> <<>>] @@ File),
            [major |-> 12, initial |-> 0, path_bytes |-> <<>>] @@ File),
       Case("irp", set_disposition([delete |-> TRUE] @@ File), [class |-> 13, flag |-> 1] @@ File),
       Case("irp", set_rename([replace |-> FALSE, new_path |-> <<92, 98>>] @@ File),
            [class |-> 10, flag |-> 0, new_path |-> <<92, 98>>] @@ File),
       Case("irp", set_end_of_file([end_of_file |-> 4097] @@ File), [class |-> 20, end_of_file |-> 4097] @@ File),
       Case("irp", set_basic_information([creation_time |-> 1, last_access_time |-> 2, last_write_time |-> 3,
                                          change_time |-> 4, file_attributes |-> 33] @@ File),
            [class |-> 4, creation_time |-> 1, last_access_time |-> 2, last_write_time |-> 3, change_time |-> 4,
             file_attributes |-> 33] @@ File)>>
  \o <<Case("create_reply", LE(4, 9) \o <<1>>, [file_id |-> 9, information |-> 1]),
       Case("read_reply", LE(4, 4) \o Bytes_n(4), [data |-> Bytes_n(4)]),
       Case("write_reply", LE(4, 5), [length |-> 5])>>
  \o Each(<<<<46>>, <<97, 98, 12354>>>>, LAMBDA name :
          OpenCase("directory", DirectoryEntry_peer(Entry(name)), [entries |-> <<Entry(name)>>], {"entries"}))
  \o <<Case("directory", LE(4, 0), [entries |-> <<>>])>>

WireCases == McsCases \o GccCases \o CapabilityCases \o UpdateCases \o ChannelCases \o SoundCases \o ClipCases \o DriveCases
=============================================================================
