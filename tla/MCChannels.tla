----------------------------- MODULE MCChannels -----------------------------
(***************************************************************************)
(* The virtual channels and what is behind them, for TLC. They share no    *)
(* state, so a behaviour is one of a single component, chosen at the start *)
(* (`focus`), with the others at rest: the state space is the sum of the   *)
(* components' and not their product.                                      *)
(***************************************************************************)
EXTENDS Clipboard, DynamicChannels, AudioInput, Graphics, Drives, Mounts

CONSTANTS t1, t2,
    Focuses             \* the components a run looks at

VARIABLE focus

----------------------------------------------------------------------------
(* What the environment of a component does. *)

Use(host_copies, client_copies, pastes, switches, failures) ==
    [host |-> host_copies, client |-> client_copies, pastes |-> pastes,
     switches |-> switches, failures |-> failures]

MCClipUses ==
    {Use(2, 0, 0, 0, 0), Use(1, 1, 0, 0, 0), Use(1, 0, 0, 1, 0), Use(0, 1, 1, 0, 0),
     Use(0, 0, 1, 1, 0), Use(0, 1, 0, 1, 0), Use(0, 2, 0, 0, 0), Use(1, 0, 0, 0, 1),
     Use(0, 1, 1, 0, 1)}

Budget(captures, caps, acks, requests) ==
    [captures |-> captures, caps |-> caps, acks |-> acks, requests |-> requests]

MCGfxBudgets ==
    {Budget(2, 1, 1, 0), Budget(1, 2, 1, 0),
     Budget(1, 1, 0, 2), Budget(1, 3, 0, 0)}

MCThreads == {t1, t2}

Plan(first, second) == (t1 :> first) @@ (t2 :> second)

MCScenarios ==
    [plan : {Plan(<<"open", "release">>, <<"path">>),
             Plan(<<"open", "use">>, <<"open">>),
             Plan(<<"delete">>, <<>>)},
     faults : {{"timeout", "connection"}, {"timeout", "unplugged"},
               {"timeout", "refused"}}]
    \cup [plan : {Plan(<<"open", "readdir">>, <<>>), Plan(<<"list">>, <<"open">>)},
          faults : {{"timeout", "connection"}, {"timeout", "refused"},
                    {"timeout", "mismatch"}}]
    \cup [plan : {Plan(<<"delete">>, <<"open">>)}, faults : {{"timeout"}}]

MCMountUses == {[sessions |-> 2, files |-> 1], [sessions |-> 1, files |-> 3]}

\* Both devices of a client have the same name after sanitising.
MCSanitizedName == [d \in MountDevice |-> "C"]

----------------------------------------------------------------------------

Resting(f) == focus # f

ChannelsInit ==
    /\ focus \in Focuses
    /\ ClipboardInit
    /\ Resting("clipboard") => mode = "Bidirectional" /\ copies = Use(2, 0, 0, 0, 0)
    /\ DvcInit
    /\ MicInit
    /\ Resting("microphone") => up = {} /\ pulse_server = CHOOSE s \in PulseServer : TRUE
    /\ GraphicsInit
    /\ Resting("graphics") => budget.requests = 2 /\ gate_open
    /\ DrivesInit
    /\ Resting("drives") =>
          plan = Plan(<<"delete">>, <<"open">>) /\ faults = {"timeout"}
    /\ MountsInit
    /\ Resting("mounts") => limits.sessions = 1

ChannelsNext ==
    /\ UNCHANGED focus
    /\ \/ /\ focus = "clipboard" /\ ClipboardNext
          /\ UNCHANGED <<dvcVars, micVars, gfxVars, driveVars, mountVars>>
       \/ /\ focus = "dynamic" /\ DvcNext
          /\ UNCHANGED <<clipVars, micVars, gfxVars, driveVars, mountVars>>
       \/ /\ focus = "microphone" /\ MicNext
          /\ UNCHANGED <<clipVars, dvcVars, gfxVars, driveVars, mountVars>>
       \/ /\ focus = "graphics" /\ GraphicsNext
          /\ UNCHANGED <<clipVars, dvcVars, micVars, driveVars, mountVars>>
       \/ /\ focus = "drives" /\ DrivesNext
          /\ UNCHANGED <<clipVars, dvcVars, micVars, gfxVars, mountVars>>
       \/ /\ focus = "mounts" /\ MountsNext
          /\ UNCHANGED <<clipVars, dvcVars, micVars, gfxVars, driveVars>>

channelsVars ==
    <<focus, clipVars, dvcVars, micVars, gfxVars, driveVars, mountVars>>

\* The fairness of each component, for the one that moves.
ChannelsFairness ==
    /\ WF_clipVars(focus = "clipboard" /\ Worker)
    /\ WF_clipVars(focus = "clipboard" /\ PollStart)
    /\ WF_clipVars(focus = "clipboard" /\ Watch)
    /\ WF_clipVars(focus = "clipboard" /\ Threads)
    /\ WF_clipVars(focus = "clipboard" /\ Tasks)
    /\ \A c \in ClipConn : WF_clipVars(focus = "clipboard" /\ Deliver(c))
    /\ WF_dvcVars(focus = "dynamic" /\ DvcSetup)
    /\ WF_dvcVars(focus = "dynamic" /\ on_channel_data)
    /\ WF_dvcVars(focus = "dynamic" /\ ClientReceives)
    /\ WF_micVars(focus = "microphone" /\ on_audio_data)
    /\ WF_micVars(focus = "microphone" /\ spawn_writer)
    /\ WF_micVars(focus = "microphone" /\ CooldownEnds)
    /\ WF_micVars(focus = "microphone" /\ WriterThread)
    /\ WF_gfxVars(focus = "graphics" /\ HandleBitmap)
    /\ WF_gfxVars(focus = "graphics" /\ GateOpensForVideo)
    /\ WF_gfxVars(focus = "graphics" /\ PumpGraphics)
    /\ WF_gfxVars(focus = "graphics" /\ Tick)
    /\ WF_gfxVars(focus = "graphics" /\ HandleResized)
    /\ WF_gfxVars(focus = "graphics" /\ TaskSend)
    /\ WF_gfxVars(focus = "graphics" /\ InlineSend)
    /\ WF_gfxVars(focus = "graphics" /\ Receive)
    /\ \A t \in FuseThread :
          WF_driveVars(/\ focus = "drives"
                       /\ Submit(t) \/ Received(t) \/ GivesUp(t) \/ TimesOut(t))
    /\ \A c \in MountConn :
          /\ WF_mountVars(focus = "mounts" /\ (Prepare(c) \/ Mount(c) \/ Register(c)))
          /\ WF_mountVars(focus = "mounts" /\ \E d \in MountDevice : Leave(c, d))
    /\ WF_mountVars(focus = "mounts" /\ \E u \in umounts : Umount(u[1], u[2]))
    /\ WF_mountVars(focus = "mounts" /\ \E n \in DosName : LazyUnmount(n))

ChannelsSpec == ChannelsInit /\ [][ChannelsNext]_channelsVars /\ ChannelsFairness
=============================================================================
