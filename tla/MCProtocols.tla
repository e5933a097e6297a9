---------------------------- MODULE MCProtocols ----------------------------
(***************************************************************************)
(* The parts between the wire and the host, for TLC: the outgoing half of  *)
(* a connection, the wire formats and the cutting of the stream into       *)
(* frames, the connection sequence, typed text and the names of a          *)
(* redirected drive. They share no state, so a behaviour is one of a       *)
(* single component, chosen at the start (`focus`), with the others at     *)
(* rest.                                                                   *)
(***************************************************************************)
EXTENDS MCTransport, Connector, Exchange, WireCases, Framing,
        UnicodeTyper, DriveNames, TLC

CONSTANT Focuses        \* the components a run looks at

VARIABLE focus

----------------------------------------------------------------------------
(* Streams: two frames of the connection sequence, then a short or a long  *)
(* fast-path frame, a TPKT frame and another fast-path frame; a piece ends *)
(* within the header of a frame or with the stream.                        *)

MouseFrame(n) == FastPathInput([events |-> [i \in 1..n |-> Mouse(2048, i, 3)]])

EarlyFrames ==
    <<wrap_data(ErectDomainRequest([sub_height |-> <<0, 0>>, sub_interval |-> <<0, 0>>])),
      wrap_data(AttachUserRequest([non_standard |-> <<>>]))>>

SteadyFrames(n) ==
    <<MouseFrame(n),
      wrap_data(SendData("SendDataRequest",
                         [initiator |-> 1007, channel_id |-> 1003, data |-> <<1, 2, 3>>])),
      MouseFrame(1)>>

PieceEnds(fs) ==
    {Len(FlattenSeq(SubSeq(fs, 1, k))) + d : k \in 0..Len(fs), d \in 0..4}
        \cap (1..Len(FlattenSeq(fs)))

Silent == [early |-> <<>>, steady |-> <<>>, cuts |-> {}]

MCStreams ==
    {[early |-> EarlyFrames, steady |-> SteadyFrames(n),
      cuts |-> PieceEnds(EarlyFrames \o SteadyFrames(n))] : n \in {1, 20}}
        \cup {Silent}

----------------------------------------------------------------------------
(* Drive names: two files, or a file in a directory. *)

MCTempNames == <<"t1", "t2", "t3", "t4", "t5", "t6">>

TreeEntry(dir, id) == [dir |-> dir, id |-> id, size |-> 0]

MCTrees ==
    {(<<>> :> TreeEntry(TRUE, 1)) @@ (<<"a">> :> TreeEntry(FALSE, 2)) @@ (<<"b">> :> TreeEntry(FALSE, 3)),
     (<<>> :> TreeEntry(TRUE, 1)) @@ (<<"a">> :> TreeEntry(TRUE, 2)) @@ (<<"a", "a">> :> TreeEntry(FALSE, 3))}

----------------------------------------------------------------------------

Resting(f) == focus # f

ProtocolsInit ==
    /\ focus \in Focuses
    /\ TransportInit
    /\ ConnectorInit
    /\ Resting("connector") => acceptor = new(TRUE)
    /\ ExchangeInit
    /\ Resting("wire") => case.pdu = "none"
    /\ FramingInit
    /\ Resting("framing") => stream = Silent
    /\ TyperInit
    /\ Resting("typing") => session = NoDisplay
    /\ NamesInit
    /\ Resting("names") => <<"b">> \in DOMAIN tree

protocolsVars ==
    <<focus, vars, connectorVars, exchangeVars, framingVars,
      typerVars, nameVars>>

WireStep(A) ==
    /\ focus = "wire" /\ A
    /\ UNCHANGED <<focus, vars, connectorVars, framingVars, typerVars,
                   nameVars>>

\* ExchangeNext, one disjunct to a line: its decoders are large.
WireNext ==
    \/ WireStep(Transmission)
    \/ WireStep(ReceivePlain)
    \/ WireStep(ReceiveConnection)
    \/ WireStep(ReceiveShare)
    \/ WireStep(ReceiveUpdate)
    \/ WireStep(ReceiveDynamic)
    \/ WireStep(ReceiveDevice)
    \/ WireStep(Chunking)

ProtocolsNext ==
    \/ /\ focus = "transport" /\ TransportNext
       /\ UNCHANGED <<focus, connectorVars, exchangeVars, framingVars,
                      typerVars, nameVars>>
    \/ /\ focus = "connector" /\ ConnectorNext
       /\ UNCHANGED <<focus, vars, exchangeVars, framingVars, typerVars,
                      nameVars>>
    \/ WireNext
    \/ /\ focus = "framing" /\ FramingNext
       /\ UNCHANGED <<focus, vars, connectorVars, exchangeVars, typerVars,
                      nameVars>>
    \/ /\ focus = "typing" /\ TyperNext
       /\ UNCHANGED <<focus, vars, connectorVars, exchangeVars, framingVars,
                      nameVars>>
    \/ /\ focus = "names" /\ NamesNext
       /\ UNCHANGED <<focus, vars, connectorVars, exchangeVars, framingVars,
                      typerVars>>

\* The fairness of the writer, the only part that something is asked of.
ProtocolsFairness ==
    /\ WF_vars(focus = "transport" /\ Writer)
    /\ \A s \in Sender : WF_vars(focus = "transport" /\ NotifyLive(s))

ProtocolsSpec ==
    ProtocolsInit /\ [][ProtocolsNext]_protocolsVars /\ ProtocolsFairness
=============================================================================
