------------------------------ MODULE Acceptor ------------------------------
(***************************************************************************)
(* The connection sequence of one client                                   *)
(* (crates/rdpcore-connector/src/lib.rs): step(a, frame) is what feeding   *)
(* one frame to the acceptor a does, an acceptor, an event and whether     *)
(* step returned an error.                                                 *)
(*                                                                         *)
(* A frame is the PDU it decodes to. Bad is one that does not decode in    *)
(* the phase it arrives in, a PDU of another phase included. In the MCS    *)
(* domain phase and from Confirm Active on, a frame is a sequence of PDUs: *)
(* clients batch them.                                                     *)
(***************************************************************************)
EXTENDS Integers, Sequences

CONSTANTS
    MaxChannels,            \* bound: static channels a client asks for
    MAX_CONFIRM_ACTIVE_LEN  \* in fragments of a Confirm Active

ASSUME AcceptorAssumption ==
    /\ MaxChannels \in Nat
    /\ MAX_CONFIRM_ACTIVE_LEN \in Nat \ {0}

Protocols == {"SSL", "HYBRID"}

DomainStates == {"WaitErectDomainRequest", "WaitAttachUserRequest",
                 "WaitChannelJoinRequest"}
ReactivationStates == {"WaitConfirmActive", "WaitFinalization"}
FinishedStates == {"Accepted", "Rejected"}
States == DomainStates \cup ReactivationStates \cup FinishedStates \cup
          {"WaitConnectionRequest", "WaitConnectInitial", "WaitClientInfo",
           "WaitAuthApproval"}

-----------------------------------------------------------------------------
Bad == [kind |-> "bad"]

ConnectionRequests == [kind : {"request"}, protocol : SUBSET Protocols]
ConnectInitials ==
    [kind : {"initial"}, channels : 0 .. MaxChannels, message : BOOLEAN]

ClientInfos == [kind : {"info"}]

DomainPdus == {"erect", "attach", "join", "ultimatum", "bad"}

\* The i-th of k fragments of a Confirm Active. The bytes of a later one may
\* look like the header of another PDU.
Fragments ==
    {f \in [kind : {"confirm"}, i : 1 .. 2, k : 1 .. 2, looks_other : BOOLEAN] :
        f.i <= f.k /\ (f.looks_other => f.i > 1)}

\* "channel": traffic of a virtual channel. "other": a PDU of the I/O channel
\* that neither phase acts on, Synchronize among them.
SharePdus == Fragments \cup
    [kind : {"channel", "other", "request_control", "fontlist", "bad"}]

Acceptors ==
    [state : States, require_nla : BOOLEAN, selected : Protocols,
     channels : 0 .. MaxChannels, message_channel : BOOLEAN, remaining : 0 .. MaxChannels + 3,
     confirm_active_buf : Seq(Fragments), granted_control_sent : BOOLEAN]

Batches(pdus) == [kind : {"batch"}, pdus : pdus]

new(require_nla) ==
    [state |-> "WaitConnectionRequest", require_nla |-> require_nla,
     selected |-> "SSL", channels |-> 0, message_channel |-> FALSE,
     remaining |-> 0, confirm_active_buf |-> <<>>, granted_control_sent |-> FALSE]

requires_credssp(a) == a.selected = "HYBRID"
is_finished(a) == a.state \in FinishedStates

Ok(a, event) == [acceptor |-> a, event |-> event, err |-> FALSE]
Err(a)       == [acceptor |-> a, event |-> "None", err |-> TRUE]

-----------------------------------------------------------------------------
approve_client_info(a) ==
    IF a.state = "WaitAuthApproval"
    THEN Ok([a EXCEPT !.state = "WaitConfirmActive"], "None")
    ELSE Err(a)

reject_client_info(a) ==
    IF a.state = "WaitAuthApproval" THEN [a EXCEPT !.state = "Rejected"] ELSE a

\* Deactivate-All and a new Demand Active: the client has to confirm again.
begin_resize(a) ==
    IF a.state = "Accepted"
    THEN Ok([a EXCEPT !.confirm_active_buf = <<>>, !.state = "WaitConfirmActive"], "None")
    ELSE Err(a)

\* NLA when the client offers it, TLS alone unless NLA is required.
on_connection_request(a, f) ==
    LET choice == IF "HYBRID" \in f.protocol THEN {"HYBRID"}
                  ELSE IF a.require_nla THEN {} ELSE f.protocol
    IN  IF choice = {} THEN Ok([a EXCEPT !.state = "Rejected"], "Rejected")
        ELSE Ok([a EXCEPT !.state = "WaitConnectInitial",
                          !.selected = CHOOSE p \in choice : TRUE], "TlsUpgrade")

on_connect_initial(a, f) ==
    Ok([a EXCEPT !.state = "WaitErectDomainRequest", !.channels = f.channels,
                 !.message_channel = f.message], "None")

\* One domain PDU; any id that is joined is confirmed. A PDU that does not
\* decode leaves the acceptor Rejected, since the state was taken out first.
OnDomainPdu(a, pdu) ==
    CASE a.state = "WaitErectDomainRequest" /\ pdu = "erect" ->
            Ok([a EXCEPT !.state = "WaitAttachUserRequest"], "None")
      [] a.state = "WaitAttachUserRequest" /\ pdu = "attach" ->
            Ok([a EXCEPT !.state = "WaitChannelJoinRequest",
                         !.remaining = 2 + a.channels +
                                       IF a.message_channel THEN 1 ELSE 0], "None")
      [] a.state = "WaitChannelJoinRequest" /\ pdu = "join" ->
            Ok([a EXCEPT !.remaining = @ - 1,
                         !.state = IF a.remaining = 1 THEN "WaitClientInfo" ELSE @], "None")
      [] OTHER -> Err([a EXCEPT !.state = "Rejected"])

\* The PDUs of a frame in turn; those behind the last join are not looked at.
step_mcs_domain_pdus(a, pdus) ==
    LET peeled[n \in 0 .. Len(pdus)] ==
            IF n = 0 THEN Ok(a, "None")
            ELSE LET r == peeled[n - 1]
                 IN  IF r.err \/ r.acceptor.state = "WaitClientInfo" THEN r
                     ELSE OnDomainPdu(r.acceptor, pdus[n])
    IN  peeled[Len(pdus)]

\* Mutant: the server is not asked about the credentials.
on_client_info_trusting(a, f) == Ok([a EXCEPT !.state = "WaitConfirmActive"], "None")

on_client_info(a, f) == Ok([a EXCEPT !.state = "WaitAuthApproval"], "ClientInfoReceived")

\* Mutant: what has gathered is decoded but not taken.
on_confirm_active_send_data_keeping(a, pdu) ==
    IF pdu.kind = "confirm" => pdu.looks_other THEN Ok(a, "None")
    ELSE IF Len(a.confirm_active_buf) + 1 > MAX_CONFIRM_ACTIVE_LEN
    THEN Err([a EXCEPT !.confirm_active_buf = <<>>])
    ELSE LET data == Append(a.confirm_active_buf, pdu)
         IN  IF pdu.i < pdu.k THEN Ok([a EXCEPT !.confirm_active_buf = data], "None")
             ELSE IF [n \in DOMAIN data |-> data[n].i] = [n \in 1 .. pdu.k |-> n]
             THEN Ok([a EXCEPT !.confirm_active_buf = data,
                               !.granted_control_sent = FALSE,
                               !.state = "WaitFinalization"], "None")
             ELSE Err([a EXCEPT !.confirm_active_buf = <<>>])

\* Traffic of other channels and other PDUs are ignored. Fragments gather until
\* the last one; what has gathered must then be one whole Confirm Active.
on_confirm_active_send_data(a, pdu) ==
    IF pdu.kind = "confirm" => pdu.looks_other THEN Ok(a, "None")
    ELSE IF Len(a.confirm_active_buf) + 1 > MAX_CONFIRM_ACTIVE_LEN
    THEN Err([a EXCEPT !.confirm_active_buf = <<>>])
    ELSE LET data == Append(a.confirm_active_buf, pdu)
         IN  IF pdu.i < pdu.k THEN Ok([a EXCEPT !.confirm_active_buf = data], "None")
             ELSE IF [n \in DOMAIN data |-> data[n].i] = [n \in 1 .. pdu.k |-> n]
             THEN Ok([a EXCEPT !.confirm_active_buf = <<>>,
                               !.granted_control_sent = FALSE,
                               !.state = "WaitFinalization"], "None")
             ELSE Err([a EXCEPT !.confirm_active_buf = <<>>])

on_finalization_send_data(a, pdu) ==
    CASE pdu.kind = "request_control" ->
            Ok([a EXCEPT !.granted_control_sent = TRUE], "None")
      [] pdu.kind = "fontlist" -> Ok([a EXCEPT !.state = "Accepted"], "Accepted")
      [] OTHER -> Ok(a, "None")

\* The PDUs of a frame in turn, up to the one that completes the sequence or
\* the first error; an error does not undo the PDUs before it.
step_reactivation(a, pdus) ==
    LET peeled[n \in 0 .. Len(pdus)] ==
            IF n = 0 THEN Ok(a, "None")
            ELSE LET r == peeled[n - 1]
                 IN  IF r.err \/ is_finished(r.acceptor) THEN r
                     ELSE IF pdus[n].kind = "bad" THEN Err(r.acceptor)
                     ELSE IF r.acceptor.state = "WaitConfirmActive"
                     THEN on_confirm_active_send_data(r.acceptor, pdus[n])
                     ELSE on_finalization_send_data(r.acceptor, pdus[n])
    IN  peeled[Len(pdus)]

step(a, f) ==
    IF is_finished(a) \/ a.state = "WaitAuthApproval" \/ f = Bad THEN Err(a)
    ELSE CASE a.state \in DomainStates -> step_mcs_domain_pdus(a, f.pdus)
           [] a.state \in ReactivationStates -> step_reactivation(a, f.pdus)
           [] a.state = "WaitConnectionRequest" -> on_connection_request(a, f)
           [] a.state = "WaitConnectInitial" -> on_connect_initial(a, f)
           [] a.state = "WaitClientInfo" -> on_client_info(a, f)
=============================================================================
