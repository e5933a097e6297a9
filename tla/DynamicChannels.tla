--------------------------- MODULE DynamicChannels ---------------------------
(***************************************************************************)
(* The "drdynvc" multiplexer of one connection: rdpcore_dvc::DvcMux on top *)
(* of svc::reassemble.  A dynamic channel message goes through two layers  *)
(* of fragmentation: it is cut into DataFirst and Data PDUs, and each of   *)
(* those into static channel chunks.  PDUs of different dynamic channels   *)
(* interleave, the chunks of one PDU do not.  The client of this model     *)
(* cuts its messages in any way the two layers allow.                      *)
(*                                                                         *)
(* A payload is a sequence of units <<message, position>>, so that a       *)
(* property can tell which bytes of which message reached a handler.       *)
(***************************************************************************)
EXTENDS Naturals, Sequences, FiniteSets, SequencesExt

CONSTANTS
    DvcName,        \* the channels the session registers (a set of names)
    MaxDvcMessage,  \* MAX_DVC_MESSAGE_SIZE, in units
    MaxLength,      \* bound: the longest message the client sends
    MaxMessages     \* bound: messages the client sends

ASSUME DvcAssumption == MaxDvcMessage \in Nat \ {0} /\ MaxLength \in Nat

VARIABLES
    unregistered,   \* channels session setup has not registered yet
    negotiated,     \* capability_negotiated
    pending,        \* handlers waiting for the negotiation
    slots,          \* channels: [id, name, reassembly]; reassembly is a
                    \* sequence of at most one [total, buffered]
    next_id,        \* next_dynamic_id
    svc_incoming,   \* the PDU being reassembled from chunks, at most one
    from_client,    \* chunks on their way to the mux
    to_client,      \* server PDUs on their way to the client
    opened,         \* name -> the id the client opened it under, 0 if none
    sending,        \* name -> rest of the message the client is sending
    intended,       \* name -> messages the client finished sending
    delivered,      \* name -> payloads handed to the handler's on_data
    spoilt,         \* channels on which a message or a PDU of the client
                    \* exceeded the size limit
    answered        \* name -> what became of the channel

dvcVars == <<unregistered, negotiated, pending, slots, next_id, svc_incoming,
             from_client, to_client, opened, sending, intended, delivered,
             spoilt, answered>>

-----------------------------------------------------------------------------
(* The multiplexer.                                                        *)

PduHeader == 1      \* what the header of a PDU takes, in units

Payload(n, len) == [i \in 1..len |-> <<n, i>>]
Truncate(s, len) == SubSeq(s, 1, len)
SlotOf(id) == {i \in DOMAIN slots : slots[i].id = id}

\* DvcMux::new: the Capability Request goes out before anything else.
DvcInit ==
    /\ unregistered = DvcName /\ negotiated = FALSE /\ pending = <<>>
    /\ slots = <<>> /\ next_id = 1 /\ svc_incoming = <<>>
    /\ from_client = <<>> /\ to_client = <<[kind |-> "caps"]>>
    /\ opened = [n \in DvcName |-> 0]
    /\ sending = [n \in DvcName |-> <<>>]
    /\ intended = [n \in DvcName |-> <<>>]
    /\ delivered = [n \in DvcName |-> <<>>]
    /\ spoilt = {}
    /\ answered = [n \in DvcName |-> "no"]

\* open_channel for each of the handlers, in order.
open_channels(handlers) ==
    LET new == [i \in DOMAIN handlers |->
                  [id |-> next_id + i - 1, name |-> handlers[i],
                   reassembly |-> <<>>]]
    IN /\ slots' = slots \o new
       /\ next_id' = next_id + Len(handlers)
       /\ to_client' = to_client \o
              [i \in DOMAIN new |->
                 [kind |-> "create", id |-> new[i].id, name |-> new[i].name]]

\* register_channel, called for every handler during session setup. The loop
\* reads its first frame afterwards, so the handler is kept until the
\* negotiation.
register_channel(name) ==
    /\ name \in unregistered
    /\ unregistered' = unregistered \ {name}
    /\ IF negotiated
       THEN open_channels(<<name>>) /\ UNCHANGED pending
       ELSE /\ pending' = Append(pending, name)
            /\ UNCHANGED <<slots, next_id, to_client>>
    /\ UNCHANGED <<negotiated, svc_incoming, from_client, opened, sending,
                   intended, delivered, spoilt, answered>>

\* Mistake: only the first waiting handler is opened.
OpenFirstOnly ==
    /\ negotiated' = TRUE /\ pending' = <<>> /\ next_id' = next_id + 1
    /\ slots' = Append(slots, [id |-> next_id, name |-> Head(pending),
                               reassembly |-> <<>>])
    /\ to_client' = Append(to_client, [kind |-> "create", id |-> next_id,
                                       name |-> Head(pending)])
    /\ UNCHANGED delivered

\* CapabilityResponse: every waiting handler is opened.  A second response
\* finds nothing waiting.
on_capability_response ==
    /\ negotiated' = TRUE
    /\ pending' = <<>>
    /\ open_channels(pending)
    /\ UNCHANGED delivered

Close(id) ==
    /\ slots' = SelectSeq(slots, LAMBDA s : s.id # id)
    /\ UNCHANGED <<negotiated, pending, next_id, to_client, delivered>>

\* CreateResponse: a refusal drops the slot, an acceptance lets the handler
\* speak (on_open); an unknown id is ignored.
on_create_response(pdu) ==
    IF ~ pdu.ok
    THEN Close(pdu.id)
    ELSE /\ to_client' = IF SlotOf(pdu.id) = {} THEN to_client
                         ELSE Append(to_client, [kind |-> "data", id |-> pdu.id])
         /\ UNCHANGED <<negotiated, pending, slots, next_id, delivered>>

\* The part of handle_incoming_data that decides: what the slot keeps and
\* what, if anything, is complete.
DataFirst(slot, total, data) ==
    IF total > MaxDvcMessage
    THEN [reassembly |-> slot.reassembly, complete |-> <<>>]
    ELSE IF Len(data) >= total
    THEN [reassembly |-> slot.reassembly,
          complete |-> <<Truncate(data, total)>>]
    ELSE [reassembly |-> <<[total |-> total, buffered |-> data]>>,
          complete |-> <<>>]

Data(slot, data) ==
    IF slot.reassembly = <<>>
    THEN [reassembly |-> <<>>, complete |-> <<data>>]
    ELSE LET r == Head(slot.reassembly)
             all == r.buffered \o data
         IN IF Len(all) > MaxDvcMessage
            THEN [reassembly |-> <<>>, complete |-> <<>>]
            ELSE IF Len(all) >= r.total
            THEN [reassembly |-> <<>>,
                  complete |-> <<Truncate(all, r.total)>>]
            ELSE [reassembly |-> <<[total |-> r.total, buffered |-> all]>>,
                  complete |-> <<>>]

\* Mistake: the slot is found by its position, as if no id was ever retired.
DataByPosition(pdu) ==
    /\ IF pdu.id \in DOMAIN slots
       THEN LET d == Data(slots[pdu.id], pdu.data)
            IN /\ slots' = [slots EXCEPT ![pdu.id].reassembly = d.reassembly]
               /\ delivered' = [delivered EXCEPT ![slots[pdu.id].name] =
                                  @ \o d.complete]
       ELSE UNCHANGED <<slots, delivered>>
    /\ UNCHANGED <<negotiated, pending, next_id, to_client>>

handle_incoming_data(pdu) ==
    /\ IF SlotOf(pdu.id) = {}
       THEN UNCHANGED <<slots, delivered>>
       ELSE LET i == CHOOSE k \in SlotOf(pdu.id) : TRUE
                d == IF pdu.kind = "first"
                     THEN DataFirst(slots[i], pdu.total, pdu.data)
                     ELSE Data(slots[i], pdu.data)
            IN /\ slots' = [slots EXCEPT ![i].reassembly = d.reassembly]
               /\ delivered' = [delivered EXCEPT ![slots[i].name] =
                                  @ \o d.complete]
    /\ UNCHANGED <<negotiated, pending, next_id, to_client>>

dispatch(pdu) ==
    CASE pdu.kind = "caps" -> on_capability_response
      [] pdu.kind = "created" -> on_create_response(pdu)
      [] pdu.kind \in {"first", "data"} -> handle_incoming_data(pdu)
      [] pdu.kind = "close" -> Close(pdu.id)

\* svc::reassemble: FIRST clears the buffer, a continuation without a first
\* chunk is dropped, too much data (the PDU's header included) empties the
\* buffer and is an error.
Reassembled(chunk) ==
    IF chunk.first THEN <<chunk.pdu>>
    ELSE IF svc_incoming = <<>> THEN <<>>
    ELSE <<[svc_incoming[1] EXCEPT !.data = @ \o chunk.pdu.data]>>

on_channel_data ==
    /\ unregistered = {} /\ from_client # <<>>
    /\ from_client' = Tail(from_client)
    /\ LET chunk == Head(from_client)
           whole == Reassembled(chunk)
           fits == whole # <<>> /\ PduHeader + Len(whole[1].data) <= MaxDvcMessage
           idle == UNCHANGED <<negotiated, pending, slots, next_id, to_client,
                               delivered>>
       IN \/ /\ ~ fits
             /\ svc_incoming' = <<>>
             /\ idle
          \/ /\ fits /\ ~ chunk.last
             /\ svc_incoming' = whole
             /\ idle
          \/ /\ fits /\ chunk.last
             /\ svc_incoming' = <<>>
             /\ dispatch(whole[1])
    /\ UNCHANGED <<unregistered, opened, sending, intended, spoilt, answered>>

-----------------------------------------------------------------------------
(* The client.                                                             *)

\* A PDU as one chunk, or as two cut at any place.
Chunked(pdu, cut) ==
    IF cut = 0 THEN <<[first |-> TRUE, last |-> TRUE, pdu |-> pdu]>>
    ELSE <<[first |-> TRUE, last |-> FALSE,
            pdu |-> [pdu EXCEPT !.data = SubSeq(@, 1, cut - 1)]],
           [first |-> FALSE, last |-> TRUE,
            pdu |-> [pdu EXCEPT !.data = SubSeq(@, cut, Len(@))]]>>

Pdu(kind, id, ok, total, data) ==
    [kind |-> kind, id |-> id, ok |-> ok, total |-> total, data |-> data]

Control(pdu) == from_client' = from_client \o Chunked(pdu, 0)

ClientReceives ==
    /\ to_client # <<>>
    /\ to_client' = Tail(to_client)
    /\ LET pdu == Head(to_client)
       IN CASE pdu.kind = "caps" ->
                 /\ Control(Pdu("caps", 0, TRUE, 0, <<>>))
                 /\ UNCHANGED <<opened, answered>>
            [] pdu.kind = "create" ->
                 \E ok \in BOOLEAN :
                    /\ Control(Pdu("created", pdu.id, ok, 0, <<>>))
                    /\ opened' = [opened EXCEPT ![pdu.name] =
                                    IF ok THEN pdu.id ELSE 0]
                    /\ answered' = [answered EXCEPT ![pdu.name] =
                                      IF ok THEN "open" ELSE "refused"]
            [] pdu.kind = "data" -> UNCHANGED <<from_client, opened, answered>>
    /\ UNCHANGED <<unregistered, negotiated, pending, slots, next_id,
                   svc_incoming, sending, intended, delivered, spoilt>>

Sent == {<<n, m>> \in DvcName \X (1..MaxMessages) : m <= Len(intended[n])}

ClientStarts(n, len) ==
    /\ opened[n] # 0 /\ sending[n] = <<>>
    /\ Cardinality(Sent) + Cardinality({k \in DvcName : sending[k] # <<>>})
         < MaxMessages
    /\ sending' = [sending EXCEPT ![n] =
                     <<[data |-> Payload(Len(intended[n]) + 1, len),
                        total |-> len, begun |-> FALSE]>>]
    /\ spoilt' = IF len > MaxDvcMessage THEN spoilt \cup {n} ELSE spoilt
    /\ UNCHANGED <<unregistered, negotiated, pending, slots, next_id,
                   svc_incoming, from_client, to_client, opened, intended,
                   delivered, answered>>

\* The next PDU of the message: a Data PDU of its own when nothing was sent
\* yet and everything fits, a DataFirst or a continuation otherwise.
ClientSends(n, size, cut) ==
    /\ sending[n] # <<>> /\ from_client = <<>>
    /\ LET s == Head(sending[n])
           data == SubSeq(s.data, 1, size)
           rest == SubSeq(s.data, size + 1, Len(s.data))
           kind == IF s.begun \/ rest = <<>> THEN "data" ELSE "first"
       IN /\ size <= Len(s.data) /\ (s.data # <<>> => size > 0)
          /\ cut <= size + 1
          /\ from_client' = Chunked(Pdu(kind, opened[n], TRUE, s.total, data),
                                    cut)
          /\ IF rest = <<>>
             THEN /\ sending' = [sending EXCEPT ![n] = <<>>]
                  /\ intended' = [intended EXCEPT ![n] =
                        Append(@, Payload(Len(@) + 1, s.total))]
             ELSE /\ sending' = [sending EXCEPT ![n] =
                                   <<[s EXCEPT !.data = rest,
                                               !.begun = TRUE]>>]
                  /\ UNCHANGED intended
    /\ spoilt' = IF PduHeader + size > MaxDvcMessage THEN spoilt \cup {n} ELSE spoilt
    /\ UNCHANGED <<unregistered, negotiated, pending, slots, next_id,
                   svc_incoming, to_client, opened, delivered, answered>>

ClientCloses(n) ==
    /\ opened[n] # 0 /\ sending[n] = <<>>
    /\ Control(Pdu("close", opened[n], TRUE, 0, <<>>))
    /\ opened' = [opened EXCEPT ![n] = 0]
    /\ answered' = [answered EXCEPT ![n] = "closed"]
    /\ UNCHANGED <<unregistered, negotiated, pending, slots, next_id,
                   svc_incoming, to_client, sending, intended, delivered,
                   spoilt>>

DvcSetup == \E n \in DvcName : register_channel(n)

DvcNext ==
    \/ DvcSetup
    \/ on_channel_data
    \/ ClientReceives
    \/ \E n \in DvcName :
         \/ \E len \in 0..MaxLength : ClientStarts(n, len)
         \/ \E size \in 0..MaxLength, cut \in 0..(MaxLength + 1) :
               ClientSends(n, size, cut)
         \/ ClientCloses(n)

\* Session setup runs to its end, the loop reads what arrives, and the client
\* answers what it is asked.
DvcFairness ==
    /\ WF_dvcVars(DvcSetup)
    /\ WF_dvcVars(on_channel_data)
    /\ WF_dvcVars(ClientReceives)

DvcSpec == DvcInit /\ [][DvcNext]_dvcVars /\ DvcFairness

-----------------------------------------------------------------------------

\* The type invariant: ids are handed out once, and what a slot has buffered is
\* less than its message and below the limit.
DvcTypeOK ==
    /\ unregistered \subseteq DvcName
    /\ next_id \in 1..(Cardinality(DvcName) + 1)
    /\ \A i \in DOMAIN slots :
         /\ slots[i].name \in DvcName /\ slots[i].id \in 1..(next_id - 1)
         /\ Len(slots[i].reassembly) <= 1
         /\ \A r \in ToSet(slots[i].reassembly) :
              Len(r.buffered) < r.total /\ r.total <= MaxDvcMessage

\* What has left the client for channel n and what the mux has done with it
\* agree: with nothing on the way, every message the client finished has
\* reached the handler, whole, once and in order, whatever the fragmentation
\* and however the PDUs of several channels interleave.  (DvcMux and
\* svc::reassemble.)  Where the size limit was exceeded, pieces may arrive as
\* messages, but none above the limit.
MessagesArriveWhole ==
    /\ \A n \in DvcName : \A m \in ToSet(delivered[n]) : Len(m) <= MaxDvcMessage
    /\ \A n \in DvcName \ spoilt :
         /\ IsPrefix(delivered[n], intended[n])
         /\ from_client = <<>> => delivered[n] = intended[n]

\* Every registered channel, in the end, is offered to the client and gets an answer,
\* although registration happens before the negotiation (pending).
EveryChannelAnswered ==
    \A n \in DvcName : []<>(n \in unregistered \/ answered[n] # "no")

\* The multiplexer keeps its limits and delivers whole messages in order.
DvcSafe == DvcTypeOK /\ MessagesArriveWhole
=============================================================================
