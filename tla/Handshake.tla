----------------------------- MODULE Handshake -----------------------------
(***************************************************************************)
(* What the connection sequence promises the server that drives it: the    *)
(* phases a caller of crates/rdpcore-connector/src/lib.rs can tell apart,  *)
(* and the events on the way. Module Connector shows that the acceptor     *)
(* keeps to it, whatever the client sends; module Server builds on it.     *)
(***************************************************************************)
VARIABLE h      \* the phase, and what was configured and negotiated

Phases == {"request", "setup", "approval", "activating", "accepted", "rejected"}

new(require_nla) == [phase |-> "request", require_nla |-> require_nla, hybrid |-> FALSE]

\* What a frame can lead to: the phase after it, and the event or an error.
To(s, phase, event) == [h |-> [s EXCEPT !.phase = phase], event |-> event]

Outcomes(s) ==
    {To(s, s.phase, "Err")} \cup
    CASE s.phase = "request" ->
            {To(s, "rejected", "Rejected")} \cup
            {To([s EXCEPT !.hybrid = b], "setup", "TlsUpgrade") :
                b \in IF s.require_nla THEN {TRUE} ELSE BOOLEAN}
      [] s.phase = "setup" ->
            {To(s, "setup", "None"), To(s, "rejected", "Err"),
             To(s, "approval", "ClientInfoReceived")}
      [] s.phase = "activating" ->
            {To(s, "activating", "None"), To(s, "accepted", "Accepted")}
      [] OTHER -> {}

\* What the caller does: approve_client_info, reject_client_info, begin_resize.
Approve(s) == [s EXCEPT !.phase = "activating"]
Reject(s)  == [s EXCEPT !.phase = "rejected"]
Resize(s)  == [s EXCEPT !.phase = "activating"]

HandshakeInit == h \in {new(TRUE), new(FALSE)}

HandshakeNext ==
    \/ \E o \in Outcomes(h) : h' = o.h
    \/ h.phase = "approval" /\ h' \in {Approve(h), Reject(h)}
    \/ h.phase = "accepted" /\ h' = Resize(h)

HandshakeSpec == HandshakeInit /\ [][HandshakeNext]_h
=============================================================================
