------------------------------ MODULE Connector ------------------------------
(***************************************************************************)
(* One acceptor and the two loops that drive it: negotiate                 *)
(* (crates/rdpcore-server/src/server/handshake.rs), which ends the         *)
(* connection on the first error, and the session loop                     *)
(* (crates/rdpcore-server/src/server/session_loop.rs), which feeds it the  *)
(* slow-path frames of a mid-session resize and drops those it refuses.    *)
(***************************************************************************)
EXTENDS Acceptor

CONSTANT MaxBatch   \* bound: PDUs in one frame

ASSUME ConnectorAssumption == MaxBatch \in Nat \ {0}

VARIABLES
    acceptor,
    caller      \* "negotiate", "decide" (on Client Info), "steady",
                \* "resizing" or "closed"

connectorVars == <<acceptor, caller>>

ConnectorInit ==
    /\ \E require_nla \in BOOLEAN : acceptor = new(require_nla)
    /\ caller = "negotiate"

\* The frames a client may send in the phase of the acceptor.
UpTo(pdus) == UNION {[1 .. n -> pdus] : n \in 1 .. MaxBatch}

Frames == {Bad} \cup
    CASE acceptor.state = "WaitConnectionRequest" -> ConnectionRequests
      [] acceptor.state = "WaitConnectInitial" -> ConnectInitials
      [] acceptor.state \in DomainStates -> Batches(UpTo(DomainPdus))
      [] acceptor.state = "WaitClientInfo" -> ClientInfos
      [] acceptor.state \in ReactivationStates -> Batches(UpTo(SharePdus))
      [] OTHER -> {}

-----------------------------------------------------------------------------
\* A frame during negotiate. It returns on an error and on Rejected.
Negotiate(f) ==
    /\ caller = "negotiate"
    /\ LET result == step(acceptor, f)
       IN  /\ acceptor' = result.acceptor
           /\ caller' = CASE result.err \/ result.event = "Rejected" -> "closed"
                          [] result.event = "ClientInfoReceived" -> "decide"
                          [] result.event = "Accepted" -> "steady"
                          [] OTHER -> "negotiate"

\* Client Info is judged before another frame is read.
Approve ==
    /\ caller = "decide"
    /\ LET result == approve_client_info(acceptor)
       IN  /\ acceptor' = result.acceptor
           /\ caller' = IF result.err THEN "closed" ELSE "negotiate"

Reject ==
    /\ caller = "decide"
    /\ acceptor' = reject_client_info(acceptor)
    /\ caller' = "closed"

\* The desktop changes size. While a resize is under way another is dropped.
BeginResize ==
    /\ caller = "steady"
    /\ LET result == begin_resize(acceptor)
       IN  /\ acceptor' = result.acceptor
           /\ caller' = IF result.err THEN caller ELSE "resizing"

\* A slow-path frame during a resize: a finished acceptor is not stepped, an
\* error leaves the resize as it is unless the acceptor is finished.
ResizeFrame(f) ==
    /\ caller = "resizing"
    /\ LET result == IF is_finished(acceptor) THEN Err(acceptor) ELSE step(acceptor, f)
       IN  /\ acceptor' = result.acceptor
           /\ caller' = IF is_finished(result.acceptor) THEN "steady" ELSE caller

\* The client disconnects, or the handshake times out.
Close ==
    /\ caller # "closed"
    /\ caller' = "closed"
    /\ UNCHANGED acceptor

ConnectorNext ==
    \/ \E f \in Frames : Negotiate(f) \/ ResizeFrame(f)
    \/ Approve
    \/ Reject
    \/ BeginResize
    \/ Close

ConnectorSpec == ConnectorInit /\ [][ConnectorNext]_connectorVars

-----------------------------------------------------------------------------
ConnectorTypeOK ==
    /\ acceptor \in Acceptors
    /\ caller \in {"negotiate", "decide", "steady", "resizing", "closed"}

\* The loops and the acceptor agree on where the connection is: a session's
\* acceptor is Accepted between resizes and waits for the client during one,
\* and no frame, however batched, malformed or misplaced, leaves it Rejected,
\* where no later resize could complete.
LoopAgrees ==
    /\ caller = "decide" <=> acceptor.state = "WaitAuthApproval" /\ caller # "closed"
    /\ caller = "steady" => acceptor.state = "Accepted"
    /\ caller = "resizing" => acceptor.state \in ReactivationStates
    /\ caller = "negotiate" => ~is_finished(acceptor)

\* Fragments of a Confirm Active are kept only while one is awaited, and never
\* more than the limit: none is left over for the next reactivation.
NoStaleFragments ==
    /\ acceptor.confirm_active_buf # <<>> => acceptor.state = "WaitConfirmActive"
    /\ Len(acceptor.confirm_active_buf) <= MAX_CONFIRM_ACTIVE_LEN

\* The phase a caller sees.
Phase ==
    CASE acceptor.state = "WaitConnectionRequest" -> "request"
      [] acceptor.state = "WaitAuthApproval" -> "approval"
      [] acceptor.state \in ReactivationStates -> "activating"
      [] acceptor.state = "Accepted" -> "accepted"
      [] acceptor.state = "Rejected" -> "rejected"
      [] OTHER -> "setup"

Promise == INSTANCE Handshake WITH
    h <- [phase |-> Phase, require_nla |-> acceptor.require_nla,
          hybrid |-> requires_credssp(acceptor)]

\* The acceptor implements module Handshake: in particular it is Accepted only
\* after Client Info has been approved, and every resize goes through a new
\* activation.
ImplementsHandshake == Promise!HandshakeSpec

\* The acceptor and the two loops that drive it, whatever frames arrive: they
\* agree on where the connection is, and no fragment outlives its Confirm
\* Active (step, step_reactivation, on_confirm_active).
ConnectorSafe == ConnectorTypeOK /\ LoopAgrees /\ NoStaleFragments
=============================================================================
