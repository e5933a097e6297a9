------------------------------- MODULE Server -------------------------------
(***************************************************************************)
(* From a TCP connection to a session: the accept loop, the handshake      *)
(* permits, the negotiation under its timeout, the limiter of failed       *)
(* authentications and the session slots                                   *)
(* (crates/rdpcore-server/src/server/mod.rs and server/handshake.rs). The  *)
(* connection sequence is what module Handshake promises of it.            *)
(*                                                                         *)
(* A connection is a task of its own: each await of it (a frame, TLS,      *)
(* CredSSP) ends a step. The handshake timeout may strike at any of them,  *)
(* so it needs no clock; now is the limiter's clock. A client may connect  *)
(* again, from any address, once its connection is closed.                 *)
(***************************************************************************)
EXTENDS AuthLimiter, Sequences, Credentials

CONSTANTS
    Conn, Addr,                 \* the connections and the client addresses
    Setups,                     \* how a server may be built: a set of Configs
    MaxSessions,                \* with_max_sessions
    MaxTime                     \* bound: the clock

\* What a server is given, its number of handshake permits (the code has one,
\* MAX_CONCURRENT_HANDSHAKES), and where connections come from (bound).
Configs == [require_nla : BOOLEAN, nla_credentials : BOOLEAN,
            credential_validator : BOOLEAN, MAX_CONCURRENT_HANDSHAKES : Nat \ {0},
            origins : SUBSET (Conn \X Addr)]

Idle == "idle"

ASSUME ServerAssumption ==
    /\ Setups \subseteq Configs /\ MaxSessions \in Nat \ {0}
    /\ MaxTime \in Nat
    /\ IsFiniteSet(Conn) /\ Idle \notin Conn /\ Addr # {}

VARIABLES
    now,
    config,         \* one of Setups
    limiter,        \* the map of AuthLimiter
    loop,           \* the connection the accept loop holds, or Idle
    backlog,        \* connections the loop has not accepted
    handshake_permits, session_slots,   \* those that are free
    conn,
    failed          \* history: when each address failed, since its record was
                    \* last dropped by success or eviction

serverVars == <<now, config, limiter, loop, backlog, handshake_permits,
                session_slots, conn, failed>>

HS == INSTANCE Handshake WITH h <- conn     \* for its operators on phases

\* Where a connection holds a permit, and where its negotiation runs.
NegotiatingPhases == {"request", "tls", "nla", "mcs"}
PermitPhases == {"spawned"} \cup NegotiatingPhases
Phases == {"closed", "backlog", "permit", "steady"} \cup PermitPhases

\* user and proven: history, the account the session runs as and whether the
\* client has shown its password.
Closed == [phase |-> "closed", ip |-> CHOOSE a \in Addr : TRUE,
           acceptor |-> HS!new(FALSE), nla_user |-> NoName,
           authenticated |-> FALSE, user |-> NoName, proven |-> FALSE]

NeverFailed == <<>>

ServerInit ==
    /\ now = 0
    /\ config \in Setups
    /\ limiter = NoFailures
    /\ loop = Idle /\ backlog = <<>>
    /\ handshake_permits = config.MAX_CONCURRENT_HANDSHAKES
    /\ session_slots = MaxSessions
    /\ conn = [c \in Conn |-> Closed]
    /\ failed = [a \in Addr |-> NeverFailed]

Tick ==
    /\ now < MaxTime
    /\ now' = now + 1
    /\ UNCHANGED <<config, limiter, loop, backlog, handshake_permits,
                   session_slots, conn, failed>>

-----------------------------------------------------------------------------
(* The accept loop. It waits for a permit before it accepts again.         *)

Connect(c, ip) ==
    /\ conn[c].phase = "closed" /\ <<c, ip>> \in config.origins
    /\ conn' = [conn EXCEPT ![c].phase = "backlog", ![c].ip = ip]
    /\ backlog' = Append(backlog, c)
    /\ UNCHANGED <<now, config, limiter, loop, handshake_permits,
                   session_slots, failed>>

Accept ==
    /\ loop = Idle /\ backlog # <<>>
    /\ backlog' = Tail(backlog)
    /\ limiter' = gc(limiter, now)
    /\ LET c == Head(backlog)
       IN  IF is_blocked(limiter, conn[c].ip, now)
           THEN /\ conn' = [conn EXCEPT ![c] = Closed]
                /\ loop' = loop
           ELSE /\ conn' = [conn EXCEPT ![c].phase = "permit"]
                /\ loop' = c
    /\ UNCHANGED <<now, config, handshake_permits, session_slots, failed>>

AcquirePermit ==
    /\ loop # Idle /\ handshake_permits > 0
    /\ handshake_permits' = handshake_permits - 1
    /\ conn' = [conn EXCEPT ![loop].phase = "spawned"]
    /\ loop' = Idle
    /\ UNCHANGED <<now, config, limiter, backlog, session_slots, failed>>

-----------------------------------------------------------------------------
(* handle_connection and negotiate.                                        *)

\* The task of c returns during the handshake, and drops its permit.
HandshakeOver(c) ==
    /\ conn' = [conn EXCEPT ![c] = Closed]
    /\ handshake_permits' = handshake_permits + 1

\* The negotiation of c goes on as record r.
Continue(c, r) ==
    /\ conn' = [conn EXCEPT ![c] = r]
    /\ UNCHANGED handshake_permits

RecordFailure(ip) ==
    /\ limiter' \in record_failure(limiter, ip, now)
    /\ failed' = [a \in Addr |->
                    IF a = ip THEN Append(failed[a], now)
                    ELSE IF a \in DOMAIN gc(limiter, now) \ DOMAIN limiter'
                    THEN NeverFailed ELSE failed[a]]

RecordSuccess(ip) ==
    /\ limiter' = record_success(limiter, ip)
    /\ failed' = [failed EXCEPT ![ip] = NeverFailed]

handle_connection(c) ==
    /\ conn[c].phase = "spawned"
    /\ limiter' = gc(limiter, now)
    /\ IF is_blocked(limiter, conn[c].ip, now)
       THEN HandshakeOver(c)
       ELSE Continue(c, [conn[c] EXCEPT !.phase = "request",
                                        !.acceptor = HS!new(config.require_nla)])
    /\ UNCHANGED <<now, config, loop, backlog, session_slots, failed>>

\* The client's first frame, in clear, and the answer to it.
ConnectionRequest(c) ==
    /\ conn[c].phase = "request"
    /\ \E result \in HS!Outcomes(conn[c].acceptor) :
        IF result.event = "TlsUpgrade"
        THEN Continue(c, [conn[c] EXCEPT !.phase = "tls", !.acceptor = result.h])
        ELSE HandshakeOver(c)
    /\ UNCHANGED <<now, config, limiter, loop, backlog, session_slots, failed>>

\* Without NLA credentials, or without the TLS public key that CredSSP binds to,
\* a client that asked for NLA is let go: nla_credentials is the server having both.
TlsEstablished(c) ==
    /\ conn[c].phase = "tls"
    /\ IF ~conn[c].acceptor.hybrid
       THEN Continue(c, [conn[c] EXCEPT !.phase = "mcs"])
       ELSE IF config.nla_credentials THEN Continue(c, [conn[c] EXCEPT !.phase = "nla"])
       ELSE HandshakeOver(c)
    /\ UNCHANGED <<now, config, limiter, loop, backlog, session_slots, failed>>

\* CredSSP with what the client claims to be.
CredSsp(c) ==
    /\ conn[c].phase = "nla"
    /\ \E verified \in {CredSspUser(id) : id \in Identities} :
        IF verified # NoName
        THEN /\ Continue(c, [conn[c] EXCEPT !.phase = "mcs", !.proven = TRUE,
                                            !.nla_user = verified])
             /\ UNCHANGED <<limiter, failed>>
        ELSE /\ HandshakeOver(c)
             /\ RecordFailure(conn[c].ip)
    /\ UNCHANGED <<now, config, loop, backlog, session_slots>>

-----------------------------------------------------------------------------
(* The frames after TLS, one action for each event they can make step      *)
(* return.                                                                 *)

\* What a Client Info amounts to: whether it is authorized, as whom, and
\* whether it has the password.
Judged(nla_user) ==
    {[valid  |-> client_info_is_authorized(nla_user, config.credential_validator, id),
      user   |-> LET claimed == normalize_client_identity(id).user
                 IN  IF claimed = NoName THEN nla_user ELSE claimed,
      proven |-> id.password_ok] : id \in Identities}

\* Client Info: the decision, and Demand Active if it is accepted.
ClientInfo(c) ==
    /\ conn[c].phase = "mcs"
    /\ \E result \in HS!Outcomes(conn[c].acceptor) :
        /\ result.event = "ClientInfoReceived"
        /\ \E info \in Judged(conn[c].nla_user) :
            IF info.valid
            THEN /\ RecordSuccess(conn[c].ip)
                 /\ Continue(c, [conn[c] EXCEPT
                        !.authenticated = TRUE, !.acceptor = HS!Approve(result.h),
                        !.user = info.user, !.proven = @ \/ info.proven])
            ELSE /\ RecordFailure(conn[c].ip)
                 /\ HandshakeOver(c)
    /\ UNCHANGED <<now, config, loop, backlog, session_slots>>

\* Mutant: the permit is kept until the session ends.
Accepted_keeping(c, a) ==
    /\ IF session_slots > 0
       THEN /\ session_slots' = session_slots - 1
            /\ conn' = [conn EXCEPT ![c].phase = "steady", ![c].acceptor = a]
            /\ UNCHANGED handshake_permits
       ELSE /\ HandshakeOver(c)
            /\ UNCHANGED session_slots

\* The negotiation has succeeded: the permit goes back, and the connection
\* becomes a session if there is a slot.
Accepted(c, a) ==
    /\ handshake_permits' = handshake_permits + 1
    /\ IF session_slots > 0
       THEN /\ session_slots' = session_slots - 1
            /\ conn' = [conn EXCEPT ![c].phase = "steady", ![c].acceptor = a]
       ELSE /\ conn' = [conn EXCEPT ![c] = Closed]
            /\ UNCHANGED session_slots

\* Any other frame of the connection sequence.
HandshakeFrame(c) ==
    /\ conn[c].phase = "mcs"
    /\ \E result \in HS!Outcomes(conn[c].acceptor) :
        \/ /\ result.event = "None"
           /\ Continue(c, [conn[c] EXCEPT !.acceptor = result.h])
           /\ UNCHANGED session_slots
        \/ result.event = "Accepted" /\ Accepted(c, result.h)
        \/ /\ result.event \in {"Err", "Rejected"}
           /\ HandshakeOver(c)
           /\ UNCHANGED session_slots
    /\ UNCHANGED <<now, config, limiter, loop, backlog, failed>>

\* Mutant: a timed-out handshake forgets its permit.
Timeout_leak(c) ==
    /\ conn[c].phase \in NegotiatingPhases
    /\ conn' = [conn EXCEPT ![c] = Closed]
    /\ UNCHANGED handshake_permits
    /\ IF conn[c].authenticated THEN UNCHANGED <<limiter, failed>>
       ELSE RecordFailure(conn[c].ip)
    /\ UNCHANGED <<now, config, loop, backlog, session_slots>>

\* HANDSHAKE_TIMEOUT: a failure of the address, unless it has authenticated.
Timeout(c) ==
    /\ conn[c].phase \in NegotiatingPhases
    /\ HandshakeOver(c)
    /\ IF conn[c].authenticated THEN UNCHANGED <<limiter, failed>>
       ELSE RecordFailure(conn[c].ip)
    /\ UNCHANGED <<now, config, loop, backlog, session_slots>>

\* The socket fails, or TLS does: an error ends the negotiation. CredSSP counts
\* it as a failure.
Disconnect(c) ==
    /\ conn[c].phase \in PermitPhases
    /\ HandshakeOver(c)
    /\ IF conn[c].phase = "nla" THEN RecordFailure(conn[c].ip)
       ELSE UNCHANGED <<limiter, failed>>
    /\ UNCHANGED <<now, config, loop, backlog, session_slots>>

SessionEnds(c) ==
    /\ conn[c].phase = "steady"
    /\ conn' = [conn EXCEPT ![c] = Closed]
    /\ session_slots' = session_slots + 1
    /\ UNCHANGED <<now, config, limiter, loop, backlog, handshake_permits, failed>>

-----------------------------------------------------------------------------
ConnectionStep(c) ==
    \/ \E ip \in Addr : Connect(c, ip)
    \/ handle_connection(c)
    \/ ConnectionRequest(c)
    \/ TlsEstablished(c)
    \/ HandshakeFrame(c)
    \/ CredSsp(c)
    \/ ClientInfo(c)
    \/ Timeout(c)
    \/ Disconnect(c)
    \/ SessionEnds(c)

ServerNext == Tick \/ Accept \/ AcquirePermit \/ \E c \in Conn : ConnectionStep(c)

ServerSpec == ServerInit /\ [][ServerNext]_serverVars

\* The accept loop and a spawned task run when they can; a timer fires.
FairServerSpec ==
    /\ ServerSpec
    /\ WF_serverVars(Accept) /\ WF_serverVars(AcquirePermit)
    /\ \A c \in Conn : WF_serverVars(handle_connection(c)) /\ WF_serverVars(Timeout(c))

-----------------------------------------------------------------------------
ServerTypeOK ==
    /\ now \in 0 .. MaxTime
    /\ DOMAIN limiter \subseteq Addr
    /\ \A a \in DOMAIN limiter : limiter[a] \in FailureState(MaxTime)
    /\ loop \in Conn \cup {Idle}
    /\ \A i \in DOMAIN backlog : conn[backlog[i]].phase = "backlog"
    /\ handshake_permits \in 0 .. config.MAX_CONCURRENT_HANDSHAKES
    /\ session_slots \in 0 .. MaxSessions
    /\ \A c \in Conn :
        /\ conn[c].phase \in Phases /\ conn[c].ip \in Addr
        /\ conn[c].acceptor.phase \in HS!Phases
        /\ conn[c].user \in Users /\ conn[c].nla_user \in Users

InPhase(phases) == {c \in Conn : conn[c].phase \in phases}

\* On every way out of a handshake and of a session (refused, malformed frame,
\* disconnect, timeout, no slot) the permit and the slot go back: the free ones
\* and those in use always add up to what the server was built with.
ResourcesConserved ==
    /\ handshake_permits + Cardinality(InPhase(PermitPhases)) = config.MAX_CONCURRENT_HANDSHAKES
    /\ session_slots + Cardinality(InPhase({"steady"})) = MaxSessions

\* The server's state is well formed, and permits and slots are conserved.
ServerSafe == ServerTypeOK /\ ResourcesConserved

\* A session runs as the configured account, whose password the client has
\* shown, over CredSSP if the server requires NLA: whatever the batching of the
\* PDUs, the user name form and the way NLA and Client Info combine.
SteadyIsAuthorised ==
    \A c \in InPhase({"steady"}) :
        /\ conn[c].user = Account /\ conn[c].proven
        /\ config.require_nla => conn[c].nla_user = Account

\* Failures of address a in the times of T.
FailuresIn(a, T) == Cardinality({i \in DOMAIN failed[a] : failed[a][i] \in T})

\* In any WINDOW an address gets through at most this many failed attempts: the
\* limiter's window starts with the first failure, so the last failures of one
\* window and all of the next fall into one WINDOW of time, and then the
\* handshakes that were under way when the lockout began.
FailuresBounded ==
    \A a \in Addr :
        FailuresIn(a, now - WINDOW .. now)
            <= 2 * MAX_FAILURES - 2 + config.MAX_CONCURRENT_HANDSHAKES

\* An address is locked out only after MAX_FAILURES failures of its own within
\* one WINDOW, none of them before its last success.
LockoutEarned ==
    \A a \in DOMAIN limiter :
        Locked(limiter[a]) =>
            LET start == limiter[a].locked_until - LOCKOUT
            IN  FailuresIn(a, start - WINDOW .. start) >= MAX_FAILURES

LockedNow(a) == a \in DOMAIN limiter /\ Locked(limiter[a]) /\ now < limiter[a].locked_until

\* A lockout in force ends early only by a success from that address, or when a
\* new address fails while the map is full of lockouts: neither time nor the
\* failures of others shorten it otherwise.
LockoutKept ==
    [][\A a \in Addr :
        LockedNow(a) /\ a \notin DOMAIN limiter' /\ now' < limiter[a].locked_until =>
            \/ \E c \in Conn : /\ conn[c].ip = a
                               /\ conn'[c].authenticated /\ ~conn[c].authenticated
            \/ /\ DOMAIN limiter' \ DOMAIN limiter # {}
               /\ Cardinality(DOMAIN limiter) = MAX_TRACKED
               /\ \A b \in DOMAIN limiter : LockedNow(b)]_serverVars

\* The limiter's lockouts are neither more nor less than its rule: earned by the
\* address's own recent failures, and kept until their end (is_locked,
\* record_failure, record_success).
LockoutsExact == []LockoutEarned /\ LockoutKept

\* The accept loop, which waits for a permit with a connection in hand, always
\* gets back to accept: slow handshakes time out and sessions hold no permit.
AcceptLoopReturns == loop # Idle ~> loop = Idle
=============================================================================
