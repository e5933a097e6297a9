---------------------------- MODULE ServerProofs ----------------------------
(***************************************************************************)
(* The server's safety for any number of connections, addresses, permits   *)
(* and session slots, under any setup: who gets a session, and that        *)
(* permits and slots are never lost. Both are about the end of a handshake *)
(* whose steps decided it, so SInv says of every phase what has been       *)
(* established by then.                                                    *)
(***************************************************************************)
EXTENDS Server, FiniteSetTheorems, SequenceTheorems, TLAPS

AcceptorRec == [phase : HS!Phases, require_nla : BOOLEAN, hybrid : BOOLEAN]

ConnRec == [phase : Phases, ip : Addr, acceptor : AcceptorRec, nla_user : Users,
            authenticated : BOOLEAN, user : Users, proven : BOOLEAN]

\* The queue of the listener and the hand of the accept loop hold connections
\* that no task runs for.
Shape ==
    /\ config \in Configs
    /\ conn \in [Conn -> ConnRec]
    /\ backlog \in Seq(Conn)
    /\ \A i \in DOMAIN backlog : conn[backlog[i]].phase = "backlog"
    /\ \A i, j \in DOMAIN backlog : backlog[i] = backlog[j] => i = j
    /\ loop \in Conn \cup {Idle}
    /\ loop # Idle => conn[loop].phase = "permit"

Counts == handshake_permits \in Nat /\ session_slots \in Nat /\ ResourcesConserved

\* What is known of a connection in its phase: NLA is only skipped where it is
\* not required, and past the approval the account has shown its password.
Sound(r) ==
    /\ r.nla_user \in {NoName, Account}
    /\ r.nla_user = Account => r.proven
    /\ r.phase \in NegotiatingPhases => r.acceptor.require_nla = config.require_nla
    /\ r.phase = "request" => r.acceptor.phase = "request"
    /\ r.phase \in {"tls", "nla"} =>
          /\ r.acceptor.phase = "setup"
          /\ config.require_nla => r.acceptor.hybrid
    /\ r.phase \in {"mcs", "steady"} => (config.require_nla => r.nla_user = Account)
    /\ \/ r.phase = "mcs" /\ r.acceptor.phase = "activating"
       \/ r.phase = "steady"
       => r.user = Account /\ r.proven

Authority == \A c \in Conn : Sound(conn[c])

LimiterOK ==
    /\ now \in 0 .. MaxTime
    /\ DOMAIN limiter \subseteq Addr
    /\ \A a \in DOMAIN limiter : limiter[a] \in FailureState(MaxTime)

SInv == Shape /\ Counts /\ Authority /\ LimiterOK

-----------------------------------------------------------------------------
(* Operators *)

\* What the connection sequence can answer, by event.
LEMMA OutcomeCases ==
    ASSUME NEW s \in AcceptorRec, NEW o \in HS!Outcomes(s)
    PROVE  /\ o.h \in AcceptorRec /\ o.h.require_nla = s.require_nla
           /\ o.event = "TlsUpgrade" =>
                 /\ s.phase = "request" /\ o.h.phase = "setup"
                 /\ s.require_nla => o.h.hybrid
           /\ o.event = "ClientInfoReceived" => s.phase = "setup"
           /\ o.event = "None" => o.h = s
           /\ o.event = "Accepted" => s.phase = "activating"
<1>1. CASE s.phase = "request"
  <2>1. \/ o = HS!To(s, s.phase, "Err")
        \/ o = HS!To(s, "rejected", "Rejected")
        \/ \E b \in BOOLEAN : /\ s.require_nla => b
                              /\ o = HS!To([s EXCEPT !.hybrid = b], "setup", "TlsUpgrade")
    BY <1>1 DEF AcceptorRec, HS!Outcomes
  <2>2. CASE o = HS!To(s, s.phase, "Err") \/ o = HS!To(s, "rejected", "Rejected")
    BY <1>1, <2>2 DEF AcceptorRec, HS!To, HS!Phases
  <2>3. ASSUME NEW b \in BOOLEAN, s.require_nla => b,
               o = HS!To([s EXCEPT !.hybrid = b], "setup", "TlsUpgrade")
        PROVE  /\ o.h = [s EXCEPT !.hybrid = b, !.phase = "setup"]
               /\ o.event = "TlsUpgrade"
    BY <2>3 DEF AcceptorRec, HS!To
  <2>4. ASSUME NEW b \in BOOLEAN, s.require_nla => b,
               o.h = [s EXCEPT !.hybrid = b, !.phase = "setup"]
        PROVE  /\ o.h \in AcceptorRec /\ o.h.require_nla = s.require_nla
               /\ o.h.phase = "setup" /\ o.h.hybrid = b
    BY <2>4 DEF AcceptorRec, HS!Phases
  <2>5. QED
    BY <1>1, <2>1, <2>2, <2>3, <2>4
<1>2. CASE s.phase = "setup"
  BY <1>2 DEF AcceptorRec, HS!Outcomes, HS!To, HS!Phases
<1>3. CASE s.phase = "activating"
  BY <1>3 DEF AcceptorRec, HS!Outcomes, HS!To, HS!Phases
<1>4. CASE s.phase \notin {"request", "setup", "activating"}
  <2>1. o = HS!To(s, s.phase, "Err")
    BY <1>4 DEF HS!Outcomes
  <2>2. QED
    BY <1>4, <2>1 DEF AcceptorRec, HS!To
<1>5. QED
  BY <1>1, <1>2, <1>3, <1>4

\* CredSSP verifies the configured account or nobody.
LEMMA CredSspVerifies ==
    ASSUME NEW id \in Identities
    PROVE  CredSspUser(id) \in {NoName, Account}
BY DEF CredSspUser

\* A Client Info that is authorized is the account's, and shows the password
\* unless CredSSP has.
LEMMA JudgedSound ==
    ASSUME NEW nla_user \in {NoName, Account}, NEW info \in Judged(nla_user)
    PROVE  /\ info.user \in Users /\ info.proven \in BOOLEAN
           /\ info.valid => /\ info.user = Account
                            /\ nla_user = NoName => info.proven
<1>1. PICK id \in Identities :
        info = [valid  |-> client_info_is_authorized(nla_user, config.credential_validator, id),
                user   |-> LET claimed == normalize_client_identity(id).user
                           IN  IF claimed = NoName THEN nla_user ELSE claimed,
                proven |-> id.password_ok]
  BY DEF Judged
<1>2. id.username.user \in Users /\ id.password_ok \in BOOLEAN
  BY DEF Identities, UserFields
<1>3. normalize_client_identity(id).user = id.username.user
  BY DEF normalize_client_identity
<1>4. NoName # Account
  BY CredentialsAssumption
<1>5. QED
  BY <1>1, <1>2, <1>3, <1>4 DEF Users, client_info_is_authorized, validate

-----------------------------------------------------------------------------
(* Counting *)

One(p, P) == IF p \in P THEN 1 ELSE 0

\* When one connection changes, the number in a phase changes by its share.
LEMMA Moves ==
    ASSUME Shape, NEW c \in Conn, NEW r \in ConnRec,
           conn' = [conn EXCEPT ![c] = r], NEW CONSTANT P
    PROVE  /\ Cardinality(InPhase(P)) \in Nat
           /\ Cardinality(InPhase(P)') =
                 Cardinality(InPhase(P)) + One(r.phase, P) - One(conn[c].phase, P)
<1> DEFINE S == InPhase(P)
           T == InPhase(P)'
<1>1. IsFiniteSet(S)
  BY ServerAssumption, FS_Subset DEF InPhase
<1>2. Cardinality(S) \in Nat
  BY <1>1, FS_CardinalityType
<1>3. conn'[c] = r /\ \A d \in Conn \ {c} : conn'[d] = conn[d]
  BY DEF Shape
<1>4. c \in S <=> conn[c].phase \in P
  BY DEF InPhase
<1>5. c \in T <=> r.phase \in P
  BY <1>3 DEF InPhase
<1>6. T \ {c} = S \ {c}
  BY <1>3 DEF InPhase
<1> HIDE DEF S, T
<1>7. CASE r.phase \in P /\ conn[c].phase \in P
  <2>1. T = S
    BY <1>4, <1>5, <1>6, <1>7
  <2>2. QED
    BY <1>2, <1>7, <2>1 DEF One, S, T
<1>8. CASE r.phase \notin P /\ conn[c].phase \notin P
  <2>1. T = S
    BY <1>4, <1>5, <1>6, <1>8
  <2>2. QED
    BY <1>2, <1>8, <2>1 DEF One, S, T
<1>9. CASE r.phase \in P /\ conn[c].phase \notin P
  <2>1. T = S \cup {c} /\ c \notin S
    BY <1>4, <1>5, <1>6, <1>9
  <2>2. Cardinality(T) = Cardinality(S) + 1
    BY <1>1, <2>1, FS_AddElement
  <2>3. QED
    BY <1>2, <1>9, <2>2 DEF One, S, T
<1>10. CASE r.phase \notin P /\ conn[c].phase \in P
  <2>1. T = S \ {c} /\ c \in S
    BY <1>4, <1>5, <1>6, <1>10
  <2>2. Cardinality(T) = Cardinality(S) - 1
    BY <1>1, <2>1, FS_RemoveElement
  <2>3. QED
    BY <1>2, <1>10, <2>2 DEF One, S, T
<1>11. QED
  BY <1>7, <1>8, <1>9, <1>10

\* A step that changes no record changes no count.
LEMMA Stays ==
    ASSUME UNCHANGED conn, NEW CONSTANT P
    PROVE  InPhase(P)' = InPhase(P)
BY DEF InPhase

\* A step of a connection's task: what is to be shown of its new record r.
LEMMA TaskStep ==
    ASSUME Shape, Counts, Authority,
           NEW c \in Conn, NEW r \in ConnRec, Sound(r),
           conn' = [conn EXCEPT ![c] = r],
           UNCHANGED <<config, backlog, loop>>,
           conn[c].phase \in PermitPhases \cup {"steady"},
           r.phase \in PermitPhases => conn[c].phase \in PermitPhases,
           r.phase = "steady" => session_slots > 0 \/ conn[c].phase = "steady",
           handshake_permits' = handshake_permits + One(conn[c].phase, PermitPhases)
                                                  - One(r.phase, PermitPhases),
           session_slots' = session_slots + One(conn[c].phase, {"steady"})
                                          - One(r.phase, {"steady"})
    PROVE  Shape' /\ Counts' /\ Authority'
<1>1. conn[c].phase \notin {"backlog", "permit"}
  BY DEF PermitPhases, NegotiatingPhases
<1>2. conn' \in [Conn -> ConnRec] /\ conn'[c] = r
      /\ \A d \in Conn \ {c} : conn'[d] = conn[d]
  BY DEF Shape
<1>3. Shape'
  <2>1. \A i \in DOMAIN backlog : backlog[i] \in Conn /\ backlog[i] # c
    BY <1>1 DEF Shape
  <2>2. loop # c
    BY <1>1, ServerAssumption DEF Shape
  <2>3. QED
    BY <1>2, <2>1, <2>2 DEF Shape
<1>4. Authority'
  BY <1>2 DEF Authority, Sound
<1>5. Counts'
  <2>1. One(conn[c].phase, PermitPhases) \in {0, 1} /\ One(r.phase, PermitPhases) \in {0, 1}
        /\ One(conn[c].phase, {"steady"}) \in {0, 1} /\ One(r.phase, {"steady"}) \in {0, 1}
    BY DEF One
  <2>2. One(r.phase, PermitPhases) <= One(conn[c].phase, PermitPhases)
    BY DEF One
  <2>3. One(r.phase, {"steady"}) <= session_slots + One(conn[c].phase, {"steady"})
    BY <2>1 DEF One, Counts
  <2>4. /\ Cardinality(InPhase(PermitPhases)) \in Nat
        /\ Cardinality(InPhase(PermitPhases)') =
              Cardinality(InPhase(PermitPhases)) + One(r.phase, PermitPhases)
                 - One(conn[c].phase, PermitPhases)
    BY Moves
  <2>5. /\ Cardinality(InPhase({"steady"})) \in Nat
        /\ Cardinality(InPhase({"steady"})') =
              Cardinality(InPhase({"steady"})) + One(r.phase, {"steady"})
                 - One(conn[c].phase, {"steady"})
    BY Moves
  <2>6. handshake_permits' \in Nat /\ session_slots' \in Nat
    BY <2>1, <2>2, <2>3 DEF Counts
  <2>7. /\ handshake_permits' + Cardinality(InPhase(PermitPhases)') =
              handshake_permits + Cardinality(InPhase(PermitPhases))
        /\ session_slots' + Cardinality(InPhase({"steady"})') =
              session_slots + Cardinality(InPhase({"steady"}))
    BY <2>1, <2>4, <2>5 DEF Counts
  <2>8. ResourcesConserved'
    BY <2>7 DEF Counts, ResourcesConserved
  <2>9. QED
    BY <2>6, <2>8 DEF Counts
<1>6. QED
  BY <1>3, <1>4, <1>5

LEMMA ClosedSound == Closed \in ConnRec /\ Sound(Closed)
<1>1. (CHOOSE a \in Addr : TRUE) \in Addr
  BY ServerAssumption
<1>2. HS!new(FALSE) \in AcceptorRec
  BY DEF HS!new, AcceptorRec, HS!Phases
<1>3. Closed \in ConnRec
  BY <1>1, <1>2 DEF Closed, ConnRec, Phases, Users
<1>4. Sound(Closed)
  BY CredentialsAssumption DEF Closed, Sound, NegotiatingPhases
<1>5. QED
  BY <1>3, <1>4

\* The task returns during the handshake.
LEMMA OverStep ==
    ASSUME Shape, Counts, Authority, NEW c \in Conn,
           conn[c].phase \in PermitPhases, HandshakeOver(c),
           UNCHANGED <<config, backlog, loop, session_slots>>
    PROVE  Shape' /\ Counts' /\ Authority'
<1>1. conn' = [conn EXCEPT ![c] = Closed] /\ handshake_permits' = handshake_permits + 1
  BY DEF HandshakeOver
<1>2. /\ One(conn[c].phase, PermitPhases) = 1 /\ One(Closed.phase, PermitPhases) = 0
      /\ One(conn[c].phase, {"steady"}) = 0 /\ One(Closed.phase, {"steady"}) = 0
      /\ Closed.phase \notin PermitPhases \cup {"steady"}
  BY DEF One, PermitPhases, NegotiatingPhases, Closed
<1>3. handshake_permits \in Nat /\ session_slots \in Nat
  BY DEF Counts
<1>4. /\ handshake_permits' = handshake_permits + One(conn[c].phase, PermitPhases)
                                               - One(Closed.phase, PermitPhases)
      /\ session_slots' = session_slots + One(conn[c].phase, {"steady"})
                                       - One(Closed.phase, {"steady"})
  BY <1>1, <1>2, <1>3
<1>5. QED
  BY <1>1, <1>2, <1>4, ClosedSound, TaskStep

\* The negotiation goes on with record r.
LEMMA ContinueStep ==
    ASSUME Shape, Counts, Authority, NEW c \in Conn, NEW r \in ConnRec, Sound(r),
           conn[c].phase \in PermitPhases, r.phase \in PermitPhases, Continue(c, r),
           UNCHANGED <<config, backlog, loop, session_slots>>
    PROVE  Shape' /\ Counts' /\ Authority'
<1>1. conn' = [conn EXCEPT ![c] = r] /\ handshake_permits' = handshake_permits
  BY DEF Continue
<1>2. /\ One(conn[c].phase, PermitPhases) = 1 /\ One(r.phase, PermitPhases) = 1
      /\ One(conn[c].phase, {"steady"}) = 0 /\ One(r.phase, {"steady"}) = 0
      /\ r.phase # "steady"
  BY DEF One, PermitPhases, NegotiatingPhases
<1>3. handshake_permits \in Nat /\ session_slots \in Nat
  BY DEF Counts
<1>4. /\ handshake_permits' = handshake_permits + One(conn[c].phase, PermitPhases)
                                               - One(r.phase, PermitPhases)
      /\ session_slots' = session_slots + One(conn[c].phase, {"steady"})
                                       - One(r.phase, {"steady"})
  BY <1>1, <1>2, <1>3
<1>5. QED
  BY <1>1, <1>2, <1>4, TaskStep

-----------------------------------------------------------------------------
(* The limiter's map *)

MapOK(m) == DOMAIN m \subseteq Addr /\ \A a \in DOMAIN m : m[a] \in FailureState(MaxTime)

LEMMA GcKeepsType ==
    ASSUME LimiterOK
    PROVE  MapOK(gc(limiter, now))
BY DEF LimiterOK, MapOK, gc, Restrict

LEMMA CountedType ==
    ASSUME now \in 0 .. MaxTime, NEW state \in FailureState(MaxTime)
    PROVE  Counted(state, now) \in FailureState(MaxTime)
<1>1. CASE Locked(state) /\ now < state.locked_until
  BY <1>1 DEF Counted
<1>2. CASE ~(Locked(state) /\ now < state.locked_until)
  <2> DEFINE fresh == IF now - state.first > WINDOW
                      THEN [count |-> 0, first |-> now, locked_until |-> Unlocked]
                      ELSE state
             count == fresh.count + 1
             until == IF count >= MAX_FAILURES THEN now + LOCKOUT ELSE fresh.locked_until
  <2>1. Counted(state, now) = [fresh EXCEPT !.count = count, !.locked_until = until]
    BY <1>2 DEF Counted
  <2>2. fresh \in FailureState(MaxTime)
    BY LimiterAssumption, ServerAssumption DEF FailureState, Unlocked
  <2>3. count \in Nat /\ until \in 0 .. MaxTime + LOCKOUT
    <3> HIDE DEF fresh
    <3>1. LOCKOUT \in Nat /\ MAX_FAILURES \in Nat /\ MaxTime \in Nat
      BY LimiterAssumption, ServerAssumption
    <3>2. fresh.count \in Nat /\ fresh.locked_until \in 0 .. MaxTime + LOCKOUT
      BY <2>2 DEF FailureState
    <3>3. QED
      BY <3>1, <3>2
  <2>4. QED
    <3> HIDE DEF fresh, count, until
    <3>1. QED
      BY <2>1, <2>2, <2>3 DEF FailureState
<1>3. QED
  BY <1>1, <1>2

LEMMA FailureKeepsType ==
    ASSUME LimiterOK, NEW ip \in Addr, NEW m \in record_failure(limiter, ip, now)
    PROVE  MapOK(m)
<1>1. PICK k \in evict_if_full(gc(limiter, now), ip) :
        m = LET old == IF ip \in DOMAIN k THEN k[ip]
                       ELSE [count |-> 0, first |-> now, locked_until |-> Unlocked]
            IN  [a \in DOMAIN k \cup {ip} |-> IF a = ip THEN Counted(old, now) ELSE k[a]]
  BY DEF record_failure
<1>2. MapOK(k)
  <2>1. k = gc(limiter, now) \/
        \E S \in SUBSET DOMAIN gc(limiter, now) : k = Restrict(gc(limiter, now), S)
    BY <1>1 DEF evict_if_full
  <2>2. QED
    BY <2>1, GcKeepsType DEF MapOK, Restrict
<1> DEFINE old == IF ip \in DOMAIN k THEN k[ip]
                  ELSE [count |-> 0, first |-> now, locked_until |-> Unlocked]
<1>3. old \in FailureState(MaxTime)
  BY <1>2, LimiterAssumption, ServerAssumption DEF MapOK, FailureState, Unlocked, LimiterOK
<1>4. Counted(old, now) \in FailureState(MaxTime)
  BY <1>3, CountedType DEF LimiterOK
<1> HIDE DEF old
<1>5. m = [a \in DOMAIN k \cup {ip} |-> IF a = ip THEN Counted(old, now) ELSE k[a]]
  BY <1>1 DEF old
<1>6. QED
  BY <1>2, <1>4, <1>5 DEF MapOK

LEMMA RecordFailureKeeps ==
    ASSUME LimiterOK, NEW ip \in Addr, RecordFailure(ip), UNCHANGED now
    PROVE  LimiterOK'
BY FailureKeepsType DEF RecordFailure, LimiterOK, MapOK

LEMMA GcKeeps ==
    ASSUME LimiterOK, limiter' = gc(limiter, now), UNCHANGED now
    PROVE  LimiterOK'
BY GcKeepsType DEF LimiterOK, MapOK

LEMMA SuccessKeeps ==
    ASSUME LimiterOK, NEW ip \in Addr, RecordSuccess(ip), UNCHANGED now
    PROVE  LimiterOK'
BY DEF RecordSuccess, record_success, Restrict, LimiterOK

LEMMA LimiterStays ==
    ASSUME LimiterOK, UNCHANGED <<limiter, now>>
    PROVE  LimiterOK'
BY DEF LimiterOK

-----------------------------------------------------------------------------
(* The accept loop *)

\* A connection that no task runs for changes; nothing is counted.
LEMMA QuietStep ==
    ASSUME Shape, Counts, Authority, NEW c \in Conn, NEW r \in ConnRec,
           conn' = [conn EXCEPT ![c] = r],
           conn[c].phase \notin PermitPhases \cup {"steady"},
           r.phase \notin PermitPhases \cup {"steady"},
           r.nla_user = NoName \/ (r.nla_user = conn[c].nla_user /\ r.proven = conn[c].proven),
           UNCHANGED <<config, handshake_permits, session_slots>>
    PROVE  Counts' /\ Authority'
<1>1. One(r.phase, PermitPhases) = 0 /\ One(conn[c].phase, PermitPhases) = 0
      /\ One(r.phase, {"steady"}) = 0 /\ One(conn[c].phase, {"steady"}) = 0
  BY DEF One
<1>2. /\ Cardinality(InPhase(PermitPhases)') = Cardinality(InPhase(PermitPhases))
      /\ Cardinality(InPhase({"steady"})') = Cardinality(InPhase({"steady"}))
  <2>1. /\ Cardinality(InPhase(PermitPhases)) \in Nat
        /\ Cardinality(InPhase(PermitPhases)') =
              Cardinality(InPhase(PermitPhases)) + One(r.phase, PermitPhases)
                 - One(conn[c].phase, PermitPhases)
    BY Moves
  <2>2. /\ Cardinality(InPhase({"steady"})) \in Nat
        /\ Cardinality(InPhase({"steady"})') =
              Cardinality(InPhase({"steady"})) + One(r.phase, {"steady"})
                 - One(conn[c].phase, {"steady"})
    BY Moves
  <2>3. QED
    BY <1>1, <2>1, <2>2
<1>3. Counts'
  BY <1>2 DEF Counts, ResourcesConserved
<1>4. conn'[c] = r /\ \A d \in Conn \ {c} : conn'[d] = conn[d]
  BY DEF Shape
<1>5. Sound(r)
  BY CredentialsAssumption DEF Authority, Sound, PermitPhases, NegotiatingPhases
<1>6. Authority'
  BY <1>4, <1>5 DEF Authority, Sound
<1>7. QED
  BY <1>3, <1>6

LEMMA ConnectKeeps ==
    ASSUME SInv, NEW c \in Conn, NEW ip \in Addr, Connect(c, ip)
    PROVE  SInv'
<1> DEFINE r == [conn[c] EXCEPT !.phase = "backlog", !.ip = ip]
<1>1. conn[c] \in ConnRec /\ conn[c].phase = "closed"
  BY DEF SInv, Shape, Connect
<1>2. r \in ConnRec /\ r.phase = "backlog" /\ r.nla_user = conn[c].nla_user
      /\ r.proven = conn[c].proven
  BY <1>1 DEF ConnRec, Phases
<1>3. conn' = [conn EXCEPT ![c] = r]
  BY <1>1 DEF Connect, SInv, Shape, ConnRec
<1> HIDE DEF r
<1>4. Shape'
  <2>1. conn' \in [Conn -> ConnRec] /\ conn'[c] = r
        /\ \A d \in Conn \ {c} : conn'[d] = conn[d]
    BY <1>2, <1>3 DEF SInv, Shape
  <2>2. backlog \in Seq(Conn) /\ backlog' = Append(backlog, c)
    BY DEF SInv, Shape, Connect
  <2>3. \A i \in DOMAIN backlog : backlog[i] # c /\ backlog[i] \in Conn
    BY <1>1 DEF SInv, Shape
  <2>4. /\ backlog' \in Seq(Conn) /\ Len(backlog') = Len(backlog) + 1
        /\ Len(backlog) \in Nat
        /\ DOMAIN backlog = 1 .. Len(backlog) /\ DOMAIN backlog' = 1 .. Len(backlog) + 1
        /\ \A i \in DOMAIN backlog : backlog'[i] = backlog[i]
        /\ backlog'[Len(backlog) + 1] = c
    BY <2>2
  <2>5. \A i \in DOMAIN backlog' : conn'[backlog'[i]].phase = "backlog"
    BY <1>2, <2>1, <2>3, <2>4 DEF SInv, Shape
  <2>6. \A i, j \in DOMAIN backlog' : backlog'[i] = backlog'[j] => i = j
    BY <2>3, <2>4 DEF SInv, Shape
  <2>7. loop # Idle => loop # c
    BY <1>1 DEF SInv, Shape
  <2>8. QED
    BY <2>1, <2>4, <2>5, <2>6, <2>7 DEF SInv, Shape, Connect
<1>5. Counts' /\ Authority'
  <2>1. conn[c].phase \notin PermitPhases \cup {"steady"}
        /\ r.phase \notin PermitPhases \cup {"steady"}
    BY <1>1, <1>2 DEF PermitPhases, NegotiatingPhases
  <2>2. QED
    BY <1>2, <1>3, <2>1, QuietStep DEF SInv, Connect
<1>6. LimiterOK'
  BY LimiterStays DEF SInv, Connect
<1>7. QED
  BY <1>4, <1>5, <1>6 DEF SInv

LEMMA AcceptKeeps ==
    ASSUME SInv, Accept
    PROVE  SInv'
<1> DEFINE c == Head(backlog)
           r == IF is_blocked(limiter, conn[c].ip, now) THEN Closed
                ELSE [conn[c] EXCEPT !.phase = "permit"]
<1>1. backlog \in Seq(Conn) /\ backlog # <<>>
  BY DEF SInv, Shape, Accept
<1>2. /\ Len(backlog) \in Nat \ {0} /\ DOMAIN backlog = 1 .. Len(backlog)
      /\ c = backlog[1] /\ c \in Conn
      /\ Tail(backlog) \in Seq(Conn) /\ DOMAIN Tail(backlog) = 1 .. Len(backlog) - 1
      /\ \A i \in 1 .. Len(backlog) - 1 : Tail(backlog)[i] = backlog[i + 1]
  BY <1>1
<1>3. conn[c] \in ConnRec /\ conn[c].phase = "backlog"
  BY <1>2 DEF SInv, Shape
<1>4. /\ r \in ConnRec /\ r.phase \in {"closed", "permit"}
      /\ r.nla_user = NoName \/ (r.nla_user = conn[c].nla_user /\ r.proven = conn[c].proven)
  <2>1. Closed.phase = "closed" /\ Closed.nla_user = NoName
    BY DEF Closed
  <2>2. CASE is_blocked(limiter, conn[c].ip, now)
    <3>1. r = Closed
      BY <2>2
    <3> HIDE DEF r
    <3>2. QED
      BY <2>1, <3>1, ClosedSound
  <2>3. CASE ~is_blocked(limiter, conn[c].ip, now)
    <3> DEFINE p == [conn[c] EXCEPT !.phase = "permit"]
    <3>1. p \in ConnRec /\ p.phase = "permit" /\ p.nla_user = conn[c].nla_user
          /\ p.proven = conn[c].proven
      BY <1>3 DEF ConnRec, Phases
    <3>2. r = p
      BY <2>3
    <3>3. QED
      BY <3>1, <3>2
  <2>4. QED
    BY <2>2, <2>3
<1>5. conn' = [conn EXCEPT ![c] = r]
  BY <1>3 DEF Accept, SInv, Shape, ConnRec
<1>6. loop' = IF r.phase = "permit" THEN c ELSE loop
  BY <1>3, Zenon DEF Accept, Closed, ConnRec
<1>7. /\ UNCHANGED <<config, handshake_permits, session_slots, now>>
      /\ limiter' = gc(limiter, now) /\ backlog' = Tail(backlog) /\ loop = Idle
  BY DEF Accept
<1> HIDE DEF r, c
<1>8. Shape'
  <2>1. conn' \in [Conn -> ConnRec] /\ conn'[c] = r
        /\ \A d \in Conn \ {c} : conn'[d] = conn[d]
    BY <1>2, <1>4, <1>5 DEF SInv, Shape
  <2>2. \A i \in 1 .. Len(backlog) - 1 : backlog[i + 1] # c /\ backlog[i + 1] \in Conn
                                          /\ conn[backlog[i + 1]].phase = "backlog"
    BY <1>2 DEF SInv, Shape
  <2>3. \A i \in DOMAIN backlog' : conn'[backlog'[i]].phase = "backlog"
    BY <1>2, <1>7, <2>1, <2>2
  <2>4. \A i, j \in DOMAIN backlog' : backlog'[i] = backlog'[j] => i = j
    BY <1>2, <1>7 DEF SInv, Shape
  <2>5. loop' \in Conn \cup {Idle} /\ (loop' # Idle => conn'[loop'].phase = "permit")
    BY <1>2, <1>6, <1>7, <2>1
  <2>6. QED
    BY <1>2, <1>7, <2>1, <2>3, <2>4, <2>5 DEF SInv, Shape
<1>9. Counts' /\ Authority'
  <2>1. conn[c].phase \notin PermitPhases \cup {"steady"}
        /\ r.phase \notin PermitPhases \cup {"steady"}
    BY <1>3, <1>4 DEF PermitPhases, NegotiatingPhases
  <2>2. QED
    BY <1>2, <1>4, <1>5, <1>7, <2>1, QuietStep DEF SInv
<1>10. LimiterOK'
  BY <1>7, GcKeeps DEF SInv
<1>11. QED
  BY <1>8, <1>9, <1>10 DEF SInv

LEMMA AcquirePermitKeeps ==
    ASSUME SInv, AcquirePermit
    PROVE  SInv'
<1> DEFINE r == [conn[loop] EXCEPT !.phase = "spawned"]
<1>1. loop \in Conn /\ conn[loop] \in ConnRec /\ conn[loop].phase = "permit"
      /\ handshake_permits > 0 /\ loop' = Idle
      /\ handshake_permits' = handshake_permits - 1
      /\ UNCHANGED <<now, config, limiter, backlog, session_slots>>
  BY DEF SInv, Shape, AcquirePermit
<1>2. r \in ConnRec /\ r.phase = "spawned" /\ r.nla_user = conn[loop].nla_user
      /\ r.proven = conn[loop].proven
  BY <1>1 DEF ConnRec, Phases, PermitPhases
<1>3. conn' = [conn EXCEPT ![loop] = r]
  BY <1>1 DEF AcquirePermit, SInv, Shape, ConnRec
<1> HIDE DEF r
<1>4. conn' \in [Conn -> ConnRec] /\ conn'[loop] = r
      /\ \A d \in Conn \ {loop} : conn'[d] = conn[d]
  BY <1>1, <1>2, <1>3 DEF SInv, Shape
<1>5. Shape'
  <2>1. \A i \in DOMAIN backlog : backlog[i] \in Conn \ {loop}
    BY <1>1 DEF SInv, Shape
  <2>2. QED
    BY <1>1, <1>4, <2>1 DEF SInv, Shape
<1>6. Authority'
  <2>1. Sound(r)
    BY <1>1, <1>2 DEF SInv, Authority, Sound, NegotiatingPhases
  <2>2. QED
    BY <1>1, <1>4, <2>1 DEF SInv, Authority, Sound
<1>7. Counts'
  <2>1. One(r.phase, PermitPhases) = 1 /\ One(conn[loop].phase, PermitPhases) = 0
        /\ One(r.phase, {"steady"}) = 0 /\ One(conn[loop].phase, {"steady"}) = 0
    BY <1>1, <1>2 DEF One, PermitPhases, NegotiatingPhases
  <2>2. /\ Cardinality(InPhase(PermitPhases)) \in Nat
        /\ Cardinality(InPhase({"steady"})) \in Nat
        /\ Cardinality(InPhase(PermitPhases)') = Cardinality(InPhase(PermitPhases)) + 1
        /\ Cardinality(InPhase({"steady"})') = Cardinality(InPhase({"steady"}))
    <3>1. /\ Cardinality(InPhase(PermitPhases)) \in Nat
          /\ Cardinality(InPhase(PermitPhases)') =
                Cardinality(InPhase(PermitPhases)) + One(r.phase, PermitPhases)
                   - One(conn[loop].phase, PermitPhases)
      BY <1>1, <1>2, <1>3, Moves DEF SInv
    <3>2. /\ Cardinality(InPhase({"steady"})) \in Nat
          /\ Cardinality(InPhase({"steady"})') =
                Cardinality(InPhase({"steady"})) + One(r.phase, {"steady"})
                   - One(conn[loop].phase, {"steady"})
      BY <1>1, <1>2, <1>3, Moves DEF SInv
    <3>3. QED
      BY <2>1, <3>1, <3>2
  <2>3. handshake_permits' \in Nat /\ session_slots' \in Nat
    BY <1>1 DEF SInv, Counts
  <2>4. handshake_permits' + Cardinality(InPhase(PermitPhases)')
           = handshake_permits + Cardinality(InPhase(PermitPhases))
    BY <1>1, <2>2 DEF SInv, Counts
  <2>5. QED
    BY <1>1, <2>2, <2>3, <2>4 DEF SInv, Counts, ResourcesConserved
<1>8. LimiterOK'
  BY <1>1, LimiterStays DEF SInv
<1>9. QED
  BY <1>5, <1>6, <1>7, <1>8 DEF SInv

-----------------------------------------------------------------------------
(* The task of a connection *)

\* A record with one field replaced, and what is known of it.
LEMMA ConnKnown ==
    ASSUME SInv, NEW c \in Conn
    PROVE  conn[c] \in ConnRec /\ Sound(conn[c]) /\ config \in Configs
BY DEF SInv, Shape, Authority

LEMMA HandleConnectionKeeps ==
    ASSUME SInv, NEW c \in Conn, handle_connection(c)
    PROVE  SInv'
<1> DEFINE r == [conn[c] EXCEPT !.phase = "request", !.acceptor = HS!new(config.require_nla)]
<1>1. conn[c].phase = "spawned" /\ conn[c].phase \in PermitPhases
      /\ UNCHANGED <<now, config, loop, backlog, session_slots>>
      /\ limiter' = gc(limiter, now) /\ (HandshakeOver(c) \/ Continue(c, r))
  BY DEF handle_connection, PermitPhases
<1>2. LimiterOK'
  BY <1>1, GcKeeps DEF SInv
<1>3. CASE HandshakeOver(c)
  BY <1>1, <1>2, <1>3, OverStep DEF SInv
<1>4. CASE Continue(c, r)
  <2>1. HS!new(config.require_nla) \in AcceptorRec
        /\ HS!new(config.require_nla).require_nla = config.require_nla
        /\ HS!new(config.require_nla).phase = "request"
    BY ConnKnown DEF HS!new, AcceptorRec, HS!Phases, Configs
  <2>2. r \in ConnRec /\ r.phase = "request" /\ r.nla_user = conn[c].nla_user
        /\ r.proven = conn[c].proven /\ r.acceptor = HS!new(config.require_nla)
    BY <2>1, ConnKnown DEF ConnRec, Phases, PermitPhases, NegotiatingPhases
  <2> HIDE DEF r
  <2>3. Sound(r)
    BY <2>1, <2>2, ConnKnown DEF Sound
  <2>4. r.phase \in PermitPhases
    BY <2>2 DEF PermitPhases, NegotiatingPhases
  <2>5. QED
    BY <1>1, <1>2, <1>4, <2>2, <2>3, <2>4, ContinueStep DEF SInv
<1>5. QED
  BY <1>1, <1>3, <1>4

LEMMA ConnectionRequestKeeps ==
    ASSUME SInv, NEW c \in Conn, ConnectionRequest(c)
    PROVE  SInv'
<1>1. conn[c].phase = "request" /\ conn[c].phase \in PermitPhases
      /\ UNCHANGED <<now, config, limiter, loop, backlog, session_slots>>
  BY DEF ConnectionRequest, PermitPhases, NegotiatingPhases
<1>2. LimiterOK'
  BY <1>1, LimiterStays DEF SInv
<1>3. CASE HandshakeOver(c)
  BY <1>1, <1>2, <1>3, OverStep DEF SInv
<1>4. CASE \E o \in HS!Outcomes(conn[c].acceptor) :
             /\ o.event = "TlsUpgrade"
             /\ Continue(c, [conn[c] EXCEPT !.phase = "tls", !.acceptor = o.h])
  <2>1. PICK o \in HS!Outcomes(conn[c].acceptor) :
             /\ o.event = "TlsUpgrade"
             /\ Continue(c, [conn[c] EXCEPT !.phase = "tls", !.acceptor = o.h])
    BY <1>4
  <2> DEFINE r == [conn[c] EXCEPT !.phase = "tls", !.acceptor = o.h]
  <2>2. conn[c].acceptor \in AcceptorRec
    BY ConnKnown DEF ConnRec
  <2>3. o.h \in AcceptorRec /\ o.h.require_nla = conn[c].acceptor.require_nla
        /\ o.h.phase = "setup" /\ (conn[c].acceptor.require_nla => o.h.hybrid)
    BY <2>1, <2>2, OutcomeCases
  <2>4. r \in ConnRec /\ r.phase = "tls" /\ r.nla_user = conn[c].nla_user
        /\ r.proven = conn[c].proven /\ r.acceptor = o.h
    BY <2>3, ConnKnown DEF ConnRec, Phases, PermitPhases, NegotiatingPhases
  <2>5. Continue(c, r)
    BY <2>1
  <2> HIDE DEF r
  <2>6. Sound(r)
    BY <1>1, <2>3, <2>4, ConnKnown DEF Sound, NegotiatingPhases
  <2>7. r.phase \in PermitPhases
    BY <2>4 DEF PermitPhases, NegotiatingPhases
  <2>8. QED
    BY <1>1, <1>2, <2>4, <2>5, <2>6, <2>7, ContinueStep DEF SInv
<1>5. QED
  BY <1>3, <1>4 DEF ConnectionRequest

LEMMA TlsEstablishedKeeps ==
    ASSUME SInv, NEW c \in Conn, TlsEstablished(c)
    PROVE  SInv'
<1>1. conn[c].phase = "tls" /\ conn[c].phase \in PermitPhases
      /\ UNCHANGED <<now, config, limiter, loop, backlog, session_slots>>
  BY DEF TlsEstablished, PermitPhases, NegotiatingPhases
<1>2. LimiterOK'
  BY <1>1, LimiterStays DEF SInv
<1>3. CASE HandshakeOver(c)
  BY <1>1, <1>2, <1>3, OverStep DEF SInv
<1>4. ASSUME NEW phase \in {"mcs", "nla"},
             phase = "mcs" => ~conn[c].acceptor.hybrid,
             Continue(c, [conn[c] EXCEPT !.phase = phase])
      PROVE  SInv'
  <2> DEFINE r == [conn[c] EXCEPT !.phase = phase]
  <2>1. r \in ConnRec /\ r.phase = phase /\ r.nla_user = conn[c].nla_user
        /\ r.proven = conn[c].proven /\ r.acceptor = conn[c].acceptor
    BY ConnKnown DEF ConnRec, Phases, PermitPhases, NegotiatingPhases
  <2>2. Continue(c, r)
    BY <1>4
  <2> HIDE DEF r
  <2>3. Sound(r)
    BY <1>1, <1>4, <2>1, ConnKnown DEF Sound, NegotiatingPhases
  <2>4. r.phase \in PermitPhases
    BY <2>1 DEF PermitPhases, NegotiatingPhases
  <2>5. QED
    BY <1>1, <1>2, <2>1, <2>2, <2>3, <2>4, ContinueStep DEF SInv
<1>5. QED
  BY <1>3, <1>4 DEF TlsEstablished

LEMMA CredSspKeeps ==
    ASSUME SInv, NEW c \in Conn, CredSsp(c)
    PROVE  SInv'
<1>1. conn[c].phase = "nla" /\ conn[c].phase \in PermitPhases
      /\ UNCHANGED <<now, config, loop, backlog, session_slots>>
  BY DEF CredSsp, PermitPhases, NegotiatingPhases
<1>2. conn[c].ip \in Addr
  BY ConnKnown DEF ConnRec
<1>3. CASE HandshakeOver(c) /\ RecordFailure(conn[c].ip)
  BY <1>1, <1>2, <1>3, OverStep, RecordFailureKeeps DEF SInv
<1>4. CASE UNCHANGED limiter /\ Continue(c, [conn[c] EXCEPT !.phase = "mcs",
                                                     !.proven = TRUE, !.nla_user = Account])
  <2> DEFINE r == [conn[c] EXCEPT !.phase = "mcs", !.proven = TRUE, !.nla_user = Account]
  <2>1. r \in ConnRec /\ r.phase = "mcs" /\ r.nla_user = Account
        /\ r.proven = TRUE /\ r.acceptor = conn[c].acceptor
    BY ConnKnown DEF ConnRec, Phases, PermitPhases, NegotiatingPhases, Users
  <2>2. Continue(c, r)
    BY <1>4
  <2> HIDE DEF r
  <2>3. Sound(r)
    BY <1>1, <2>1, ConnKnown DEF Sound, NegotiatingPhases
  <2>4. r.phase \in PermitPhases
    BY <2>1 DEF PermitPhases, NegotiatingPhases
  <2>5. LimiterOK'
    BY <1>1, <1>4, LimiterStays DEF SInv
  <2>6. QED
    BY <1>1, <2>1, <2>2, <2>3, <2>4, <2>5, ContinueStep DEF SInv
<1>5. PICK id \in Identities :
        IF CredSspUser(id) # NoName
        THEN /\ Continue(c, [conn[c] EXCEPT !.phase = "mcs", !.proven = TRUE,
                                            !.nla_user = CredSspUser(id)])
             /\ UNCHANGED <<limiter, failed>>
        ELSE HandshakeOver(c) /\ RecordFailure(conn[c].ip)
  BY DEF CredSsp
<1>6. QED
  BY <1>3, <1>4, <1>5, CredSspVerifies

LEMMA ClientInfoKeeps ==
    ASSUME SInv, NEW c \in Conn, ClientInfo(c)
    PROVE  SInv'
<1>1. conn[c].phase = "mcs" /\ conn[c].phase \in PermitPhases
      /\ UNCHANGED <<now, config, loop, backlog, session_slots>>
  BY DEF ClientInfo, PermitPhases, NegotiatingPhases
<1>2. conn[c].ip \in Addr /\ conn[c].acceptor \in AcceptorRec
  BY ConnKnown DEF ConnRec
<1>3. PICK o \in HS!Outcomes(conn[c].acceptor) :
        /\ o.event = "ClientInfoReceived"
        /\ \E info \in Judged(conn[c].nla_user) :
            IF info.valid
            THEN /\ RecordSuccess(conn[c].ip)
                 /\ Continue(c, [conn[c] EXCEPT
                        !.authenticated = TRUE, !.acceptor = HS!Approve(o.h),
                        !.user = info.user, !.proven = @ \/ info.proven])
            ELSE RecordFailure(conn[c].ip) /\ HandshakeOver(c)
  BY DEF ClientInfo
<1>4. PICK info \in Judged(conn[c].nla_user) :
        IF info.valid
        THEN /\ RecordSuccess(conn[c].ip)
             /\ Continue(c, [conn[c] EXCEPT
                    !.authenticated = TRUE, !.acceptor = HS!Approve(o.h),
                    !.user = info.user, !.proven = @ \/ info.proven])
        ELSE RecordFailure(conn[c].ip) /\ HandshakeOver(c)
  BY <1>3
<1>5. CASE ~info.valid
  BY <1>1, <1>2, <1>4, <1>5, OverStep, RecordFailureKeeps DEF SInv
<1>6. CASE info.valid
  <2> DEFINE r == [conn[c] EXCEPT !.authenticated = TRUE, !.acceptor = HS!Approve(o.h),
                                  !.user = info.user, !.proven = @ \/ info.proven]
  <2>1. conn[c].nla_user \in {NoName, Account}
    BY ConnKnown DEF Sound
  <2>2. /\ info.user = Account /\ info.proven \in BOOLEAN
        /\ conn[c].nla_user = NoName => info.proven
    BY <1>6, <2>1, JudgedSound
  <2>3. o.h \in AcceptorRec /\ o.h.require_nla = conn[c].acceptor.require_nla
    BY <1>2, OutcomeCases
  <2>4. /\ HS!Approve(o.h) \in AcceptorRec
        /\ HS!Approve(o.h).require_nla = conn[c].acceptor.require_nla
    BY <2>3 DEF HS!Approve, AcceptorRec, HS!Phases
  <2>5. conn[c].proven \in BOOLEAN /\ (conn[c].proven \/ info.proven) \in BOOLEAN
    BY <2>2, ConnKnown DEF ConnRec
  <2>6. /\ r \in ConnRec /\ r.phase = "mcs" /\ r.nla_user = conn[c].nla_user
        /\ r.proven = (conn[c].proven \/ info.proven)
        /\ r.acceptor = HS!Approve(o.h) /\ r.user = Account
    BY <1>1, <2>2, <2>4, <2>5, ConnKnown DEF ConnRec, Users
  <2>7. Continue(c, r) /\ RecordSuccess(conn[c].ip)
    BY <1>4, <1>6
  <2> HIDE DEF r
  <2>8. Sound(r)
    <3>1. r.proven
      BY <2>1, <2>2, <2>6, ConnKnown DEF Sound
    <3>2. QED
      BY <1>1, <2>1, <2>4, <2>6, <3>1, ConnKnown DEF Sound, NegotiatingPhases
  <2>9. r.phase \in PermitPhases
    BY <2>6 DEF PermitPhases, NegotiatingPhases
  <2>10. LimiterOK'
    BY <1>1, <1>2, <2>7, SuccessKeeps DEF SInv
  <2>11. QED
    BY <1>1, <2>6, <2>7, <2>8, <2>9, <2>10, ContinueStep DEF SInv
<1>7. QED
  BY <1>5, <1>6

LEMMA HandshakeFrameKeeps ==
    ASSUME SInv, NEW c \in Conn, HandshakeFrame(c)
    PROVE  SInv'
<1>1. conn[c].phase = "mcs" /\ conn[c].phase \in PermitPhases
      /\ UNCHANGED <<now, config, limiter, loop, backlog>>
  BY DEF HandshakeFrame, PermitPhases, NegotiatingPhases
<1>2. LimiterOK'
  BY <1>1, LimiterStays DEF SInv
<1>3. conn[c].acceptor \in AcceptorRec
  BY ConnKnown DEF ConnRec
<1>4. PICK o \in HS!Outcomes(conn[c].acceptor) :
        \/ /\ o.event = "None"
           /\ Continue(c, [conn[c] EXCEPT !.acceptor = o.h])
           /\ UNCHANGED session_slots
        \/ o.event = "Accepted" /\ Accepted(c, o.h)
        \/ HandshakeOver(c) /\ UNCHANGED session_slots
  BY DEF HandshakeFrame
<1>5. CASE HandshakeOver(c) /\ UNCHANGED session_slots
  BY <1>1, <1>2, <1>5, OverStep DEF SInv
<1>6. CASE /\ o.event = "None"
           /\ Continue(c, [conn[c] EXCEPT !.acceptor = o.h])
           /\ UNCHANGED session_slots
  <2>1. o.h = conn[c].acceptor
    BY <1>3, <1>6, OutcomeCases
  <2>2. [conn[c] EXCEPT !.acceptor = o.h] = conn[c]
    BY <2>1, ConnKnown DEF ConnRec
  <2>3. Continue(c, conn[c])
    BY <1>6, <2>2
  <2>4. QED
    BY <1>1, <1>2, <1>6, <2>3, ConnKnown, ContinueStep DEF SInv
<1>7. CASE o.event = "Accepted" /\ Accepted(c, o.h)
  <2> DEFINE s == [conn[c] EXCEPT !.phase = "steady", !.acceptor = o.h]
             r == IF session_slots > 0 THEN s ELSE Closed
  <2>1. conn[c].acceptor.phase = "activating" /\ o.h \in AcceptorRec
    BY <1>3, <1>7, OutcomeCases
  <2>2. /\ s \in ConnRec /\ s.phase = "steady" /\ s.nla_user = conn[c].nla_user
        /\ s.proven = conn[c].proven /\ s.user = conn[c].user
    BY <2>1, ConnKnown DEF ConnRec, Phases
  <2>3. /\ conn' = [conn EXCEPT ![c] = r]
        /\ handshake_permits' = handshake_permits + 1
        /\ session_slots' = IF session_slots > 0 THEN session_slots - 1 ELSE session_slots
    BY <1>7, ConnKnown DEF Accepted, ConnRec, SInv, Shape
  <2> HIDE DEF s
  <2>4. Sound(s)
    BY <1>1, <2>1, <2>2, ConnKnown DEF Sound, NegotiatingPhases
  <2>5. /\ r \in ConnRec /\ Sound(r)
        /\ r.phase = IF session_slots > 0 THEN "steady" ELSE "closed"
    <3>1. Closed.phase = "closed"
      BY DEF Closed
    <3>2. QED
      BY <2>2, <2>4, <3>1, ClosedSound
  <2> HIDE DEF r
  <2>6. /\ One(conn[c].phase, PermitPhases) = 1 /\ One(r.phase, PermitPhases) = 0
        /\ One(conn[c].phase, {"steady"}) = 0
        /\ One(r.phase, {"steady"}) = IF session_slots > 0 THEN 1 ELSE 0
        /\ r.phase \notin PermitPhases
        /\ r.phase = "steady" => session_slots > 0
    BY <1>1, <2>5 DEF One, PermitPhases, NegotiatingPhases
  <2>7. /\ handshake_permits' = handshake_permits + One(conn[c].phase, PermitPhases)
                                                 - One(r.phase, PermitPhases)
        /\ session_slots' = session_slots + One(conn[c].phase, {"steady"})
                                         - One(r.phase, {"steady"})
    BY <2>3, <2>6 DEF SInv, Counts
  <2>8. QED
    BY <1>1, <1>2, <2>3, <2>5, <2>6, <2>7, TaskStep DEF SInv
<1>8. QED
  BY <1>4, <1>5, <1>6, <1>7

LEMMA TimeoutKeeps ==
    ASSUME SInv, NEW c \in Conn, Timeout(c)
    PROVE  SInv'
<1>1. conn[c].phase \in PermitPhases /\ HandshakeOver(c)
      /\ UNCHANGED <<now, config, loop, backlog, session_slots>>
      /\ (UNCHANGED limiter \/ RecordFailure(conn[c].ip))
  BY DEF Timeout, PermitPhases
<1>2. conn[c].ip \in Addr
  BY ConnKnown DEF ConnRec
<1>3. QED
  BY <1>1, <1>2, OverStep, RecordFailureKeeps, LimiterStays DEF SInv

LEMMA DisconnectKeeps ==
    ASSUME SInv, NEW c \in Conn, Disconnect(c)
    PROVE  SInv'
<1>1. conn[c].phase \in PermitPhases /\ HandshakeOver(c)
      /\ UNCHANGED <<now, config, loop, backlog, session_slots>>
      /\ (UNCHANGED limiter \/ RecordFailure(conn[c].ip))
  BY DEF Disconnect
<1>2. conn[c].ip \in Addr
  BY ConnKnown DEF ConnRec
<1>3. QED
  BY <1>1, <1>2, OverStep, RecordFailureKeeps, LimiterStays DEF SInv

LEMMA SessionEndsKeeps ==
    ASSUME SInv, NEW c \in Conn, SessionEnds(c)
    PROVE  SInv'
<1>1. /\ conn[c].phase = "steady" /\ conn' = [conn EXCEPT ![c] = Closed]
      /\ session_slots' = session_slots + 1
      /\ UNCHANGED <<now, config, limiter, loop, backlog, handshake_permits>>
  BY DEF SessionEnds
<1>2. /\ One(conn[c].phase, PermitPhases) = 0 /\ One(Closed.phase, PermitPhases) = 0
      /\ One(conn[c].phase, {"steady"}) = 1 /\ One(Closed.phase, {"steady"}) = 0
      /\ Closed.phase \notin PermitPhases \cup {"steady"}
  BY <1>1 DEF One, PermitPhases, NegotiatingPhases, Closed
<1>3. /\ handshake_permits' = handshake_permits + One(conn[c].phase, PermitPhases)
                                               - One(Closed.phase, PermitPhases)
      /\ session_slots' = session_slots + One(conn[c].phase, {"steady"})
                                       - One(Closed.phase, {"steady"})
  BY <1>1, <1>2 DEF SInv, Counts
<1>4. LimiterOK'
  BY <1>1, LimiterStays DEF SInv
<1>5. QED
  BY <1>1, <1>2, <1>3, <1>4, ClosedSound, TaskStep DEF SInv

-----------------------------------------------------------------------------
(* The specification *)

LEMMA TickKeeps ==
    ASSUME SInv, Tick
    PROVE  SInv'
<1>1. LimiterOK'
  BY ServerAssumption DEF SInv, LimiterOK, Tick
<1>2. Shape' /\ Counts' /\ Authority'
  BY DEF SInv, Tick, Shape, Counts, Authority, Sound, ResourcesConserved, InPhase
<1>3. QED
  BY <1>1, <1>2 DEF SInv

LEMMA StutterKeeps ==
    ASSUME SInv, UNCHANGED serverVars
    PROVE  SInv'
<1>1. LimiterOK'
  BY DEF SInv, LimiterOK, serverVars
<1>2. Shape' /\ Counts' /\ Authority'
  BY DEF SInv, serverVars, Shape, Counts, Authority, Sound, ResourcesConserved, InPhase
<1>3. QED
  BY <1>1, <1>2 DEF SInv

LEMMA InitSInv == ServerInit => SInv
<1> SUFFICES ASSUME ServerInit PROVE SInv
  OBVIOUS
<1>1. Shape
  BY ServerAssumption, ClosedSound DEF ServerInit, Shape
<1>2. \A c \in Conn : conn[c].phase = "closed"
  BY DEF ServerInit, Closed
<1>3. InPhase(PermitPhases) = {} /\ InPhase({"steady"}) = {}
  BY <1>2 DEF InPhase, PermitPhases, NegotiatingPhases
<1>4. Counts
  <2>1. config.MAX_CONCURRENT_HANDSHAKES \in Nat
    BY ServerAssumption DEF ServerInit, Configs
  <2>2. /\ Cardinality(InPhase(PermitPhases)) = 0
        /\ Cardinality(InPhase({"steady"})) = 0
    BY <1>3, FS_EmptySet
  <2>3. /\ handshake_permits = config.MAX_CONCURRENT_HANDSHAKES
        /\ session_slots = MaxSessions
    BY DEF ServerInit
  <2>4. QED
    BY <2>1, <2>2, <2>3, ServerAssumption DEF Counts, ResourcesConserved
<1>5. Authority
  BY ClosedSound DEF ServerInit, Authority
<1>6. LimiterOK
  BY ServerAssumption DEF ServerInit, LimiterOK, NoFailures
<1>7. QED
  BY <1>1, <1>4, <1>5, <1>6 DEF SInv

LEMMA NextSInv == SInv /\ [ServerNext]_serverVars => SInv'
<1> SUFFICES ASSUME SInv, [ServerNext]_serverVars PROVE SInv'
  OBVIOUS
<1>1. CASE Tick
  BY <1>1, TickKeeps
<1>2. CASE Accept
  BY <1>2, AcceptKeeps
<1>3. CASE AcquirePermit
  BY <1>3, AcquirePermitKeeps
<1>4. ASSUME NEW c \in Conn, ConnectionStep(c)
      PROVE  SInv'
  BY <1>4, ConnectKeeps, HandleConnectionKeeps, ConnectionRequestKeeps,
     TlsEstablishedKeeps, HandshakeFrameKeeps, CredSspKeeps, ClientInfoKeeps,
     TimeoutKeeps, DisconnectKeeps, SessionEndsKeeps DEF ConnectionStep
<1>5. CASE UNCHANGED serverVars
  BY <1>5, StutterKeeps
<1>6. QED
  BY <1>1, <1>2, <1>3, <1>4, <1>5 DEF ServerNext

THEOREM Invariance == ServerSpec => []SInv
BY InitSInv, NextSInv, PTL DEF ServerSpec

\* A session runs as the configured account, whose password the client has
\* shown, over CredSSP if NLA is required: for any number of connections, with
\* any batching and any interleaving of their handshakes (negotiate).
THEOREM OnlyTheAccountGetsIn == ServerSpec => []SteadyIsAuthorised
<1>1. SInv => SteadyIsAuthorised
  BY DEF SInv, Authority, Sound, SteadyIsAuthorised, InPhase
<1>2. QED
  BY <1>1, Invariance, PTL

\* The state is well formed, and whatever way a handshake or a session ends, its
\* permit or its slot comes back: none is lost and none is returned twice.
THEOREM PermitsAndSlotsAreConserved == ServerSpec => []ServerSafe
<1>1. SInv => ServerSafe
  <2> SUFFICES ASSUME SInv PROVE ServerSafe
    OBVIOUS
  <2>1. /\ \A i \in DOMAIN backlog : conn[backlog[i]].phase = "backlog"
        /\ loop \in Conn \cup {Idle}
    BY DEF SInv, Shape
  <2>2. \A c \in Conn :
           /\ conn[c].phase \in Phases /\ conn[c].ip \in Addr
           /\ conn[c].acceptor.phase \in HS!Phases
           /\ conn[c].user \in Users /\ conn[c].nla_user \in Users
    BY ConnKnown DEF ConnRec, AcceptorRec
  <2>3. /\ IsFiniteSet(InPhase(PermitPhases)) /\ IsFiniteSet(InPhase({"steady"}))
    BY ServerAssumption, FS_Subset DEF InPhase
  <2>4. /\ Cardinality(InPhase(PermitPhases)) \in Nat
        /\ Cardinality(InPhase({"steady"})) \in Nat
    BY <2>3, FS_CardinalityType
  <2>5. config.MAX_CONCURRENT_HANDSHAKES \in Nat
    BY DEF SInv, Shape, Configs
  <2>6. ResourcesConserved
    BY DEF SInv, Counts
  <2>7. /\ handshake_permits \in 0 .. config.MAX_CONCURRENT_HANDSHAKES
        /\ session_slots \in 0 .. MaxSessions
    BY <2>4, <2>5, <2>6, ServerAssumption DEF SInv, Counts, ResourcesConserved
  <2>8. QED
    BY <2>1, <2>2, <2>6, <2>7 DEF ServerSafe, ServerTypeOK, SInv, LimiterOK
<1>2. QED
  BY <1>1, Invariance, PTL
=============================================================================
