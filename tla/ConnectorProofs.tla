--------------------------- MODULE ConnectorProofs ---------------------------
(***************************************************************************)
(* The connection sequence for frames of any number of PDUs and clients    *)
(* with any number of channels: the acceptor and its callers agree         *)
(* (ConnectorSafe), and it implements module Handshake. A frame is peeled  *)
(* PDU by PDU, so the argument has two levels: what one PDU keeps, and by  *)
(* induction along the frame (the least PDU that would not keep it) what   *)
(* the frame keeps.                                                        *)
(***************************************************************************)
EXTENDS Connector, SequenceTheorems, WellFoundedInduction, TLAPS

LEMMA LeastNumber ==
    ASSUME NEW S, S \subseteq Nat, S # {}
    PROVE  \E n \in S : \A m \in S : n <= m
<1>1. \E x \in S : \A y \in S : ~(<<y, x>> \in OpToRel(<, Nat))
  BY NatLessThanWellFounded, WFMin, Zenon
<1>2. PICK x \in S : \A y \in S : ~(<<y, x>> \in OpToRel(<, Nat))
  BY <1>1
<1>3. \A y \in S : ~(y < x)
  BY <1>2 DEF OpToRel
<1>4. \A y \in S : x <= y
  BY <1>3
<1>5. QED
  BY <1>4

-----------------------------------------------------------------------------
(* The PDUs of a frame *)

\* One round of the loop over a frame, of the domain phase or of a reactivation.
Peel(mode, r, pdu) ==
    IF mode = "domain"
    THEN IF r.err \/ r.acceptor.state = "WaitClientInfo" THEN r
         ELSE OnDomainPdu(r.acceptor, pdu)
    ELSE IF r.err \/ is_finished(r.acceptor) THEN r
         ELSE IF pdu.kind = "bad" THEN Err(r.acceptor)
         ELSE IF r.acceptor.state = "WaitConfirmActive"
         THEN on_confirm_active_send_data(r.acceptor, pdu)
         ELSE on_finalization_send_data(r.acceptor, pdu)

\* g lists the results after the first m PDUs.
Rounds(g, mode, a, pdus, m) ==
    g = [n \in 0 .. m |-> IF n = 0 THEN Ok(a, "None") ELSE Peel(mode, g[n - 1], pdus[n])]

\* The loop is defined by its rounds: they can be listed up to any PDU.
LEMMA RoundsExist ==
    ASSUME NEW mode, NEW a, NEW pdus, NEW L \in Nat
    PROVE  \E g : Rounds(g, mode, a, pdus, L)
<1> DEFINE base == Ok(a, "None")
           next(r, n) == Peel(mode, r, pdus[n])
           is(g, m) == g = [n \in 0 .. m |-> IF n = 0 THEN base ELSE next(g[n - 1], n)]
           bad == {m \in 0 .. L : ~ \E g : is(g, m)}
<1>1. ASSUME NEW g, NEW m PROVE is(g, m) <=> Rounds(g, mode, a, pdus, m)
  BY DEF Rounds
<1> HIDE DEF next, base
<1>2. \E g : is(g, 0)
  <2>1. is([n \in 0 .. 0 |-> base], 0)
    OBVIOUS
  <2>2. QED
    BY <2>1
<1>3. ASSUME NEW m \in 0 .. L, m + 1 \in 0 .. L, NEW g, is(g, m)
      PROVE  \E f : is(f, m + 1)
  <2> DEFINE f == [n \in 0 .. m + 1 |-> IF n = m + 1 THEN next(g[m], m + 1) ELSE g[n]]
  <2>1. \A n \in 0 .. m : f[n] = g[n]
    OBVIOUS
  <2>2. \A n \in 0 .. m : g[n] = IF n = 0 THEN base ELSE next(g[n - 1], n)
    BY <1>3
  <2>3. \A n \in 0 .. m + 1 : f[n] = IF n = 0 THEN base ELSE next(f[n - 1], n)
    <3> SUFFICES ASSUME NEW n \in 0 .. m + 1
                 PROVE  f[n] = IF n = 0 THEN base ELSE next(f[n - 1], n)
      OBVIOUS
    <3>1. CASE n = m + 1
      <4>1. f[n] = next(g[m], m + 1) /\ n # 0 /\ n - 1 = m /\ f[m] = g[m]
        BY <2>1, <3>1
      <4> HIDE DEF f
      <4>2. QED
        BY <3>1, <4>1
    <3>2. CASE n # m + 1
      <4>1. n \in 0 .. m /\ f[n] = g[n] /\ (n # 0 => n - 1 \in 0 .. m /\ f[n - 1] = g[n - 1])
        BY <2>1, <3>2
      <4> HIDE DEF f
      <4>2. QED
        BY <2>2, <4>1
    <3>3. QED
      BY <3>1, <3>2
  <2>4. f = [n \in 0 .. m + 1 |-> f[n]]
    OBVIOUS
  <2> HIDE DEF f
  <2>5. is(f, m + 1)
    BY <2>3, <2>4
  <2>6. QED
    BY <2>5
<1>4. \E g : is(g, L)
  <2> SUFFICES ASSUME bad # {} PROVE FALSE
    OBVIOUS
  <2>1. bad \subseteq Nat
    OBVIOUS
  <2> HIDE DEF is
  <2>2. \E m \in bad : \A k \in bad : m <= k
    <3> HIDE DEF bad
    <3>1. QED
      BY <2>1, LeastNumber
  <2>3. PICK m \in bad : \A k \in bad : m <= k
    BY <2>2
  <2>4. m # 0
    BY <1>2, <2>3
  <2>5. m - 1 \in 0 .. L /\ m - 1 \notin bad /\ (m - 1) + 1 = m
    BY <2>3, <2>4
  <2>6. PICK g : is(g, m - 1)
    BY <2>5
  <2>7. \E f : is(f, (m - 1) + 1)
    BY <1>3, <2>3, <2>5, <2>6
  <2>8. QED
    BY <2>3, <2>5, <2>7
<1>5. QED
  BY <1>1, <1>4

LEMMA RoundsUnfold ==
    ASSUME NEW g, NEW mode, NEW a, NEW pdus, NEW L \in Nat, Rounds(g, mode, a, pdus, L)
    PROVE  /\ g[0] = Ok(a, "None")
           /\ \A n \in 1 .. L : g[n] = Peel(mode, g[n - 1], pdus[n])
<1> DEFINE base == Ok(a, "None")
           next(r, n) == Peel(mode, r, pdus[n])
<1>1. g = [n \in 0 .. L |-> IF n = 0 THEN base ELSE next(g[n - 1], n)]
  BY DEF Rounds
<1> HIDE DEF next, base
<1>2. g[0] = base /\ \A n \in 1 .. L : g[n] = next(g[n - 1], n)
  BY <1>1
<1>3. QED
  BY <1>2 DEF next, base

LEMMA DomainRounds ==
    ASSUME NEW a, NEW pdus, Len(pdus) \in Nat
    PROVE  \E g : /\ Rounds(g, "domain", a, pdus, Len(pdus))
                  /\ step_mcs_domain_pdus(a, pdus) = g[Len(pdus)]
<1> DEFINE peeled[n \in 0 .. Len(pdus)] ==
            IF n = 0 THEN Ok(a, "None")
            ELSE LET r == peeled[n - 1]
                 IN  IF r.err \/ r.acceptor.state = "WaitClientInfo" THEN r
                     ELSE OnDomainPdu(r.acceptor, pdus[n])
<1>1. step_mcs_domain_pdus(a, pdus) = peeled[Len(pdus)]
  BY DEF step_mcs_domain_pdus
<1>2. \E g : Rounds(g, "domain", a, pdus, Len(pdus))
  BY RoundsExist
<1>3. Rounds(peeled, "domain", a, pdus, Len(pdus))
  BY <1>2 DEF Rounds, Peel
<1>4. QED
  BY <1>1, <1>3

LEMMA ReactivationRounds ==
    ASSUME NEW a, NEW pdus, Len(pdus) \in Nat
    PROVE  \E g : /\ Rounds(g, "share", a, pdus, Len(pdus))
                  /\ step_reactivation(a, pdus) = g[Len(pdus)]
<1> DEFINE peeled[n \in 0 .. Len(pdus)] ==
            IF n = 0 THEN Ok(a, "None")
            ELSE LET r == peeled[n - 1]
                 IN  IF r.err \/ is_finished(r.acceptor) THEN r
                     ELSE IF pdus[n].kind = "bad" THEN Err(r.acceptor)
                     ELSE IF r.acceptor.state = "WaitConfirmActive"
                     THEN on_confirm_active_send_data(r.acceptor, pdus[n])
                     ELSE on_finalization_send_data(r.acceptor, pdus[n])
<1>1. step_reactivation(a, pdus) = peeled[Len(pdus)]
  BY DEF step_reactivation
<1>2. \E g : Rounds(g, "share", a, pdus, Len(pdus))
  BY RoundsExist
<1>3. Rounds(peeled, "share", a, pdus, Len(pdus))
  BY <1>2, ZenonT(60) DEF Rounds, Peel
<1>4. QED
  BY <1>1, <1>3

-----------------------------------------------------------------------------
(* What a PDU and a frame keep *)

\* A fragment is kept only while Confirm Active is awaited, and the joins that
\* remain are those the state waits for.
Tidy(a) ==
    /\ a.confirm_active_buf # <<>> => a.state = "WaitConfirmActive"
    /\ Len(a.confirm_active_buf) <= MAX_CONFIRM_ACTIVE_LEN
    /\ a.state = "WaitChannelJoinRequest" => a.remaining > 0

Same(b, a) == b.require_nla = a.require_nla /\ b.selected = a.selected

DomainResult(r, a) ==
    /\ r.acceptor \in Acceptors /\ Tidy(r.acceptor) /\ Same(r.acceptor, a)
    /\ r.event = "None" /\ r.err \in BOOLEAN
    /\ r.acceptor.confirm_active_buf = <<>>
    /\ ~r.err => r.acceptor.state \in DomainStates \cup {"WaitClientInfo"}
    /\ r.err => r.acceptor.state = "Rejected"

ShareResult(r, a) ==
    /\ r.acceptor \in Acceptors /\ Tidy(r.acceptor) /\ Same(r.acceptor, a)
    /\ r.err \in BOOLEAN
    /\ \/ r.acceptor.state \in ReactivationStates /\ r.event = "None"
       \/ r.acceptor.state = "Accepted" /\ r.event = "Accepted" /\ ~r.err

LEMMA DomainPdu ==
    ASSUME NEW a \in Acceptors, Tidy(a), a.confirm_active_buf = <<>>,
           a.state \in DomainStates, NEW pdu
    PROVE  DomainResult(OnDomainPdu(a, pdu), a)
<1> USE AcceptorAssumption
<1>0. /\ a.channels \in 0 .. MaxChannels /\ a.remaining \in 0 .. MaxChannels + 3
      /\ a.message_channel \in BOOLEAN /\ Len(<<>>) = 0
  BY DEF Acceptors
<1>1. CASE a.state = "WaitErectDomainRequest" /\ pdu = "erect"
  <2> DEFINE b == [a EXCEPT !.state = "WaitAttachUserRequest"]
  <2>1. /\ b \in Acceptors /\ b.state = "WaitAttachUserRequest" /\ Same(b, a)
        /\ b.confirm_active_buf = <<>>
    BY DEF Acceptors, States, DomainStates, Same
  <2>2. OnDomainPdu(a, pdu) = Ok(b, "None")
    BY <1>1 DEF OnDomainPdu
  <2> HIDE DEF b
  <2>3. QED
    BY <1>0, <2>1, <2>2 DEF DomainResult, Ok, Tidy, DomainStates
<1>2. CASE a.state = "WaitAttachUserRequest" /\ pdu = "attach"
  <2> DEFINE n == 2 + a.channels + IF a.message_channel THEN 1 ELSE 0
             b == [a EXCEPT !.state = "WaitChannelJoinRequest", !.remaining = n]
  <2>0. n \in 0 .. MaxChannels + 3 /\ n > 0
    BY <1>0
  <2>1. /\ b \in Acceptors /\ b.state = "WaitChannelJoinRequest" /\ Same(b, a)
        /\ b.confirm_active_buf = <<>> /\ b.remaining = n
    <3> HIDE DEF n
    <3>1. QED
      BY <2>0 DEF Acceptors, States, DomainStates, Same
  <2>2. OnDomainPdu(a, pdu) = Ok(b, "None")
    BY <1>2 DEF OnDomainPdu
  <2> HIDE DEF b, n
  <2>3. QED
    BY <1>0, <2>0, <2>1, <2>2 DEF DomainResult, Ok, Tidy, DomainStates
<1>3. CASE a.state = "WaitChannelJoinRequest" /\ pdu = "join"
  <2> DEFINE n == a.remaining - 1
             t == IF a.remaining = 1 THEN "WaitClientInfo" ELSE a.state
             b == [a EXCEPT !.remaining = n, !.state = t]
  <2>0. /\ n \in 0 .. MaxChannels + 3
        /\ \/ t = "WaitClientInfo"
           \/ t = "WaitChannelJoinRequest" /\ n > 0
    BY <1>0, <1>3 DEF Tidy
  <2>1. b \in Acceptors /\ b.state = t /\ b.remaining = n /\ Same(b, a) /\ b.confirm_active_buf = <<>>
    <3> HIDE DEF n, t
    <3>1. QED
      BY <2>0 DEF Acceptors, States, DomainStates, Same
  <2>2. OnDomainPdu(a, pdu) = Ok(b, "None")
    BY <1>3 DEF OnDomainPdu, Acceptors
  <2> HIDE DEF b, n, t
  <2>3. QED
    BY <1>0, <2>0, <2>1, <2>2 DEF DomainResult, Ok, Tidy, DomainStates
<1>4. CASE /\ ~(a.state = "WaitErectDomainRequest" /\ pdu = "erect")
           /\ ~(a.state = "WaitAttachUserRequest" /\ pdu = "attach")
           /\ ~(a.state = "WaitChannelJoinRequest" /\ pdu = "join")
  <2> DEFINE b == [a EXCEPT !.state = "Rejected"]
  <2>1. b \in Acceptors /\ b.state = "Rejected" /\ Same(b, a) /\ b.confirm_active_buf = <<>>
    BY DEF Acceptors, States, FinishedStates, Same
  <2>2. OnDomainPdu(a, pdu) = Err(b)
    BY <1>4 DEF OnDomainPdu
  <2> HIDE DEF b
  <2>3. QED
    BY <1>0, <2>1, <2>2 DEF DomainResult, Err, Tidy
<1>5. QED
  BY <1>1, <1>2, <1>3, <1>4

LEMMA PeelDomain ==
    ASSUME NEW a, NEW r, DomainResult(r, a), NEW pdu
    PROVE  DomainResult(Peel("domain", r, pdu), a)
<1>1. CASE r.err \/ r.acceptor.state = "WaitClientInfo"
  BY <1>1 DEF Peel
<1>2. CASE ~(r.err \/ r.acceptor.state = "WaitClientInfo")
  <2>1. DomainResult(OnDomainPdu(r.acceptor, pdu), r.acceptor)
    BY <1>2, DomainPdu DEF DomainResult
  <2>2. Peel("domain", r, pdu) = OnDomainPdu(r.acceptor, pdu)
    BY <1>2 DEF Peel
  <2>3. QED
    BY <2>1, <2>2 DEF DomainResult, Same
<1>3. QED
  BY <1>1, <1>2

LEMMA ConfirmActivePdu ==
    ASSUME NEW a \in Acceptors, Tidy(a), a.state = "WaitConfirmActive", NEW pdu \in SharePdus
    PROVE  ShareResult(on_confirm_active_send_data(a, pdu), a)
<1> USE AcceptorAssumption
<1> DEFINE data == Append(a.confirm_active_buf, pdu)
           result == on_confirm_active_send_data(a, pdu)
<1>1. CASE pdu.kind = "confirm" => pdu.looks_other
  <2>1. result = Ok(a, "None")
    BY <1>1 DEF on_confirm_active_send_data
  <2>2. QED
    BY <2>1 DEF ShareResult, Ok, Same, ReactivationStates
<1>2. CASE ~(pdu.kind = "confirm" => pdu.looks_other)
  <2>1. pdu \in Fragments
    BY <1>2 DEF SharePdus
  <2>2. a.confirm_active_buf \in Seq(Fragments)
    BY DEF Acceptors
  <2>3. data \in Seq(Fragments) /\ Len(data) = Len(a.confirm_active_buf) + 1
    BY <2>1, <2>2
  <2> DEFINE b == [a EXCEPT !.confirm_active_buf = <<>>]
             c == [a EXCEPT !.confirm_active_buf = data]
             f == [a EXCEPT !.confirm_active_buf = <<>>, !.granted_control_sent = FALSE,
                            !.state = "WaitFinalization"]
             e == Err(b)
             k == Ok(c, "None")
             d == Ok(f, "None")
  <2>0. Len(<<>>) = 0 /\ <<>> \in Seq(Fragments)
    OBVIOUS
  <2>4. ShareResult(e, a)
    <3>1. b \in Acceptors /\ b.state = a.state /\ Same(b, a) /\ b.confirm_active_buf = <<>>
      BY <2>0 DEF Acceptors, Same
    <3> HIDE DEF b
    <3>2. QED
      BY <2>0, <3>1 DEF ShareResult, Err, ReactivationStates, Tidy
  <2>5. ShareResult(d, a)
    <3>1. f \in Acceptors /\ f.state = "WaitFinalization" /\ Same(f, a) /\ f.confirm_active_buf = <<>>
      BY <2>0 DEF Acceptors, Same, States, ReactivationStates
    <3> HIDE DEF f
    <3>2. QED
      BY <2>0, <3>1 DEF ShareResult, Ok, ReactivationStates, Tidy
  <2>6. ASSUME Len(a.confirm_active_buf) + 1 <= MAX_CONFIRM_ACTIVE_LEN
        PROVE  ShareResult(k, a)
    <3> HIDE DEF data
    <3>1. c \in Acceptors /\ c.state = a.state /\ Same(c, a) /\ c.confirm_active_buf = data
      BY <2>3 DEF Acceptors, Same
    <3> HIDE DEF c
    <3>2. QED
      BY <2>3, <2>6, <3>1 DEF ShareResult, Ok, ReactivationStates, Tidy
  <2>7. \/ result = e
        \/ result = d
        \/ result = k /\ ~(Len(a.confirm_active_buf) + 1 > MAX_CONFIRM_ACTIVE_LEN)
    BY <1>2 DEF on_confirm_active_send_data
  <2> HIDE DEF e, d, k, result
  <2>8. Len(a.confirm_active_buf) \in Nat
    BY <2>2
  <2>9. QED
    BY <2>4, <2>5, <2>6, <2>7, <2>8 DEF result
<1>3. QED
  BY <1>1, <1>2

LEMMA FinalizationPdu ==
    ASSUME NEW a \in Acceptors, Tidy(a), a.state = "WaitFinalization", NEW pdu
    PROVE  ShareResult(on_finalization_send_data(a, pdu), a)
<1> USE AcceptorAssumption
<1> DEFINE result == on_finalization_send_data(a, pdu)
<1>1. a.confirm_active_buf = <<>>
  BY DEF Tidy
<1>2. ShareResult(Ok([a EXCEPT !.granted_control_sent = TRUE], "None"), a)
  BY <1>1 DEF ShareResult, Ok, Same, ReactivationStates, Acceptors, Tidy
<1>3. ShareResult(Ok([a EXCEPT !.state = "Accepted"], "Accepted"), a)
  BY <1>1 DEF ShareResult, Ok, Same, ReactivationStates, Acceptors, Tidy, States, FinishedStates
<1>4. ShareResult(Ok(a, "None"), a)
  BY DEF ShareResult, Ok, Same, ReactivationStates
<1>5. \/ result = Ok([a EXCEPT !.granted_control_sent = TRUE], "None")
      \/ result = Ok([a EXCEPT !.state = "Accepted"], "Accepted")
      \/ result = Ok(a, "None")
  BY DEF on_finalization_send_data
<1>6. QED
  BY <1>2, <1>3, <1>4, <1>5

LEMMA PeelShare ==
    ASSUME NEW a, NEW r, ShareResult(r, a), NEW pdu \in SharePdus
    PROVE  ShareResult(Peel("share", r, pdu), a)
<1>1. CASE r.err \/ is_finished(r.acceptor)
  BY <1>1 DEF Peel
<1>2. CASE ~(r.err \/ is_finished(r.acceptor))
  <2>1. /\ r.acceptor \in Acceptors /\ Tidy(r.acceptor)
        /\ r.acceptor.state \in ReactivationStates
    BY <1>2 DEF ShareResult, is_finished, FinishedStates
  <2>2. \/ Peel("share", r, pdu) = Err(r.acceptor)
        \/ /\ Peel("share", r, pdu) = on_confirm_active_send_data(r.acceptor, pdu)
           /\ r.acceptor.state = "WaitConfirmActive"
        \/ /\ Peel("share", r, pdu) = on_finalization_send_data(r.acceptor, pdu)
           /\ r.acceptor.state = "WaitFinalization"
    BY <1>2, <2>1 DEF Peel, ReactivationStates
  <2>3. ShareResult(Err(r.acceptor), r.acceptor)
    BY <2>1 DEF ShareResult, Err, Same
  <2>4. ShareResult(Peel("share", r, pdu), r.acceptor)
    BY <2>1, <2>2, <2>3, ConfirmActivePdu, FinalizationPdu
  <2>5. QED
    BY <2>4 DEF ShareResult, Same
<1>3. QED
  BY <1>1, <1>2

LEMMA DomainFrame ==
    ASSUME NEW a \in Acceptors, Tidy(a), a.state \in DomainStates,
           NEW pdus \in Seq(DomainPdus)
    PROVE  DomainResult(step_mcs_domain_pdus(a, pdus), a)
<1> DEFINE L == Len(pdus)
<1>1. L \in Nat
  OBVIOUS
<1>2. PICK g : Rounds(g, "domain", a, pdus, L) /\ step_mcs_domain_pdus(a, pdus) = g[L]
  BY <1>1, DomainRounds
<1> HIDE DEF L
<1>3. g[0] = Ok(a, "None") /\ \A n \in 1 .. L : g[n] = Peel("domain", g[n - 1], pdus[n])
  BY <1>1, <1>2, RoundsUnfold
<1>4. DomainResult(g[0], a)
  BY <1>3 DEF DomainResult, Ok, Same, Tidy, DomainStates
<1> DEFINE bad == {n \in 0 .. L : ~DomainResult(g[n], a)}
<1>5. bad = {}
  <2> SUFFICES ASSUME bad # {} PROVE FALSE
    OBVIOUS
  <2>1. bad \subseteq Nat
    BY <1>1
  <2>2. PICK m \in bad : \A k \in bad : m <= k
    <3> HIDE DEF bad
    <3>1. QED
      BY <2>1, LeastNumber
  <2>3. m # 0 /\ m \in 0 .. L
    BY <1>4, <2>2
  <2>4. m - 1 \in 0 .. L /\ m - 1 \notin bad /\ m \in 1 .. L
    BY <1>1, <2>2, <2>3
  <2>5. DomainResult(g[m - 1], a) /\ g[m] = Peel("domain", g[m - 1], pdus[m])
    BY <1>3, <2>4
  <2>6. DomainResult(g[m], a)
    BY <2>5, PeelDomain
  <2>7. QED
    BY <2>2, <2>6
<1>6. QED
  BY <1>1, <1>2, <1>5

LEMMA ShareFrame ==
    ASSUME NEW a \in Acceptors, Tidy(a), a.state \in ReactivationStates,
           NEW pdus \in Seq(SharePdus)
    PROVE  ShareResult(step_reactivation(a, pdus), a)
<1> DEFINE L == Len(pdus)
<1>1. L \in Nat
  OBVIOUS
<1>2. PICK g : Rounds(g, "share", a, pdus, L) /\ step_reactivation(a, pdus) = g[L]
  BY <1>1, ReactivationRounds
<1>4. \A n \in 1 .. L : pdus[n] \in SharePdus
  OBVIOUS
<1> HIDE DEF L
<1>3. g[0] = Ok(a, "None") /\ \A n \in 1 .. L : g[n] = Peel("share", g[n - 1], pdus[n])
  BY <1>1, <1>2, RoundsUnfold
<1>5. ShareResult(g[0], a)
  BY <1>3 DEF ShareResult, Ok, Same
<1> DEFINE bad == {n \in 0 .. L : ~ShareResult(g[n], a)}
<1>6. bad = {}
  <2> SUFFICES ASSUME bad # {} PROVE FALSE
    OBVIOUS
  <2>1. bad \subseteq Nat
    BY <1>1
  <2>2. PICK m \in bad : \A k \in bad : m <= k
    <3> HIDE DEF bad
    <3>1. QED
      BY <2>1, LeastNumber
  <2>3. m # 0 /\ m \in 0 .. L
    BY <1>5, <2>2
  <2>4. m - 1 \in 0 .. L /\ m - 1 \notin bad /\ m \in 1 .. L
    BY <1>1, <2>2, <2>3
  <2>5. ShareResult(g[m - 1], a) /\ g[m] = Peel("share", g[m - 1], pdus[m]) /\ pdus[m] \in SharePdus
    BY <1>3, <1>4, <2>4
  <2>6. ShareResult(g[m], a)
    BY <2>5, PeelShare
  <2>7. QED
    BY <2>2, <2>6
<1>7. QED
  BY <1>1, <1>2, <1>6

-----------------------------------------------------------------------------
(* The acceptor and its callers *)

CInv == ConnectorTypeOK /\ LoopAgrees /\ Tidy(acceptor)

SetupStates == {"WaitConnectInitial"} \cup DomainStates

\* What feeding a frame of its phase to the acceptor can do, by its state.
Outcome(r) ==
    /\ r.acceptor \in Acceptors /\ Tidy(r.acceptor)
    /\ r.acceptor.require_nla = acceptor.require_nla /\ r.err \in BOOLEAN
    /\ acceptor.state # "WaitConnectionRequest" => r.acceptor.selected = acceptor.selected
    /\ \/ r.err /\ r.event = "None" /\ r.acceptor = acceptor
       \/ /\ acceptor.state = "WaitConnectionRequest" /\ ~r.err
          /\ r.event = "Rejected" /\ r.acceptor.state = "Rejected"
          /\ r.acceptor.selected = acceptor.selected
       \/ /\ acceptor.state = "WaitConnectionRequest" /\ ~r.err
          /\ r.event = "TlsUpgrade" /\ r.acceptor.state = "WaitConnectInitial"
          /\ acceptor.require_nla => r.acceptor.selected = "HYBRID"
       \/ /\ acceptor.state \in SetupStates /\ r.event = "None"
          /\ ~r.err => r.acceptor.state \in DomainStates \cup {"WaitClientInfo"}
          /\ r.err => r.acceptor.state = "Rejected"
       \/ /\ acceptor.state = "WaitClientInfo" /\ ~r.err
          /\ r.event = "ClientInfoReceived" /\ r.acceptor.state = "WaitAuthApproval"
       \/ /\ acceptor.state \in ReactivationStates
          /\ \/ r.acceptor.state \in ReactivationStates /\ r.event = "None"
             \/ r.acceptor.state = "Accepted" /\ r.event = "Accepted" /\ ~r.err

LEMMA BatchesAreSequences ==
    ASSUME NEW P, NEW f \in Batches(UpTo(P))
    PROVE  f.pdus \in Seq(P)
<1>1. f.pdus \in UpTo(P)
  BY DEF Batches
<1>2. PICK n \in 1 .. MaxBatch : f.pdus \in [1 .. n -> P]
  BY <1>1 DEF UpTo
<1>3. QED
  BY <1>2, ConnectorAssumption

LEMMA StepOutcome ==
    ASSUME CInv, NEW f \in Frames
    PROVE  Outcome(step(acceptor, f))
<1> DEFINE a == acceptor
           r == step(a, f)
<1> USE AcceptorAssumption
<1>0. a \in Acceptors /\ Tidy(a) /\ a.state \in States
  BY DEF CInv, ConnectorTypeOK, Acceptors
<1>1. CASE is_finished(a) \/ a.state = "WaitAuthApproval" \/ f = Bad
  <2>1. r = Err(a)
    BY <1>1 DEF step
  <2>2. QED
    BY <1>0, <2>1 DEF Outcome, Err
<1>2. CASE ~(is_finished(a) \/ a.state = "WaitAuthApproval" \/ f = Bad) /\ a.state \in DomainStates
  <2>1. r = step_mcs_domain_pdus(a, f.pdus) /\ f \in Batches(UpTo(DomainPdus))
    BY <1>2 DEF step, Frames, DomainStates, ReactivationStates
  <2>2. f.pdus \in Seq(DomainPdus)
    BY <2>1, BatchesAreSequences
  <2>3. DomainResult(r, a)
    BY <1>0, <1>2, <2>1, <2>2, DomainFrame
  <2> HIDE DEF r
  <2>4. Outcome(r)
    BY <1>2, <2>3 DEF DomainResult, Same, Outcome, SetupStates, DomainStates
  <2>5. QED
    BY <2>4 DEF r
<1>3. CASE ~(is_finished(a) \/ a.state = "WaitAuthApproval" \/ f = Bad) /\ a.state \in ReactivationStates
  <2>1. r = step_reactivation(a, f.pdus) /\ f \in Batches(UpTo(SharePdus))
    BY <1>3 DEF step, Frames, DomainStates, ReactivationStates
  <2>2. f.pdus \in Seq(SharePdus)
    BY <2>1, BatchesAreSequences
  <2>3. ShareResult(r, a)
    BY <1>0, <1>3, <2>1, <2>2, ShareFrame
  <2> HIDE DEF r
  <2>4. Outcome(r)
    BY <1>3, <2>3 DEF ShareResult, Same, Outcome, ReactivationStates
  <2>5. QED
    BY <2>4 DEF r
<1>4. CASE f # Bad /\ a.state = "WaitConnectionRequest"
  <2>1. r = on_connection_request(a, f) /\ f \in ConnectionRequests
    BY <1>4 DEF step, Frames, DomainStates, ReactivationStates, is_finished, FinishedStates
  <2>2. a.confirm_active_buf = <<>> /\ Len(<<>>) = 0
    BY <1>0, <1>4 DEF Tidy
  <2> DEFINE choice == IF "HYBRID" \in f.protocol THEN {"HYBRID"}
                       ELSE IF a.require_nla THEN {} ELSE f.protocol
             p == CHOOSE q \in choice : TRUE
             b == [a EXCEPT !.state = "Rejected"]
             c == [a EXCEPT !.state = "WaitConnectInitial", !.selected = p]
  <2>3. choice # {} => p \in Protocols /\ (a.require_nla => p = "HYBRID")
    BY <2>1 DEF ConnectionRequests, Protocols
  <2>4. \/ r = Ok(b, "Rejected")
        \/ choice # {} /\ r = Ok(c, "TlsUpgrade")
    BY <2>1 DEF on_connection_request
  <2>5. /\ b \in Acceptors /\ b.state = "Rejected" /\ Same(b, a) /\ b.confirm_active_buf = <<>>
    BY <1>0, <2>2 DEF Acceptors, States, FinishedStates, Same
  <2>6. choice # {} => /\ c \in Acceptors /\ c.state = "WaitConnectInitial"
                       /\ c.require_nla = a.require_nla /\ c.selected = p
                       /\ c.confirm_active_buf = <<>>
    <3> HIDE DEF p, choice
    <3>1. QED
      BY <1>0, <2>2, <2>3 DEF Acceptors, States
  <2> HIDE DEF r, b, c, p, choice
  <2>7. CASE r = Ok(b, "Rejected")
    <3>1. Tidy(b)
      BY <2>2, <2>5 DEF Tidy
    <3>2. r.acceptor = b /\ r.event = "Rejected" /\ r.err = FALSE
      BY <2>7 DEF Ok
    <3>3. Outcome(r)
      BY <1>4, <2>5, <3>1, <3>2 DEF Outcome, Same
    <3>4. QED
      BY <3>3 DEF r
  <2>8. CASE choice # {} /\ r = Ok(c, "TlsUpgrade")
    <3>1. Tidy(c)
      BY <2>2, <2>6, <2>8 DEF Tidy
    <3>2. r.acceptor = c /\ r.event = "TlsUpgrade" /\ r.err = FALSE
      BY <2>8 DEF Ok
    <3>3. a.require_nla => c.selected = "HYBRID"
      BY <2>3, <2>6, <2>8
    <3>4. Outcome(r)
      BY <1>4, <2>6, <2>8, <3>1, <3>2, <3>3 DEF Outcome
    <3>5. QED
      BY <3>4 DEF r
  <2>9. QED
    BY <2>4, <2>7, <2>8
<1>5. CASE f # Bad /\ a.state = "WaitConnectInitial"
  <2>1. r = on_connect_initial(a, f) /\ f \in ConnectInitials
    BY <1>5 DEF step, Frames, DomainStates, ReactivationStates, is_finished, FinishedStates
  <2>2. a.confirm_active_buf = <<>> /\ Len(<<>>) = 0
    BY <1>0, <1>5 DEF Tidy
  <2> DEFINE b == [a EXCEPT !.state = "WaitErectDomainRequest", !.channels = f.channels,
                            !.message_channel = f.message]
  <2>3. r = Ok(b, "None")
    BY <2>1 DEF on_connect_initial
  <2>4. /\ b \in Acceptors /\ b.state = "WaitErectDomainRequest" /\ Same(b, a)
        /\ b.confirm_active_buf = <<>>
    BY <1>0, <2>1, <2>2 DEF Acceptors, States, DomainStates, Same, ConnectInitials
  <2> HIDE DEF r, b
  <2>5. Outcome(r)
    BY <1>5, <2>2, <2>3, <2>4 DEF Outcome, Ok, Same, Tidy, SetupStates, DomainStates
  <2>6. QED
    BY <2>5 DEF r
<1>6. CASE f # Bad /\ a.state = "WaitClientInfo"
  <2>1. r = on_client_info(a, f)
    BY <1>6 DEF step, DomainStates, ReactivationStates, is_finished, FinishedStates
  <2>2. a.confirm_active_buf = <<>> /\ Len(<<>>) = 0
    BY <1>0, <1>6 DEF Tidy
  <2> DEFINE b == [a EXCEPT !.state = "WaitAuthApproval"]
  <2>3. r = Ok(b, "ClientInfoReceived")
    BY <2>1 DEF on_client_info
  <2>4. /\ b \in Acceptors /\ b.state = "WaitAuthApproval" /\ Same(b, a)
        /\ b.confirm_active_buf = <<>>
    BY <1>0, <2>2 DEF Acceptors, States, Same
  <2> HIDE DEF r, b
  <2>5. Outcome(r)
    BY <1>6, <2>2, <2>3, <2>4 DEF Outcome, Ok, Same, Tidy
  <2>6. QED
    BY <2>5 DEF r
<1>7. QED
  BY <1>0, <1>1, <1>2, <1>3, <1>4, <1>5, <1>6 DEF States, is_finished

-----------------------------------------------------------------------------
(* The invariant *)

LEMMA InitCInv == ConnectorInit => CInv
<1> SUFFICES ASSUME ConnectorInit
             PROVE  CInv
  OBVIOUS
<1> USE AcceptorAssumption
<1>1. PICK nla \in BOOLEAN : acceptor = new(nla)
  BY DEF ConnectorInit
<1>2. /\ acceptor.state = "WaitConnectionRequest" /\ acceptor.confirm_active_buf = <<>>
      /\ Len(<<>>) = 0 /\ caller = "negotiate"
  BY <1>1 DEF new, ConnectorInit
<1>3. acceptor \in Acceptors
  BY <1>1 DEF new, Acceptors, States, Protocols
<1>4. Tidy(acceptor)
  BY <1>2 DEF Tidy
<1>5. ConnectorTypeOK /\ LoopAgrees
  BY <1>2, <1>3 DEF ConnectorTypeOK, LoopAgrees, is_finished, FinishedStates
<1>6. QED
  BY <1>4, <1>5 DEF CInv

LEMMA NegotiateKeeps ==
    ASSUME CInv, NEW f \in Frames, Negotiate(f)
    PROVE  CInv'
<1> DEFINE r == step(acceptor, f)
<1>1. Outcome(r)
  BY StepOutcome
<1>2. /\ caller = "negotiate" /\ acceptor' = r.acceptor
      /\ caller' = CASE r.err \/ r.event = "Rejected" -> "closed"
                     [] r.event = "ClientInfoReceived" -> "decide"
                     [] r.event = "Accepted" -> "steady"
                     [] OTHER -> "negotiate"
  BY DEF Negotiate
<1> HIDE DEF r
<1>3. acceptor.state # "WaitAuthApproval" /\ acceptor.state \notin FinishedStates
  BY <1>2 DEF CInv, LoopAgrees, is_finished
<1>4. ConnectorTypeOK' /\ Tidy(acceptor)'
  <2>1. acceptor' \in Acceptors /\ Tidy(acceptor')
    BY <1>1, <1>2 DEF Outcome
  <2>2. caller' \in {"negotiate", "decide", "steady", "resizing", "closed"}
    BY <1>1, <1>2 DEF Outcome
  <2>3. QED
    BY <2>1, <2>2 DEF ConnectorTypeOK, Tidy
<1>5. LoopAgrees'
  BY <1>1, <1>2, <1>3 DEF Outcome, LoopAgrees, is_finished, FinishedStates,
                          SetupStates, DomainStates, ReactivationStates
<1>6. QED
  BY <1>4, <1>5 DEF CInv

LEMMA ResizeFrameKeeps ==
    ASSUME CInv, NEW f \in Frames, ResizeFrame(f)
    PROVE  CInv'
<1> DEFINE r == step(acceptor, f)
<1>1. Outcome(r)
  BY StepOutcome
<1>2. acceptor.state \in ReactivationStates /\ ~is_finished(acceptor)
  BY DEF ResizeFrame, CInv, LoopAgrees, is_finished, FinishedStates, ReactivationStates
<1>3. /\ caller = "resizing" /\ acceptor' = r.acceptor
      /\ caller' = IF is_finished(r.acceptor) THEN "steady" ELSE caller
  BY <1>2 DEF ResizeFrame
<1> HIDE DEF r
<1>4. ConnectorTypeOK' /\ Tidy(acceptor)'
  <2>1. acceptor' \in Acceptors /\ Tidy(acceptor')
    BY <1>1, <1>3 DEF Outcome
  <2>2. caller' \in {"negotiate", "decide", "steady", "resizing", "closed"}
    BY <1>3
  <2>3. QED
    BY <2>1, <2>2 DEF ConnectorTypeOK, Tidy
<1>5. LoopAgrees'
  BY <1>1, <1>2, <1>3 DEF Outcome, LoopAgrees, is_finished, FinishedStates,
                          SetupStates, DomainStates, ReactivationStates
<1>6. QED
  BY <1>4, <1>5 DEF CInv

\* The calls of the server: they move the acceptor to one of two states, with
\* no fragment kept, and leave the negotiated protocol alone.
LEMMA MovedTo ==
    ASSUME NEW a \in Acceptors, a.confirm_active_buf = <<>>,
           NEW st \in {"WaitConfirmActive", "Rejected"}
    PROVE  LET b == [a EXCEPT !.state = st]
           IN  b \in Acceptors /\ Tidy(b) /\ Same(b, a) /\ b.state = st
<1> DEFINE b == [a EXCEPT !.state = st]
<1>1. b \in Acceptors /\ Same(b, a) /\ b.state = st /\ b.confirm_active_buf = <<>>
  BY DEF Acceptors, States, ReactivationStates, FinishedStates, Same
<1>2. Len(<<>>) = 0
  OBVIOUS
<1> HIDE DEF b
<1>3. Tidy(b)
  BY <1>1, <1>2, AcceptorAssumption DEF Tidy
<1>4. QED
  BY <1>1, <1>3 DEF b

LEMMA CallsMove ==
    ASSUME CInv, Approve \/ Reject \/ BeginResize
    PROVE  /\ acceptor' \in Acceptors /\ Tidy(acceptor') /\ Same(acceptor', acceptor)
           /\ \/ /\ acceptor.state = "WaitAuthApproval"
                 /\ \/ acceptor'.state = "WaitConfirmActive" /\ caller' = "negotiate"
                    \/ acceptor'.state = "Rejected" /\ caller' = "closed"
              \/ /\ acceptor.state = "Accepted"
                 /\ acceptor'.state = "WaitConfirmActive" /\ caller' = "resizing"
<1>0. acceptor \in Acceptors
  BY DEF CInv, ConnectorTypeOK
<1>1. CASE Approve \/ Reject
  <2>1. acceptor.state = "WaitAuthApproval" /\ acceptor.confirm_active_buf = <<>>
    BY <1>1 DEF Approve, Reject, CInv, LoopAgrees, Tidy
  <2>2. \/ acceptor' = [acceptor EXCEPT !.state = "WaitConfirmActive"] /\ caller' = "negotiate"
        \/ acceptor' = [acceptor EXCEPT !.state = "Rejected"] /\ caller' = "closed"
    BY <1>1, <2>1 DEF Approve, Reject, approve_client_info, reject_client_info, Ok
  <2>3. QED
    BY <1>0, <2>1, <2>2, MovedTo
<1>2. CASE BeginResize
  <2>1. acceptor.state = "Accepted" /\ acceptor.confirm_active_buf = <<>>
    BY <1>2 DEF BeginResize, CInv, LoopAgrees, Tidy
  <2>2. /\ acceptor' = [acceptor EXCEPT !.confirm_active_buf = <<>>, !.state = "WaitConfirmActive"]
        /\ caller' = "resizing"
    BY <1>2, <2>1 DEF BeginResize, begin_resize, Ok
  <2>3. acceptor' = [acceptor EXCEPT !.state = "WaitConfirmActive"]
    BY <1>0, <2>1, <2>2 DEF Acceptors
  <2>4. QED
    BY <1>0, <2>1, <2>2, <2>3, MovedTo
<1>3. QED
  BY <1>1, <1>2

LEMMA CallsKeep ==
    ASSUME CInv, Approve \/ Reject \/ BeginResize
    PROVE  CInv'
<1>1. /\ acceptor' \in Acceptors /\ Tidy(acceptor')
      /\ \/ acceptor'.state = "WaitConfirmActive" /\ caller' \in {"negotiate", "resizing"}
         \/ acceptor'.state = "Rejected" /\ caller' = "closed"
  BY CallsMove
<1>2. ConnectorTypeOK' /\ Tidy(acceptor)'
  BY <1>1 DEF ConnectorTypeOK, Tidy
<1>3. LoopAgrees'
  BY <1>1 DEF LoopAgrees, is_finished, FinishedStates, ReactivationStates
<1>4. QED
  BY <1>2, <1>3 DEF CInv

LEMMA NextCInv == CInv /\ [ConnectorNext]_connectorVars => CInv'
<1> SUFFICES ASSUME CInv, [ConnectorNext]_connectorVars
             PROVE  CInv'
  OBVIOUS
<1>1. CASE \E f \in Frames : Negotiate(f) \/ ResizeFrame(f)
  BY <1>1, NegotiateKeeps, ResizeFrameKeeps
<1>2. CASE Approve \/ Reject \/ BeginResize
  BY <1>2, CallsKeep
<1>3. CASE Close
  BY <1>3 DEF Close, CInv, ConnectorTypeOK, LoopAgrees, Tidy, is_finished
<1>4. CASE UNCHANGED connectorVars
  BY <1>4 DEF connectorVars, CInv, ConnectorTypeOK, LoopAgrees, Tidy, is_finished
<1>5. QED
  BY <1>1, <1>2, <1>3, <1>4 DEF ConnectorNext

\* The strengthening under which the loops and the acceptor agree: no fragment
\* is kept and no channel join is awaited but in the state for it.
THEOREM ConnectorInvariance == ConnectorSpec => []CInv
<1>1. QED
  BY InitCInv, NextCInv, PTL DEF ConnectorSpec

\* negotiate, the resize arm of the session loop and the acceptor they share
\* agree on where the connection is, whatever frames arrive in whatever batches
\* of whatever length, and no fragment outlives its Confirm Active.
THEOREM TheLoopsAgreeWithTheAcceptor == ConnectorSpec => []ConnectorSafe
<1>1. CInv => ConnectorSafe
  BY DEF CInv, ConnectorSafe, NoStaleFragments, Tidy
<1>2. QED
  BY <1>1, ConnectorInvariance, PTL

-----------------------------------------------------------------------------
(* Refinement: the acceptor keeps to the promise of module Handshake *)

Seen == [phase |-> Phase, require_nla |-> acceptor.require_nla,
         hybrid |-> requires_credssp(acceptor)]

View(phase, nla, hybrid) == [phase |-> phase, require_nla |-> nla, hybrid |-> hybrid]

LEMMA ViewMoves ==
    ASSUME NEW p, NEW n, NEW y, NEW q, NEW z
    PROVE  /\ View(p, n, y).phase = p /\ View(p, n, y).require_nla = n
           /\ [View(p, n, y) EXCEPT !.phase = q] = View(q, n, y)
           /\ [View(p, n, y) EXCEPT !.hybrid = z] = View(p, n, z)
  BY DEF View

\* v is what some frame leads to from s.
Leads(s, v) == \E o \in Promise!Outcomes(s) : o.h = v

\* What a frame may lead to, phase by phase.
LEMMA ViewOutcomes ==
    ASSUME NEW p, NEW n, NEW y
    PROVE  LET s == View(p, n, y)
           IN  /\ p = "request" => Leads(s, View("rejected", n, y))
               /\ p = "request" =>
                     \A z \in IF n THEN {TRUE} ELSE BOOLEAN : Leads(s, View("setup", n, z))
               /\ p = "setup" => /\ Leads(s, View("setup", n, y))
                                 /\ Leads(s, View("rejected", n, y))
                                 /\ Leads(s, View("approval", n, y))
               /\ p = "activating" => /\ Leads(s, View("activating", n, y))
                                      /\ Leads(s, View("accepted", n, y))
<1> DEFINE s == View(p, n, y)
<1>s. s.phase = p /\ s.require_nla = n
  BY ViewMoves
<1>0. ASSUME NEW x, NEW q, NEW e
      PROVE  Promise!To(View(p, n, x), q, e).h = View(q, n, x)
  BY DEF Promise!To, View
<1>1. ASSUME p = "request"
      PROVE  /\ Leads(s, View("rejected", n, y))
             /\ \A z \in IF n THEN {TRUE} ELSE BOOLEAN : Leads(s, View("setup", n, z))
  <2>0. /\ Promise!To(s, "rejected", "Rejected") \in Promise!Outcomes(s)
        /\ \A z \in IF n THEN {TRUE} ELSE BOOLEAN :
              Promise!To([s EXCEPT !.hybrid = z], "setup", "TlsUpgrade") \in Promise!Outcomes(s)
    <3> HIDE DEF s
    <3>1. QED
      BY <1>1, <1>s, Zenon DEF Promise!Outcomes
  <2>1. Promise!To(s, "rejected", "Rejected").h = View("rejected", n, y)
    BY <1>0
  <2>2. ASSUME NEW z \in IF n THEN {TRUE} ELSE BOOLEAN
        PROVE  Promise!To([s EXCEPT !.hybrid = z], "setup", "TlsUpgrade").h = View("setup", n, z)
    <3>1. [s EXCEPT !.hybrid = z] = View(p, n, z)
      BY DEF View
    <3>2. QED
      BY <1>0, <3>1, Zenon
  <2> HIDE DEF s
  <2>3. QED
    BY <2>0, <2>1, <2>2, Zenon DEF Leads
<1>2. ASSUME p = "setup"
      PROVE  Leads(s, View("setup", n, y)) /\ Leads(s, View("rejected", n, y))
             /\ Leads(s, View("approval", n, y))
  <2>1. {Promise!To(s, "setup", "None"), Promise!To(s, "rejected", "Err"),
         Promise!To(s, "approval", "ClientInfoReceived")} \subseteq Promise!Outcomes(s)
    <3> HIDE DEF s
    <3>1. QED
      BY <1>2, <1>s DEF Promise!Outcomes
  <2>2. QED
    BY <1>0, <2>1 DEF Leads
<1>3. ASSUME p = "activating"
      PROVE  Leads(s, View("activating", n, y)) /\ Leads(s, View("accepted", n, y))
  <2>1. {Promise!To(s, "activating", "None"), Promise!To(s, "accepted", "Accepted")}
            \subseteq Promise!Outcomes(s)
    <3> HIDE DEF s
    <3>1. QED
      BY <1>3, <1>s DEF Promise!Outcomes
  <2>2. QED
    BY <1>0, <2>1 DEF Leads
<1>4. QED
  BY <1>1, <1>2, <1>3

\* The phase a caller sees, from the state of the acceptor.
LEMMA PhaseValues ==
    /\ acceptor.state = "WaitConnectionRequest" => Phase = "request"
    /\ acceptor.state \in SetupStates \cup {"WaitClientInfo"} => Phase = "setup"
    /\ acceptor.state = "WaitAuthApproval" => Phase = "approval"
    /\ acceptor.state \in ReactivationStates => Phase = "activating"
    /\ acceptor.state = "Accepted" => Phase = "accepted"
    /\ acceptor.state = "Rejected" => Phase = "rejected"
  BY DEF Phase, SetupStates, DomainStates, ReactivationStates

LEMMA NextPhaseValues ==
    /\ acceptor'.state \in SetupStates \cup {"WaitClientInfo"} => Phase' = "setup"
    /\ acceptor'.state = "WaitAuthApproval" => Phase' = "approval"
    /\ acceptor'.state \in ReactivationStates => Phase' = "activating"
    /\ acceptor'.state = "Accepted" => Phase' = "accepted"
    /\ acceptor'.state = "Rejected" => Phase' = "rejected"
  BY DEF Phase, SetupStates, DomainStates, ReactivationStates

LEMMA FrameKeepsPromise ==
    ASSUME CInv, NEW f \in Frames, acceptor' = step(acceptor, f).acceptor
    PROVE  Promise!HandshakeNext \/ Seen' = Seen
<1> DEFINE r == step(acceptor, f)
           n == acceptor.require_nla
           y == requires_credssp(acceptor)
<1>1. Outcome(r) /\ acceptor' = r.acceptor
  BY StepOutcome
<1> HIDE DEF r
<1>2. /\ acceptor'.require_nla = n
      /\ acceptor.state # "WaitConnectionRequest" => acceptor'.selected = acceptor.selected
  BY <1>1 DEF Outcome
<1>3. Seen = View(Phase, n, y)
  BY DEF Seen, View
<1>4. Seen' = View(Phase', n, requires_credssp(acceptor'))
  BY <1>2 DEF Seen, View, requires_credssp
<1>5. ASSUME Leads(View(Phase, n, y), Seen')
      PROVE  Promise!HandshakeNext
  BY <1>3, <1>5 DEF Promise!HandshakeNext, Seen, Leads
<1>6. CASE acceptor' = acceptor
  BY <1>6 DEF Seen, Phase, requires_credssp
<1>7. CASE /\ acceptor.state = "WaitConnectionRequest" /\ acceptor'.state = "Rejected"
           /\ acceptor'.selected = acceptor.selected
  <2>1. Phase = "request" /\ Phase' = "rejected"
    BY <1>7, PhaseValues, NextPhaseValues
  <2>2. Seen' = View("rejected", n, y)
    BY <1>4, <1>7, <2>1 DEF requires_credssp
  <2>3. Leads(View(Phase, n, y), Seen')
    BY <2>1, <2>2, ViewOutcomes, Zenon
  <2>4. QED
    BY <1>5, <2>3
<1>8. CASE /\ acceptor.state = "WaitConnectionRequest" /\ acceptor'.state = "WaitConnectInitial"
           /\ n => acceptor'.selected = "HYBRID"
  <2>1. Phase = "request" /\ Phase' = "setup"
    BY <1>8, PhaseValues, NextPhaseValues DEF SetupStates
  <2>2. requires_credssp(acceptor') \in IF n THEN {TRUE} ELSE BOOLEAN
    BY <1>8 DEF requires_credssp
  <2>3. Seen' = View("setup", n, requires_credssp(acceptor'))
    BY <1>4, <2>1
  <2>4. Leads(View(Phase, n, y), Seen')
    BY <2>1, <2>2, <2>3, ViewOutcomes, Zenon
  <2>5. QED
    BY <1>5, <2>4
<1>9. CASE acceptor.state # "WaitConnectionRequest" /\ acceptor' # acceptor
  <2>1. Seen' = View(Phase', n, y)
    BY <1>2, <1>4, <1>9 DEF requires_credssp
  <2>2. \/ Phase = "setup" /\ Phase' \in {"setup", "rejected", "approval"}
        \/ Phase = "activating" /\ Phase' \in {"activating", "accepted"}
    <3>1. CASE acceptor.state \in SetupStates
      <4>1. acceptor'.state \in SetupStates \cup {"WaitClientInfo", "Rejected"}
        BY <1>1, <1>9, <3>1 DEF Outcome, SetupStates, DomainStates, ReactivationStates
      <4>2. QED
        BY <3>1, <4>1, PhaseValues, NextPhaseValues
    <3>2. CASE acceptor.state = "WaitClientInfo"
      <4>1. acceptor'.state = "WaitAuthApproval"
        BY <1>1, <1>9, <3>2 DEF Outcome, SetupStates, DomainStates, ReactivationStates
      <4>2. QED
        BY <3>2, <4>1, PhaseValues, NextPhaseValues
    <3>3. CASE acceptor.state \in ReactivationStates
      <4>1. acceptor'.state \in ReactivationStates \cup {"Accepted"}
        BY <1>1, <1>9, <3>3 DEF Outcome, SetupStates, DomainStates, ReactivationStates
      <4>2. QED
        BY <3>3, <4>1, PhaseValues, NextPhaseValues
    <3>4. QED
      BY <1>1, <1>9, <3>1, <3>2, <3>3 DEF Outcome
  <2>3. Leads(View(Phase, n, y), Seen')
    BY <2>1, <2>2, ViewOutcomes, Zenon
  <2>4. QED
    BY <1>5, <2>3
<1>10. QED
  BY <1>1, <1>6, <1>7, <1>8, <1>9 DEF Outcome, SetupStates, DomainStates, ReactivationStates

LEMMA CallsKeepPromise ==
    ASSUME CInv, Approve \/ Reject \/ BeginResize
    PROVE  Promise!HandshakeNext
<1> DEFINE n == acceptor.require_nla
           y == requires_credssp(acceptor)
<1>1. Same(acceptor', acceptor)
  BY CallsMove
<1>2. Seen = View(Phase, n, y) /\ Seen' = View(Phase', n, y)
  BY <1>1 DEF Seen, View, Same, requires_credssp
<1>3. \/ Phase = "approval" /\ Phase' \in {"activating", "rejected"}
      \/ Phase = "accepted" /\ Phase' = "activating"
  BY CallsMove, PhaseValues, NextPhaseValues DEF ReactivationStates
<1>4. Seen.phase = Phase /\ Seen' = [Seen EXCEPT !.phase = Phase']
  BY <1>2, ViewMoves
<1>5. \/ Seen.phase = "approval" /\ Seen' \in {Promise!Approve(Seen), Promise!Reject(Seen)}
      \/ Seen.phase = "accepted" /\ Seen' = Promise!Resize(Seen)
  BY <1>3, <1>4 DEF Promise!Approve, Promise!Reject, Promise!Resize
<1>6. QED
  BY <1>5 DEF Promise!HandshakeNext, Seen

LEMMA NextKeepsPromise ==
    ASSUME CInv, [ConnectorNext]_connectorVars
    PROVE  Promise!HandshakeNext \/ Seen' = Seen
<1>1. ASSUME NEW f \in Frames, Negotiate(f) \/ ResizeFrame(f)
      PROVE  Promise!HandshakeNext \/ Seen' = Seen
  <2>1. acceptor' = step(acceptor, f).acceptor
    BY <1>1 DEF Negotiate, ResizeFrame, CInv, LoopAgrees, is_finished, FinishedStates,
                ReactivationStates
  <2>2. QED
    BY <2>1, FrameKeepsPromise
<1>2. CASE Approve \/ Reject \/ BeginResize
  BY <1>2, CallsKeepPromise
<1>3. CASE Close \/ UNCHANGED connectorVars
  BY <1>3 DEF Close, connectorVars, Seen, Phase, requires_credssp
<1>4. QED
  BY <1>1, <1>2, <1>3 DEF ConnectorNext

\* The connection sequence implements its abstract promise for every limit and
\* batch length: the acceptor is Accepted only after Client Info was approved, a
\* required NLA is selected or the client turned away, and every resize goes
\* through an activation of its own.
THEOREM TheAcceptorKeepsItsPromise == ConnectorSpec => ImplementsHandshake
<1>1. ConnectorInit => Promise!HandshakeInit
  <2> SUFFICES ASSUME NEW nla \in BOOLEAN, acceptor = new(nla)
               PROVE  Promise!HandshakeInit
    BY DEF ConnectorInit
  <2>1. acceptor.state = "WaitConnectionRequest" /\ acceptor.require_nla = nla
        /\ requires_credssp(acceptor) = FALSE
    BY DEF new, requires_credssp
  <2>2. Seen = Promise!new(nla)
    BY <2>1, PhaseValues DEF Seen, Promise!new
  <2>3. Seen \in {Promise!new(TRUE), Promise!new(FALSE)}
    BY <2>2
  <2>4. QED
    BY <2>3 DEF Promise!HandshakeInit, Seen
<1>2. CInv /\ [ConnectorNext]_connectorVars
        => [Promise!HandshakeNext]_([phase |-> Phase, require_nla |-> acceptor.require_nla,
                                     hybrid |-> requires_credssp(acceptor)])
  BY NextKeepsPromise DEF Seen
<1>3. QED
  BY <1>1, <1>2, ConnectorInvariance, PTL
     DEF ConnectorSpec, ImplementsHandshake, Promise!HandshakeSpec
=============================================================================
