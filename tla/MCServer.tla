------------------------------ MODULE MCServer ------------------------------
(***************************************************************************)
(* The server for TLC. Two connections from one address, under every       *)
(* combination of what a server can be given with one handshake permit,    *)
(* and two permits with everything given; one connection from each of two  *)
(* addresses; one connection from three addresses, one more than the       *)
(* limiter tracks.                                                         *)
(***************************************************************************)
EXTENDS Server

CONSTANTS c1, c2, a, b, d

MCConn == {c1, c2}
MCAddr == {a, b, d}

Given(permits, origins) ==
    [require_nla : BOOLEAN, nla_credentials : BOOLEAN, credential_validator : BOOLEAN,
     MAX_CONCURRENT_HANDSHAKES : {permits}, origins : {origins}]

Full(setup) == setup.nla_credentials /\ setup.credential_validator

MCSetups ==
    Given(1, MCConn \X {a}) \cup
    {s \in Given(2, MCConn \X {a}) : Full(s)} \cup
    {s \in Given(1, {<<c1, a>>, <<c2, b>>}) : Full(s)} \cup
    {s \in Given(1, {c1} \X MCAddr) : Full(s)}
=============================================================================
