---------------------------- MODULE Credentials ----------------------------
(***************************************************************************)
(* Who a client says it is and whether that is accepted                    *)
(* (crates/rdpcore-server/src/credentials.rs and credssp.rs).              *)
(*                                                                         *)
(* Users and domains are names up to case. The username field of a client  *)
(* is a name that is local (".\user"), qualified by a domain (DOMAIN\user  *)
(* or user@domain) or plain; the empty name is NoName.                     *)
(***************************************************************************)

CONSTANTS
    Account,        \* the configured user
    Stranger,       \* any other one
    Domain,         \* a domain
    NoName,
    ExpectedDomain  \* the configured domain, or NoName when any will do

ASSUME CredentialsAssumption ==
    /\ Account \notin {Stranger, NoName} /\ Stranger # NoName
    /\ ExpectedDomain \in {Domain, NoName}

Users   == {Account, Stranger, NoName}
Domains == {Domain, NoName}

\* The username field: its form, and the names in it.
UserFields ==
    [form : {"plain", "local"}, user : Users, domain : {NoName}] \cup
    [form : {"qualified"}, user : Users, domain : Domains]

Identities == [username : UserFields, domain : Domains, password_ok : BOOLEAN]

\* The user and the domain a client means.
normalize_client_identity(id) ==
    [user   |-> id.username.user,
     domain |-> IF id.username.form = "plain" THEN id.domain ELSE id.username.domain]

DomainMatches(domain) == ExpectedDomain # NoName => domain = ExpectedDomain

validate(id) ==
    LET who == normalize_client_identity(id)
    IN  who.user = Account /\ id.password_ok /\ DomainMatches(who.domain)

\* The user CredSSP verifies, or NoName: a client whose identity is not the
\* configured one is verified against a dummy password, which no client has.
\* The name returned is the account part of the username as the sspi library
\* (external) split it; up to case that is what normalising leaves.
CredSspUser(id) ==
    LET who == normalize_client_identity(id)
    IN  IF who.user = Account /\ DomainMatches(who.domain) /\ id.password_ok
        THEN who.user ELSE NoName

\* Mutant: any user name will do once CredSSP has run.
client_info_is_authorized_any(nla_user, validator, id) ==
    IF nla_user # NoName THEN TRUE ELSE validator /\ validate(id)

\* validator: whether the server was given one.
client_info_is_authorized(nla_user, validator, id) ==
    IF nla_user # NoName
    THEN normalize_client_identity(id).user \in {NoName, nla_user}
    ELSE validator /\ validate(id)
=============================================================================
