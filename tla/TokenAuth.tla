------------------------------ MODULE TokenAuth ------------------------------
(***************************************************************************)
(* Who a request comes from: TokenAuth::get_auth on the bearer token and   *)
(* the file of certificates, which update.sh downloads again and again     *)
(* while the server runs, and FakeAuth for test configurations.            *)
(*                                                                         *)
(* A token is Garbage, which jwt::decode rejects, or a record of what it   *)
(* claims: kid and alg in its header, signer for the key its signature was *)
(* made with, and the claims of its payload, Missing where there is none.  *)
(* The text of a token, JSON and RSA are left out; every exception they    *)
(* may throw ends in NO_AUTH.                                              *)
(***************************************************************************)
EXTENDS Integers

CONSTANTS
    Token,      \* the tokens clients send
    Kid,        \* ids of the issuer's keys
    KeyOf,      \* the key each id stands for
    ClientId,   \* client_id_
    Issuer,     \* issuer_
    AuthType,   \* "OAUTH" or "FAKE", from the configuration
    MaxTime,    \* bound on the clock
    Missing,    \* a claim a token does not have
    Garbage,    \* a token that cannot be decoded
    NoJson      \* a certificate file that is missing, empty or cut short

ASSUME TimeAssumption == MaxTime \in Nat
ASSUME AuthTypeAssumption == AuthType \in {"OAUTH", "FAKE"}
ASSUME MissingAssumption == Missing \notin Kid
ASSUME NoJsonAssumption == \A ids \in SUBSET Kid : NoJson # ids

VARIABLES
    published,  \* the ids of the keys the issuer publishes
    keyfile,    \* the file at public_key_path_: ids of certificates, or NoJson
    fetching,   \* update.sh: wget has opened the file and not closed it
    now         \* the clock

tokenVars == <<published, keyfile, fetching, now>>

-----------------------------------------------------------------------------
(* get_auth. *)

NoAuth == [level |-> "NO_AUTH", user |-> Missing]

\* The checks a verifier makes of itself: each only of a claim that is there.
InTime(t) ==
    /\ t.exp # Missing => now <= t.exp
    /\ t.iat # Missing => now >= t.iat
    /\ t.nbf # Missing => now >= t.nbf

\* cert_list[kid] is a certificate: as_string throws on the null that the
\* operator inserts for an unknown id.
HasCert(t) == keyfile # NoJson /\ t.kid # Missing /\ t.kid \in keyfile

\* Mutant: tokens for other clients of the issuer are accepted.
VerifiesAnyAudience(t) ==
    t.alg = "RS256" /\ t.signer = KeyOf[t.kid] /\ InTime(t) /\ t.iss = Issuer

\* The audience, then verifier.verify: algorithm, signature, times, issuer.
Verifies(t) ==
    /\ ClientId \in t.aud
    /\ t.alg = "RS256"
    /\ t.signer = KeyOf[t.kid]
    /\ InTime(t)
    /\ t.iss = Issuer

\* TokenAuth::get_auth.
TokenLevel(t) ==
    IF t # Garbage /\ HasCert(t) /\ Verifies(t) /\ t.sub # Missing /\ t.domain # Missing
    THEN [level |-> IF t.domain = "g.ucla.edu" THEN "PRIVATE_AUTH" ELSE "PUBLIC_AUTH",
          user |-> t.sub]
    ELSE NoAuth

\* FakeAuth::get_auth: three fixed texts.
FakeLevel(t) ==
    CASE t = "PRIVAUTH1" -> [level |-> "PRIVATE_AUTH", user |-> "priv1"]
      [] t = "PRIVAUTH2" -> [level |-> "PRIVATE_AUTH", user |-> "priv2"]
      [] t = "PUBAUTH1" -> [level |-> "PUBLIC_AUTH", user |-> "pub1"]
      [] OTHER -> NoAuth

GetAuth(t) == IF AuthType = "OAUTH" THEN TokenLevel(t) ELSE FakeLevel(t)

-----------------------------------------------------------------------------
(* The certificate file. *)

\* run.sh downloads the file once before it starts update.sh and the server.
TokenInit ==
    /\ published = Kid
    /\ keyfile \in {NoJson, published}
    /\ fetching = FALSE
    /\ now = 0

\* The issuer changes its keys.
Rotate ==
    /\ published' \in SUBSET Kid
    /\ UNCHANGED <<keyfile, fetching, now>>

\* Mutant: a file that is there is left alone (wget -nc).
WgetOpensMissing ==
    /\ ~fetching
    /\ keyfile = NoJson
    /\ fetching' = TRUE
    /\ UNCHANGED <<published, keyfile, now>>

\* wget -O opens the file, which truncates it, before it asks for anything.
WgetOpens ==
    /\ ~fetching
    /\ fetching' = TRUE
    /\ keyfile' = NoJson
    /\ UNCHANGED <<published, now>>

\* The download ends, or fails and leaves the file empty.
WgetStores ==
    /\ fetching
    /\ fetching' = FALSE
    /\ keyfile' = published
    /\ UNCHANGED <<published, now>>

WgetFails ==
    /\ fetching
    /\ fetching' = FALSE
    /\ UNCHANGED <<published, keyfile, now>>

Tick ==
    /\ now < MaxTime
    /\ now' = now + 1
    /\ UNCHANGED <<published, keyfile, fetching>>

TokenNext == Rotate \/ WgetOpens \/ WgetStores \/ WgetFails \/ Tick

TokenTypeOK ==
    /\ published \subseteq Kid
    /\ keyfile \in {NoJson} \cup SUBSET Kid
    /\ fetching \in BOOLEAN
    /\ now \in 0..MaxTime
=============================================================================
