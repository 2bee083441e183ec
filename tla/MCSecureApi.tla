----------------------------- MODULE MCSecureApi -----------------------------
(* Tokens and names for model checking SecureApi. *)
EXTENDS SecureApi

\* A token of user u, signed with the key of kid.
MCToken(u, domain, kid, aud, exp) ==
    [kid |-> kid, alg |-> "RS256", signer |-> "google", iss |-> "google", aud |-> {aud},
     iat |-> 0, nbf |-> Missing, exp |-> exp, sub |-> u, domain |-> domain]

\* Two private users and a public one; the first one's token expires.  Others
\* are for another client, signed by someone else, or not a token.
MCTokens ==
    {MCToken("u1", "g.ucla.edu", "k1", "kachow", 0),
     MCToken("u2", "g.ucla.edu", "k1", "kachow", 9),
     MCToken("p1", "gmail.com", "k1", "kachow", 9),
     MCToken("u1", "g.ucla.edu", "k1", "other", 9),
     [MCToken("u2", "g.ucla.edu", "k1", "kachow", 9) EXCEPT !.signer = "someone"],
     Garbage}

MCKid == {"k1"}
MCKeyOf == [k \in MCKid |-> "google"]

\* The public user asks for the name the first private user's entity has.
MCEntities == {"u1_shoes", "u2_shoes"}
MCPublicNames == {"u1_shoes"}
MCQualified == [p \in {<<"u1", "shoes">>, <<"u2", "shoes">>} |->
                    IF p[1] = "u1" THEN "u1_shoes" ELSE "u2_shoes"]

\* One private user of a test configuration.
MCFakeTokens == {"PRIVAUTH1", "PRIVAUTH"}
MCFakeEntities == {"priv1_shoes"}
MCFakeQualified == [p \in {<<"priv1", "shoes">>} |-> "priv1_shoes"]

MCOneFile == {"1"}
MCTwoFiles == {"1", "2"}
MCStoi == [n \in Name |-> CASE n = "1" -> 1 [] n = "2" -> 2 [] OTHER -> NotANumber]
MCToString == [i \in 1..MaxId |-> IF i = 1 THEN "1" ELSE "2"]
=============================================================================
