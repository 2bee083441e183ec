------------------------------ MODULE SecureApi ------------------------------
(***************************************************************************)
(* SecureRequestHandlerAPI: the token decides which of two API handlers    *)
(* serves a request.  Private users have one below root/priv, where their  *)
(* user id is put before the entity's name; public users have one below    *)
(* root/pub.  The two share the entity_id_map of SecureAPIHandlerFactory,  *)
(* whose scan at start-up visits the root, that is priv and pub, and no    *)
(* entity.                                                                 *)
(*                                                                         *)
(* The body of a request is taken to be its token (Body = Token): what is  *)
(* stored and shown names who sent it.                                     *)
(***************************************************************************)
EXTENDS ApiData, TokenAuth

CONSTANTS
    Qualified,   \* user_id + "_" + s, for the pairs <<user_id, s>> asked for
    PublicName,  \* the entities public users ask for
    RootEntry,   \* the names "priv" and "pub"
    NoToken      \* an Authorization field of at most seven characters

ASSUME BodyAssumption == Body = Token

PrivateName == {Qualified[p] : p \in DOMAIN Qualified}

ASSUME NameAssumption == PrivateName \cup PublicName \subseteq EntityName

VARIABLES
    made,                 \* root/priv and root/pub exist
    privDirs, privFiles,  \* below root/priv
    pubDirs, pubFiles,    \* below root/pub
    entity_id_map,        \* SecureAPIHandlerFactory::entity_id_map
    up,                   \* FALSE once an undefined read has ended the process
    resp,                 \* the last response
    caller,               \* auxiliary: the token of the last request let through
    old                   \* auxiliary: entities of both groups at the last start

priv == <<privDirs, privFiles>>
pub == <<pubDirs, pubFiles>>
vars == <<made, priv, pub, entity_id_map, up, resp, caller, old, tokenVars>>

Priv == INSTANCE ApiHandler WITH
            OutsideEdits <- FALSE, Detours <- TRUE, dirs <- privDirs, files <- privFiles
Pub == INSTANCE ApiHandler WITH
           OutsideEdits <- FALSE, Detours <- TRUE, dirs <- pubDirs, files <- pubFiles

-----------------------------------------------------------------------------

\* scanFS of the root: the directories there are priv and pub, and these hold
\* no regular files.
ScanRoot == [e \in EntityName |-> IF made /\ e \in RootEntry THEN {} ELSE NoEntry]

NoAnswer == Priv!Plain("none", Absent, 0, 0)

Init ==
    /\ made = FALSE
    /\ privDirs = {} /\ privFiles = EmptyDisk
    /\ pubDirs = {} /\ pubFiles = EmptyDisk
    /\ entity_id_map = ScanRoot
    /\ up = TRUE
    /\ resp = NoAnswer
    /\ caller = NoToken
    /\ old = [priv |-> {}, pub |-> {}]
    /\ TokenInit

\* Mutant: the directories are not made.
ConstructNothing == UNCHANGED made

\* The constructor, run for every request: create_directory of priv and pub.
Construct == made' = TRUE

\* Without a token get_auth is not asked.
AuthOf(t) == IF t = NoToken THEN NoAuth ELSE GetAuth(t)

Receive(t) ==
    /\ up
    /\ Construct
    /\ caller' = IF AuthOf(t).level = "NO_AUTH" THEN NoToken ELSE t
    /\ UNCHANGED <<old, tokenVars>>

\* No token, or NO_AUTH: 401.
Unauthorized(t) ==
    /\ AuthOf(t).level = "NO_AUTH"
    /\ Receive(t)
    /\ resp' = Priv!Plain("other", Absent, 0, 401)
    /\ UNCHANGED <<priv, pub, entity_id_map, up>>

\* Mutant: the target is left as it is.
AnyPrivate(t) == PrivateName

\* The user id is put into the target of a private user's request.
OwnTargets(t) == {Qualified[p] : p \in {q \in DOMAIN Qualified : q[1] = AuthOf(t).user}}

ServePrivate(t) ==
    /\ AuthOf(t).level = "PRIVATE_AUTH"
    /\ Receive(t)
    /\ \/ Priv!Refuse
       \/ \E e \in OwnTargets(t) : Priv!Serve(e, {t})
    /\ UNCHANGED pub

ServePublic(t) ==
    /\ AuthOf(t).level = "PUBLIC_AUTH"
    /\ Receive(t)
    /\ \/ Pub!Refuse
       \/ \E e \in PublicName : Pub!Serve(e, {t})
    /\ UNCHANGED priv

\* A GET or DELETE by a target of more segments, in which ".." leads from the
\* directory it starts with to any entity of either group.  That is root/pub
\* for public users; for a private user it is a directory of his own, as his
\* user id is put before the first segment.
StartsAt(t) == AuthOf(t).level = "PRIVATE_AUTH" => OwnTargets(t) \cap privDirs # {}

ServeDetour(t) ==
    /\ AuthOf(t).level # "NO_AUTH"
    /\ Receive(t)
    /\ StartsAt(t)
    /\ \E e \in EntityName, n \in FileName :
           \/ Priv!Detour(e, n) /\ UNCHANGED pub
           \/ Pub!Detour(e, n) /\ UNCHANGED priv

\* The process ends and is started again; nothing of the index is kept.
Restart ==
    /\ entity_id_map' = ScanRoot
    /\ up' = TRUE
    /\ old' = [priv |-> privDirs, pub |-> pubDirs]
    /\ resp' = NoAnswer
    /\ caller' = NoToken
    /\ UNCHANGED <<made, priv, pub, tokenVars>>

ApiUnchanged == UNCHANGED <<made, priv, pub, entity_id_map, up, resp, caller, old>>

Next ==
    \/ \E t \in Token \cup {NoToken} :
           Unauthorized(t) \/ ServePrivate(t) \/ ServePublic(t) \/ ServeDetour(t)
    \/ Restart
    \/ TokenNext /\ ApiUnchanged

Spec == Init /\ [][Next]_vars

-----------------------------------------------------------------------------

TypeOK ==
    /\ TokenTypeOK
    /\ made \in BOOLEAN /\ up \in BOOLEAN
    /\ privDirs \subseteq EntityName /\ privFiles \in DiskType
    /\ pubDirs \subseteq EntityName /\ pubFiles \in DiskType
    /\ made \/ privDirs \cup pubDirs = {}
    /\ entity_id_map \in MapType
    /\ caller \in Token \cup {NoToken}
    /\ old.priv \subseteq privDirs /\ old.pub \subseteq pubDirs

\* No two users' entities have one name: user_id + "_" + s is unambiguous when
\* no user id continues another one after a "_".  The issuer's user ids are
\* numbers; the code does not check it, and the theorem that needs it says so.
UsersApart ==
    \A p, q \in DOMAIN Qualified : Qualified[p] = Qualified[q] => p[1] = q[1]

\* A token the issuer has made for this server, whatever the files say now.
Genuine(t) ==
    /\ t \notin {Garbage, NoToken}
    /\ t.kid \in Kid /\ t.alg = "RS256" /\ t.signer = KeyOf[t.kid]
    /\ ClientId \in t.aud /\ t.iss = Issuer

IsPrivate(t) == t.domain = "g.ucla.edu"

\* "We want their data to be stored in separate directories.  Otherwise public
\* users would be able to access the data of private users": what lies below
\* priv under a private user's name was sent with a genuine token of that
\* user, what lies below pub with a genuine one of a public user; a body is
\* shown to a genuine token only; and to a request by a target of one or two
\* segments only a body of the caller, or of the public.  Restarts, keys that
\* change and names both groups use make no difference.  Longer targets are
\* not kept to the caller's data, and the property claims nothing of the kind.
OwnDataOnly ==
    /\ \A e \in EntityName, n \in FileName :
           /\ privFiles[e][n] # Absent =>
                  /\ Genuine(privFiles[e][n]) /\ IsPrivate(privFiles[e][n])
                  /\ \E p \in DOMAIN Qualified : p[1] = privFiles[e][n].sub /\ Qualified[p] = e
           /\ pubFiles[e][n] # Absent => Genuine(pubFiles[e][n]) /\ ~IsPrivate(pubFiles[e][n])
    /\ up /\ resp.body # Absent =>
           /\ Genuine(caller)
           /\ resp.op # "detour" =>
                  IF IsPrivate(caller) THEN IsPrivate(resp.body) /\ resp.body.sub = caller.sub
                  ELSE ~IsPrivate(resp.body)

\* A genuine token by a longer target removes a file, and does nothing else to it.
RemovedByDetour(file) == Genuine(caller') /\ resp'.op = "detour" /\ file = Absent

\* The step replaces an item below priv only for a genuine token of the user
\* who stored it, below pub only for one of a public user, and removes it only
\* for these or by a longer target.
OwnersOnly ==
    \A e \in EntityName, n \in FileName :
        /\ privFiles[e][n] # Absent /\ privFiles'[e][n] # privFiles[e][n] =>
               \/ Genuine(caller') /\ IsPrivate(caller') /\ caller'.sub = privFiles[e][n].sub
               \/ RemovedByDetour(privFiles'[e][n])
        /\ pubFiles'[e][n] # pubFiles[e][n] =>
               \/ Genuine(caller') /\ ~IsPrivate(caller')
               \/ RemovedByDetour(pubFiles'[e][n])

\* What a user has stored, get_response of no other user's request replaces, and
\* none by a target of one or two segments removes; a request with a forged
\* token or one for another client does neither, nor does a start of the
\* process.
OwnersOnlyChange == [][OwnersOnly]_vars

\* "When call this function, the map must have key of entity" (get_next_id):
\* it has for entities made since the last start, in either group; the process
\* dies of a missing key only when an entity is older than that.
KeysSinceStart ==
    /\ ~up => old.priv \cup old.pub # {}
    /\ \A e \in (privDirs \ old.priv) \cup (pubDirs \ old.pub) : entity_id_map[e] # NoEntry

\* The id that a private user's POST answers is one that had no file.
CreatesNew(e, b) == Priv!Post(e, b) /\ up' => privFiles[e][ToString[resp'.id]] = Absent

\* In an entity made since the last start POST replaces nothing, although the
\* index is shared with public users, unless these ask for the very name the
\* entity has: what they do to it then changes the ids of both.
NewEntitiesNeverOverwritten ==
    [][\A e \in EntityName \ (old.priv \cup PublicName), b \in Token : CreatesNew(e, b)]_vars

\* "Given entity, return next available ID" (get_next_id).
PostsNeverOverwrite == [][\A e \in EntityName, b \in Token : CreatesNew(e, b)]_vars

-----------------------------------------------------------------------------
(* Fairness: update.sh is an endless loop, and wget ends one way or another. *)

FairSpec ==
    /\ Spec
    /\ WF_vars(WgetOpens /\ ApiUnchanged)
    /\ WF_vars((WgetStores \/ WgetFails) /\ ApiUnchanged)

\* A key the issuer has withdrawn for good is finally refused for good, also
\* when downloads fail.
WithdrawnKeysRefused ==
    \A k \in Kid : <>[](k \notin published) => <>[](keyfile = NoJson \/ k \notin keyfile)

\* A key the issuer keeps publishing is in the file again and again, as long
\* as downloads do not fail for ever: a request that met the file while it was
\* being replaced succeeds when it is repeated.
PublishedKeysReturn ==
    SF_vars(WgetStores /\ ApiUnchanged) =>
        \A k \in Kid : <>[](k \in published) => []<>(keyfile # NoJson /\ k \in keyfile)
=============================================================================
