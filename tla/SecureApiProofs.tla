-------------------------- MODULE SecureApiProofs --------------------------
(***************************************************************************)
(* Theorems about SecureApi for every set of users, tokens, names, bodies  *)
(* and ids.                                                                *)
(*                                                                         *)
(* A request of either side of the root is one of six outcomes (Outcome),  *)
(* whichever method asks and whichever spelling the target has; Effect is  *)
(* what all six have in common, and every invariant below follows from it  *)
(* and from what TokenAuth lets through.  KeyInv carries TypeOK and        *)
(* KeysSinceStart; whose data is where (OwnDataOnly) is inductive with it, *)
(* and so is NewCovered, from which a POST's id is new.  A longer target   *)
(* only ever removes files (DetourStep).                                   *)
(***************************************************************************)
EXTENDS SecureApi, ApiDataProofs

-----------------------------------------------------------------------------
(* What a request does on either side of the root: s is what it finds there,  *)
(* s2 what it leaves.                                                         *)

\* What a request to a private entity reads and changes.
PrivState ==
    [dirs |-> privDirs, files |-> privFiles, map |-> entity_id_map, up |-> up, body |-> resp.body]

\* What a request to a public entity reads and changes.
PubState ==
    [dirs |-> pubDirs, files |-> pubFiles, map |-> entity_id_map, up |-> up, body |-> resp.body]

\* Every numeric file of e has its id in the index.
Covered(f, map, e) ==
    \A n \in FileName : Numeric(n) /\ f[e][n] # Absent => map[e] # NoEntry /\ Stoi[n] \in map[e]

\* An answer without a body, and nothing changed.
Silent(s, s2) ==
    s2.dirs = s.dirs /\ s2.files = s.files /\ s2.map = s.map /\ s2.up = s.up /\ s2.body = Absent

\* GET of a file that is gone takes its id out of the index.
Forgot(s, s2, e) ==
    /\ s2.dirs = s.dirs /\ s2.files = s.files /\ s2.up = s.up /\ s2.body = Absent
    /\ \E i : /\ s2.map = EraseIfExist(s.map, e, i)
              /\ Canonical => \A n \in FileName : Numeric(n) /\ Stoi[n] = i => s.files[e][n] = Absent

\* GET of a file answers its content and puts its id into the index.
Showed(s, s2, e) ==
    \E n \in FileName :
        /\ Numeric(n) /\ s.files[e][n] # Absent
        /\ s2.dirs = s.dirs /\ s2.files = s.files /\ s2.up = s.up /\ s2.body = s.files[e][n]
        /\ s2.map = InsertIfNotExist(s.map, e, Stoi[n])

\* POST and PUT write the body, after making the directory.
Stored(s, s2, e, t) ==
    \E n \in FileName :
        /\ Numeric(n)
        /\ s2.dirs = s.dirs \cup {e} /\ s2.files = WriteFile(s.files, e, n, t) /\ s2.up = s.up /\ s2.body = Absent
        /\ s2.map = InsertIfNotExist(s.map, e, Stoi[n])

\* DELETE removes a file and its id.
Removed(s, s2, e) ==
    \E n \in FileName :
        /\ s.files[e][n] # Absent
        /\ s2.dirs = s.dirs /\ s2.files = WriteFile(s.files, e, n, Absent) /\ s2.up = s.up /\ s2.body = Absent
        /\ s2.map = IF Numeric(n) THEN EraseIfExist(s.map, e, Stoi[n])
                            ELSE s.map

\* POST to a directory without a key: get_next_id reads map::end().
Died(s, s2, e) ==
    /\ e \in s.dirs /\ s.map[e] = NoEntry
    /\ s2.dirs = s.dirs /\ s2.files = s.files /\ s2.map = s.map /\ s2.body = s.body /\ s2.up = FALSE

\* Every request to entity e with body t is one of these.
Outcome(s, s2, e, t) ==
    \/ Silent(s, s2) \/ Forgot(s, s2, e) \/ Showed(s, s2, e)
    \/ Stored(s, s2, e, t) \/ Removed(s, s2, e) \/ Died(s, s2, e)

\* What the outcomes have in common: only files of e change, to nothing or to the
\* body t; keys stay; the answer is empty or the content of a file of e.
Effect(s, s2, e, t) ==
    /\ s.dirs \subseteq s2.dirs /\ s2.dirs \subseteq s.dirs \cup {e}
    /\ s2.files \in DiskType
    /\ \A x \in EntityName, n \in FileName :
           s2.files[x][n] = s.files[x][n] \/ (x = e /\ s2.files[x][n] \in {Absent, t})
    /\ \A n \in FileName : s2.files[e][n] # s.files[e][n] /\ s2.files[e][n] # Absent => e \in s2.dirs
    /\ s2.map \in MapType
    /\ \A x \in EntityName : s.map[x] # NoEntry => s2.map[x] # NoEntry
    /\ \A x \in EntityName : x # e => s2.map[x] = s.map[x]
    /\ e \notin s.dirs /\ e \in s2.dirs => s2.map[e] # NoEntry
    /\ s2.up \in BOOLEAN
    /\ ~s2.up => e \in s.dirs /\ s.map[e] = NoEntry
    /\ s2.up => \/ s2.body = Absent
              \/ \E n \in FileName : s.files[e][n] # Absent /\ s2.body = s.files[e][n]
    /\ Canonical /\ Covered(s.files, s.map, e) => Covered(s2.files, s2.map, e)

\* Every outcome has the effect.
LEMMA OutcomeEffect ==
    ASSUME NEW s, NEW s2, s.files \in DiskType, NEW e \in EntityName, NEW t \in Body,
           s.map \in MapType, s.up = TRUE, Outcome(s, s2, e, t)
    PROVE  Effect(s, s2, e, t)
<1>1. CASE Silent(s, s2)
  BY <1>1 DEF Silent, Covered, Effect
<1>2. CASE Forgot(s, s2, e)
  <2>1. PICK i : /\ s2.map = EraseIfExist(s.map, e, i)
                 /\ Canonical => \A n \in FileName : Numeric(n) /\ Stoi[n] = i => s.files[e][n] = Absent
    BY <1>2 DEF Forgot
  <2>2. s2.dirs = s.dirs /\ s2.files = s.files /\ s2.up = s.up /\ s2.body = Absent
    BY <1>2 DEF Forgot
  <2>3. /\ s2.map \in MapType
        /\ s.map[e] # NoEntry => /\ s2.map[e] # NoEntry
                                         /\ s2.map[e] = s.map[e] \ {i}
        /\ s.map[e] = NoEntry => s2.map = s.map
        /\ \A x \in EntityName : x # e => s2.map[x] = s.map[x]
    BY <2>1, EraseType
  <2>4. Canonical /\ Covered(s.files, s.map, e) => Covered(s2.files, s2.map, e)
    BY <2>1, <2>2, <2>3 DEF Covered
  <2> QED
    BY <2>2, <2>3, <2>4 DEF Effect
<1>3. CASE Showed(s, s2, e)
  <2>1. PICK n \in FileName :
          /\ Numeric(n) /\ s.files[e][n] # Absent
          /\ s2.dirs = s.dirs /\ s2.files = s.files /\ s2.up = s.up /\ s2.body = s.files[e][n]
          /\ s2.map = InsertIfNotExist(s.map, e, Stoi[n])
    BY <1>3 DEF Showed
  <2>2. Stoi[n] \in FileId
    BY <2>1, StoiIsFileId
  <2>3. /\ s2.map \in MapType
        /\ s2.map[e] # NoEntry
        /\ s.map[e] # NoEntry => s2.map[e] = s.map[e] \cup {Stoi[n]}
        /\ \A x \in EntityName : x # e => s2.map[x] = s.map[x]
    BY <2>1, <2>2, InsertType
  <2>4. Covered(s.files, s.map, e) => Covered(s2.files, s2.map, e)
    BY <2>1, <2>3 DEF Covered
  <2> QED
    BY <2>1, <2>3, <2>4 DEF Effect
<1>4. CASE Stored(s, s2, e, t)
  <2>1. PICK n \in FileName :
          /\ Numeric(n)
          /\ s2.dirs = s.dirs \cup {e} /\ s2.files = WriteFile(s.files, e, n, t) /\ s2.up = s.up /\ s2.body = Absent
          /\ s2.map = InsertIfNotExist(s.map, e, Stoi[n])
    BY <1>4 DEF Stored
  <2>2. Stoi[n] \in FileId
    BY <2>1, StoiIsFileId
  <2>3. /\ s2.map \in MapType
        /\ s2.map[e] # NoEntry
        /\ s.map[e] = NoEntry => s2.map[e] = {Stoi[n]}
        /\ s.map[e] # NoEntry => s2.map[e] = s.map[e] \cup {Stoi[n]}
        /\ \A x \in EntityName : x # e => s2.map[x] = s.map[x]
    BY <2>1, <2>2, InsertType
  <2>4. /\ s2.files \in DiskType
        /\ s2.files[e][n] = t
        /\ \A x \in EntityName, m \in FileName : x # e \/ m # n => s2.files[x][m] = s.files[x][m]
    BY <2>1, WriteFileType
  <2>5. Covered(s.files, s.map, e) => Covered(s2.files, s2.map, e)
    BY <2>3, <2>4 DEF Covered
  <2> QED
    BY <2>1, <2>3, <2>4, <2>5 DEF Effect
<1>5. CASE Removed(s, s2, e)
  <2>1. PICK n \in FileName :
          /\ s.files[e][n] # Absent
          /\ s2.dirs = s.dirs /\ s2.files = WriteFile(s.files, e, n, Absent) /\ s2.up = s.up /\ s2.body = Absent
          /\ s2.map = IF Numeric(n) THEN EraseIfExist(s.map, e, Stoi[n])
                              ELSE s.map
    BY <1>5 DEF Removed
  <2>2. /\ s2.files \in DiskType
        /\ s2.files[e][n] = Absent
        /\ \A x \in EntityName, m \in FileName : x # e \/ m # n => s2.files[x][m] = s.files[x][m]
    BY <2>1, WriteFileType
  <2>3. /\ s2.map \in MapType
        /\ s.map[e] # NoEntry => /\ s2.map[e] # NoEntry
                                         /\ \A j \in s.map[e] :
                                                (Numeric(n) /\ j = Stoi[n]) \/ j \in s2.map[e]
        /\ s.map[e] = NoEntry => s2.map = s.map
        /\ \A x \in EntityName : x # e => s2.map[x] = s.map[x]
    BY <2>1, EraseType
  <2>4. Canonical /\ Covered(s.files, s.map, e) => Covered(s2.files, s2.map, e)
    BY <2>2, <2>3 DEF Covered, Canonical, CanonicalIds, Numeric
  <2> QED
    BY <2>1, <2>2, <2>3, <2>4 DEF Effect
<1>6. CASE Died(s, s2, e)
  BY <1>6 DEF Died, Covered, Effect
<1> QED
  BY <1>1, <1>2, <1>3, <1>4, <1>5, <1>6 DEF Outcome

\* A request on the priv side is one of the outcomes.
LEMMA PrivOutcome ==
    ASSUME entity_id_map \in MapType, up \in BOOLEAN, NEW e \in EntityName, NEW t \in Body,
           Priv!Serve(e, {t})
    PROVE  up = TRUE /\ Outcome(PrivState, PrivState', e, t)
<1>1. CASE Priv!Post(e, t)
  <2> DEFINE m == IF e \in privDirs THEN entity_id_map ELSE InsertKey(entity_id_map, e)
  <2>1. up = TRUE /\ privDirs' = privDirs \cup {e}
    BY <1>1 DEF Priv!Post
  <2>2. CASE m[e] = NoEntry
    <3>1. e \in privDirs
      BY <2>2, InsertKeyType
    <3>2. Died(PrivState, PrivState', e)
      BY <1>1, <2>1, <2>2, <3>1 DEF PrivState, Priv!Post, Died
    <3> QED
      BY <2>1, <3>2 DEF Outcome
  <2>3. CASE m[e] # NoEntry
    <3>1. PICK id \in 1..MaxId :
            /\ entity_id_map' = [m EXCEPT ![e] = m[e] \cup {id}]
            /\ privFiles' = WriteFile(privFiles, e, ToString[id], t)
            /\ resp'.body = Absent
            /\ up' = up
      <4>1. Priv!InsertKey(entity_id_map, e) = InsertKey(entity_id_map, e)
        BY DEF Priv!InsertKey, InsertKey
      <4>2. \A n : Priv!WriteFile(privFiles, e, n, t) = WriteFile(privFiles, e, n, t)
        BY DEF Priv!WriteFile, WriteFile
      <4>3. \A id : Priv!Plain("create", e, id, 201).body = Absent
        BY DEF Priv!Plain, Priv!Reply
      <4> QED
        BY <1>1, <2>3, <4>1, <4>2, <4>3 DEF Priv!Post
    <3>2. ToString[id] \in FileName /\ Numeric(ToString[id]) /\ Stoi[ToString[id]] = id
      BY NewIdIsFileId
    <3>3. entity_id_map' = InsertIfNotExist(entity_id_map, e, id)
      <4>1. CASE e \in privDirs
        BY <2>3, <3>1, <4>1 DEF InsertIfNotExist, MapType
      <4>2. CASE e \notin privDirs
        <5>1. {id} = {} \cup {id}
          OBVIOUS
        <5> QED
          BY <3>1, <4>2, <5>1 DEF InsertIfNotExist, InsertKey, MapType
      <4> QED
        BY <4>1, <4>2
    <3>4. Stored(PrivState, PrivState', e, t)
      BY <2>1, <3>1, <3>2, <3>3 DEF PrivState, Stored
    <3> QED
      BY <2>1, <3>4 DEF Outcome
  <2> QED
    BY <2>2, <2>3
<1>2. CASE Priv!List(e)
  BY <1>2 DEF PrivState, Priv!List, Priv!Plain, Priv!ListReply, Priv!Reply, Silent, Outcome
<1>3. CASE Priv!GetNumericEntity(e)
  <2>1. /\ up = TRUE /\ privDirs' = privDirs /\ privFiles' = privFiles /\ up' = up /\ resp'.body = Absent
        /\ entity_id_map' = EraseIfExist(entity_id_map, e, Stoi[e])
        /\ Stoi[e] # NotANumber
    BY <1>3 DEF Priv!GetNumericEntity, Priv!Plain, Priv!Reply, Priv!EraseIfExist, EraseIfExist, Priv!IdOf,
                Priv!Numeric
  <2>2. Forgot(PrivState, PrivState', e)
    BY <2>1 DEF PrivState, Forgot, Canonical, EntitiesAreNotIds
  <2> QED
    BY <2>1, <2>2 DEF Outcome
<1>4. ASSUME NEW n \in FileName, Priv!Retrieve(e, n)
      PROVE  up = TRUE /\ Outcome(PrivState, PrivState', e, t)
  <2>1. /\ up = TRUE /\ privDirs' = privDirs /\ privFiles' = privFiles /\ up' = up /\ Numeric(n)
        /\ privFiles[e][n] = Absent => /\ resp'.body = Absent
                                /\ entity_id_map' = EraseIfExist(entity_id_map, e, Stoi[n])
        /\ privFiles[e][n] # Absent => /\ resp'.body = privFiles[e][n]
                                /\ entity_id_map' = InsertIfNotExist(entity_id_map, e, Stoi[n])
    BY <1>4 DEF Priv!Retrieve, Priv!Plain, Priv!Reply, Priv!EraseIfExist, EraseIfExist, Priv!IdOf, Priv!Numeric,
                Numeric, Priv!InsertIfNotExist, InsertIfNotExist
  <2>2. CASE privFiles[e][n] = Absent
    <3>1. Canonical => \A m \in FileName : Numeric(m) /\ Stoi[m] = Stoi[n] => privFiles[e][m] = Absent
      BY <2>2 DEF Canonical, CanonicalIds, Numeric
    <3>2. Forgot(PrivState, PrivState', e)
      BY <2>1, <2>2, <3>1 DEF PrivState, Forgot
    <3> QED
      BY <2>1, <3>2 DEF Outcome
  <2>3. CASE privFiles[e][n] # Absent
    BY <2>1, <2>3 DEF PrivState, Showed, Outcome
  <2> QED
    BY <2>2, <2>3
<1>5. ASSUME NEW n \in FileName, Priv!GetZero(e, n)
      PROVE  up = TRUE /\ Outcome(PrivState, PrivState', e, t)
  BY <1>5 DEF PrivState, Priv!GetZero, Priv!Plain, Priv!ListReply, Priv!Reply, Silent, Outcome
<1>6. ASSUME NEW n \in FileName, Priv!Delete(e, n)
      PROVE  up = TRUE /\ Outcome(PrivState, PrivState', e, t)
  <2>1. up = TRUE /\ privDirs' = privDirs /\ up' = up /\ resp'.body = Absent
    BY <1>6 DEF Priv!Delete, Priv!Plain, Priv!Reply
  <2>2. CASE privFiles[e][n] = Absent
    BY <1>6, <2>1, <2>2 DEF PrivState, Priv!Delete, Silent, Outcome
  <2>3. CASE privFiles[e][n] # Absent
    <3>1. /\ privFiles' = WriteFile(privFiles, e, n, Absent)
          /\ entity_id_map' = IF Numeric(n) THEN EraseIfExist(entity_id_map, e, Stoi[n])
                              ELSE entity_id_map
      BY <1>6, <2>3 DEF Priv!Delete, Priv!WriteFile, WriteFile, Priv!Numeric, Numeric, Priv!EraseIfExist,
                        EraseIfExist
    <3> QED
      BY <2>1, <2>3, <3>1 DEF PrivState, Removed, Outcome
  <2> QED
    BY <2>2, <2>3
<1>7. ASSUME NEW n \in FileName, Priv!Put(e, n, t)
      PROVE  up = TRUE /\ Outcome(PrivState, PrivState', e, t)
  <2>1. /\ up = TRUE /\ privDirs' = privDirs \cup {e} /\ up' = up /\ Numeric(n) /\ resp'.body = Absent
        /\ privFiles' = WriteFile(privFiles, e, n, t)
        /\ entity_id_map' = InsertIfNotExist(entity_id_map, e, Stoi[n])
    BY <1>7 DEF Priv!Put, Priv!Plain, Priv!Reply, Priv!WriteFile, WriteFile, Priv!IdOf, Priv!Numeric, Numeric,
                Priv!InsertIfNotExist, InsertIfNotExist
  <2> QED
    BY <2>1 DEF PrivState, Stored, Outcome
<1> QED
  BY <1>1, <1>2, <1>3, <1>4, <1>5, <1>6, <1>7 DEF Priv!Serve

\* A request on the pub side is one of the outcomes.
LEMMA PubOutcome ==
    ASSUME entity_id_map \in MapType, up \in BOOLEAN, NEW e \in EntityName, NEW t \in Body,
           Pub!Serve(e, {t})
    PROVE  up = TRUE /\ Outcome(PubState, PubState', e, t)
<1>1. CASE Pub!Post(e, t)
  <2> DEFINE m == IF e \in pubDirs THEN entity_id_map ELSE InsertKey(entity_id_map, e)
  <2>1. up = TRUE /\ pubDirs' = pubDirs \cup {e}
    BY <1>1 DEF Pub!Post
  <2>2. CASE m[e] = NoEntry
    <3>1. e \in pubDirs
      BY <2>2, InsertKeyType
    <3>2. Died(PubState, PubState', e)
      BY <1>1, <2>1, <2>2, <3>1 DEF PubState, Pub!Post, Died
    <3> QED
      BY <2>1, <3>2 DEF Outcome
  <2>3. CASE m[e] # NoEntry
    <3>1. PICK id \in 1..MaxId :
            /\ entity_id_map' = [m EXCEPT ![e] = m[e] \cup {id}]
            /\ pubFiles' = WriteFile(pubFiles, e, ToString[id], t)
            /\ resp'.body = Absent
            /\ up' = up
      <4>1. Pub!InsertKey(entity_id_map, e) = InsertKey(entity_id_map, e)
        BY DEF Pub!InsertKey, InsertKey
      <4>2. \A n : Pub!WriteFile(pubFiles, e, n, t) = WriteFile(pubFiles, e, n, t)
        BY DEF Pub!WriteFile, WriteFile
      <4>3. \A id : Pub!Plain("create", e, id, 201).body = Absent
        BY DEF Pub!Plain, Pub!Reply
      <4> QED
        BY <1>1, <2>3, <4>1, <4>2, <4>3 DEF Pub!Post
    <3>2. ToString[id] \in FileName /\ Numeric(ToString[id]) /\ Stoi[ToString[id]] = id
      BY NewIdIsFileId
    <3>3. entity_id_map' = InsertIfNotExist(entity_id_map, e, id)
      <4>1. CASE e \in pubDirs
        BY <2>3, <3>1, <4>1 DEF InsertIfNotExist, MapType
      <4>2. CASE e \notin pubDirs
        <5>1. {id} = {} \cup {id}
          OBVIOUS
        <5> QED
          BY <3>1, <4>2, <5>1 DEF InsertIfNotExist, InsertKey, MapType
      <4> QED
        BY <4>1, <4>2
    <3>4. Stored(PubState, PubState', e, t)
      BY <2>1, <3>1, <3>2, <3>3 DEF PubState, Stored
    <3> QED
      BY <2>1, <3>4 DEF Outcome
  <2> QED
    BY <2>2, <2>3
<1>2. CASE Pub!List(e)
  BY <1>2 DEF PubState, Pub!List, Pub!Plain, Pub!ListReply, Pub!Reply, Silent, Outcome
<1>3. CASE Pub!GetNumericEntity(e)
  <2>1. /\ up = TRUE /\ pubDirs' = pubDirs /\ pubFiles' = pubFiles /\ up' = up /\ resp'.body = Absent
        /\ entity_id_map' = EraseIfExist(entity_id_map, e, Stoi[e])
        /\ Stoi[e] # NotANumber
    BY <1>3 DEF Pub!GetNumericEntity, Pub!Plain, Pub!Reply, Pub!EraseIfExist, EraseIfExist, Pub!IdOf,
                Pub!Numeric
  <2>2. Forgot(PubState, PubState', e)
    BY <2>1 DEF PubState, Forgot, Canonical, EntitiesAreNotIds
  <2> QED
    BY <2>1, <2>2 DEF Outcome
<1>4. ASSUME NEW n \in FileName, Pub!Retrieve(e, n)
      PROVE  up = TRUE /\ Outcome(PubState, PubState', e, t)
  <2>1. /\ up = TRUE /\ pubDirs' = pubDirs /\ pubFiles' = pubFiles /\ up' = up /\ Numeric(n)
        /\ pubFiles[e][n] = Absent => /\ resp'.body = Absent
                                /\ entity_id_map' = EraseIfExist(entity_id_map, e, Stoi[n])
        /\ pubFiles[e][n] # Absent => /\ resp'.body = pubFiles[e][n]
                                /\ entity_id_map' = InsertIfNotExist(entity_id_map, e, Stoi[n])
    BY <1>4 DEF Pub!Retrieve, Pub!Plain, Pub!Reply, Pub!EraseIfExist, EraseIfExist, Pub!IdOf, Pub!Numeric,
                Numeric, Pub!InsertIfNotExist, InsertIfNotExist
  <2>2. CASE pubFiles[e][n] = Absent
    <3>1. Canonical => \A m \in FileName : Numeric(m) /\ Stoi[m] = Stoi[n] => pubFiles[e][m] = Absent
      BY <2>2 DEF Canonical, CanonicalIds, Numeric
    <3>2. Forgot(PubState, PubState', e)
      BY <2>1, <2>2, <3>1 DEF PubState, Forgot
    <3> QED
      BY <2>1, <3>2 DEF Outcome
  <2>3. CASE pubFiles[e][n] # Absent
    BY <2>1, <2>3 DEF PubState, Showed, Outcome
  <2> QED
    BY <2>2, <2>3
<1>5. ASSUME NEW n \in FileName, Pub!GetZero(e, n)
      PROVE  up = TRUE /\ Outcome(PubState, PubState', e, t)
  BY <1>5 DEF PubState, Pub!GetZero, Pub!Plain, Pub!ListReply, Pub!Reply, Silent, Outcome
<1>6. ASSUME NEW n \in FileName, Pub!Delete(e, n)
      PROVE  up = TRUE /\ Outcome(PubState, PubState', e, t)
  <2>1. up = TRUE /\ pubDirs' = pubDirs /\ up' = up /\ resp'.body = Absent
    BY <1>6 DEF Pub!Delete, Pub!Plain, Pub!Reply
  <2>2. CASE pubFiles[e][n] = Absent
    BY <1>6, <2>1, <2>2 DEF PubState, Pub!Delete, Silent, Outcome
  <2>3. CASE pubFiles[e][n] # Absent
    <3>1. /\ pubFiles' = WriteFile(pubFiles, e, n, Absent)
          /\ entity_id_map' = IF Numeric(n) THEN EraseIfExist(entity_id_map, e, Stoi[n])
                              ELSE entity_id_map
      BY <1>6, <2>3 DEF Pub!Delete, Pub!WriteFile, WriteFile, Pub!Numeric, Numeric, Pub!EraseIfExist,
                        EraseIfExist
    <3> QED
      BY <2>1, <2>3, <3>1 DEF PubState, Removed, Outcome
  <2> QED
    BY <2>2, <2>3
<1>7. ASSUME NEW n \in FileName, Pub!Put(e, n, t)
      PROVE  up = TRUE /\ Outcome(PubState, PubState', e, t)
  <2>1. /\ up = TRUE /\ pubDirs' = pubDirs \cup {e} /\ up' = up /\ Numeric(n) /\ resp'.body = Absent
        /\ pubFiles' = WriteFile(pubFiles, e, n, t)
        /\ entity_id_map' = InsertIfNotExist(entity_id_map, e, Stoi[n])
    BY <1>7 DEF Pub!Put, Pub!Plain, Pub!Reply, Pub!WriteFile, WriteFile, Pub!IdOf, Pub!Numeric, Numeric,
                Pub!InsertIfNotExist, InsertIfNotExist
  <2> QED
    BY <2>1 DEF PubState, Stored, Outcome
<1> QED
  BY <1>1, <1>2, <1>3, <1>4, <1>5, <1>6, <1>7 DEF Pub!Serve

LEMMA PrivStates ==
    /\ PrivState.dirs = privDirs /\ PrivState.files = privFiles /\ PrivState.map = entity_id_map
    /\ PrivState.up = up /\ PrivState.body = resp.body
    /\ PrivState'.dirs = privDirs' /\ PrivState'.files = privFiles' /\ PrivState'.map = entity_id_map'
    /\ PrivState'.up = up' /\ PrivState'.body = resp'.body
BY DEF PrivState

LEMMA PubStates ==
    /\ PubState.dirs = pubDirs /\ PubState.files = pubFiles /\ PubState.map = entity_id_map
    /\ PubState.up = up /\ PubState.body = resp.body
    /\ PubState'.dirs = pubDirs' /\ PubState'.files = pubFiles' /\ PubState'.map = entity_id_map'
    /\ PubState'.up = up' /\ PubState'.body = resp'.body
BY DEF PubState

-----------------------------------------------------------------------------
(* The requests of the two groups. *)

LEMMA AuthIsToken ==
    ASSUME NEW t \in Token \cup {NoToken}, AuthOf(t).level # "NO_AUTH"
    PROVE  t \in Body /\ t # NoToken
BY BodyAssumption DEF AuthOf, NoAuth

\* A private user's request changes nothing below pub, and below priv only the
\* entity with the user's id before its name.
LEMMA PrivateStep ==
    ASSUME TypeOK, NEW t \in Token \cup {NoToken}, ServePrivate(t)
    PROVE  /\ t \in Body /\ t # NoToken
           /\ UNCHANGED <<pubDirs, pubFiles, old, tokenVars>> /\ made' = TRUE /\ caller' = t
           /\ \/ Silent(PrivState, PrivState')
              \/ \E p \in DOMAIN Qualified :
                     /\ p[1] = AuthOf(t).user /\ Qualified[p] \in EntityName
                     /\ up = TRUE
                     /\ Outcome(PrivState, PrivState', Qualified[p], t)
<1>1. t \in Body /\ t # NoToken
  BY AuthIsToken DEF ServePrivate
<1>2. UNCHANGED <<pubDirs, pubFiles, old, tokenVars>> /\ made' = TRUE /\ caller' = t
  BY DEF ServePrivate, Receive, Construct, pub, tokenVars
<1>3. CASE Priv!Refuse
  <2>1. Silent(PrivState, PrivState')
    BY <1>3 DEF Priv!Refuse, Priv!Plain, Priv!Reply, Silent, PrivState
  <2> QED
    BY <1>1, <1>2, <2>1
<1>4. CASE ~Priv!Refuse
  <2>1. PICK p \in DOMAIN Qualified : p[1] = AuthOf(t).user /\ Priv!Serve(Qualified[p], {t})
    BY <1>4 DEF ServePrivate, OwnTargets
  <2>2. Qualified[p] \in EntityName
    BY NameAssumption DEF PrivateName
  <2>3. up = TRUE /\ Outcome(PrivState, PrivState', Qualified[p], t)
    BY <1>1, <2>1, <2>2, PrivOutcome DEF TypeOK
  <2> QED
    BY <1>1, <1>2, <2>1, <2>2, <2>3
<1> QED
  BY <1>3, <1>4

LEMMA PublicStep ==
    ASSUME TypeOK, NEW t \in Token \cup {NoToken}, ServePublic(t)
    PROVE  /\ t \in Body /\ t # NoToken
           /\ UNCHANGED <<privDirs, privFiles, old, tokenVars>> /\ made' = TRUE /\ caller' = t
           /\ \/ Silent(PubState, PubState')
              \/ \E e \in PublicName :
                     /\ e \in EntityName
                     /\ up = TRUE
                     /\ Outcome(PubState, PubState', e, t)
<1>1. t \in Body /\ t # NoToken
  BY AuthIsToken DEF ServePublic
<1>2. UNCHANGED <<privDirs, privFiles, old, tokenVars>> /\ made' = TRUE /\ caller' = t
  BY DEF ServePublic, Receive, Construct, priv, tokenVars
<1>3. CASE Pub!Refuse
  <2>1. Silent(PubState, PubState')
    BY <1>3 DEF Pub!Refuse, Pub!Plain, Pub!Reply, Silent, PubState
  <2> QED
    BY <1>1, <1>2, <2>1
<1>4. CASE ~Pub!Refuse
  <2>1. PICK e \in PublicName : Pub!Serve(e, {t})
    BY <1>4 DEF ServePublic
  <2>2. e \in EntityName
    BY NameAssumption
  <2>3. up = TRUE /\ Outcome(PubState, PubState', e, t)
    BY <1>1, <2>1, <2>2, PubOutcome DEF TypeOK
  <2> QED
    BY <1>1, <1>2, <2>1, <2>2, <2>3
<1> QED
  BY <1>3, <1>4

\* A request by a longer target adds and replaces nothing on either side.
LEMMA DetourStep ==
    ASSUME TypeOK, NEW t \in Token \cup {NoToken}, ServeDetour(t)
    PROVE  /\ t \in Body /\ t # NoToken
           /\ UNCHANGED <<privDirs, pubDirs, entity_id_map, up, old, tokenVars>>
           /\ made' = TRUE /\ caller' = t /\ resp'.op = "detour"
           /\ privFiles' \in DiskType /\ pubFiles' \in DiskType
           /\ \A e \in EntityName, n \in FileName :
                  /\ privFiles'[e][n] \in {privFiles[e][n], Absent}
                  /\ pubFiles'[e][n] \in {pubFiles[e][n], Absent}
<1>1. t \in Body /\ t # NoToken
  BY AuthIsToken DEF ServeDetour
<1>2. UNCHANGED <<old, tokenVars>> /\ made' = TRUE /\ caller' = t
  BY DEF ServeDetour, Receive, Construct, tokenVars
<1>3. privFiles \in DiskType /\ pubFiles \in DiskType
  BY DEF TypeOK
<1>4. ASSUME NEW f \in DiskType, NEW e \in EntityName, NEW n \in FileName
      PROVE  /\ WriteFile(f, e, n, Absent) \in DiskType
             /\ \A x \in EntityName, m \in FileName :
                    WriteFile(f, e, n, Absent)[x][m] \in {f[x][m], Absent}
  BY WriteFileType
<1>5. PICK e \in EntityName, n \in FileName :
        (Priv!Detour(e, n) /\ UNCHANGED pub) \/ (Pub!Detour(e, n) /\ UNCHANGED priv)
  BY DEF ServeDetour
<1>6. CASE Priv!Detour(e, n) /\ UNCHANGED pub
  <2>1. /\ UNCHANGED <<privDirs, pubDirs, pubFiles, entity_id_map, up>>
        /\ privFiles' = privFiles \/ privFiles' = WriteFile(privFiles, e, n, Absent)
    BY <1>6 DEF Priv!Detour, Priv!DetourGet, Priv!DetourDelete, Priv!WriteFile, WriteFile, pub
  <2>2. resp'.op = "detour"
    BY <1>6 DEF Priv!Detour, Priv!DetourGet, Priv!DetourDelete, Priv!Plain, Priv!Reply
  <2> QED
    BY <1>1, <1>2, <1>3, <1>4, <2>1, <2>2
<1>7. CASE Pub!Detour(e, n) /\ UNCHANGED priv
  <2>1. /\ UNCHANGED <<privDirs, privFiles, pubDirs, entity_id_map, up>>
        /\ pubFiles' = pubFiles \/ pubFiles' = WriteFile(pubFiles, e, n, Absent)
    BY <1>7 DEF Pub!Detour, Pub!DetourGet, Pub!DetourDelete, Pub!WriteFile, WriteFile, priv
  <2>2. resp'.op = "detour"
    BY <1>7 DEF Pub!Detour, Pub!DetourGet, Pub!DetourDelete, Pub!Plain, Pub!Reply
  <2> QED
    BY <1>1, <1>2, <1>3, <1>4, <2>1, <2>2
<1> QED
  BY <1>5, <1>6, <1>7

LEMMA TokenSteps == TokenTypeOK /\ TokenNext => TokenTypeOK'
<1> SUFFICES ASSUME TokenTypeOK, TokenNext PROVE TokenTypeOK'
  OBVIOUS
<1>1. CASE Tick
  BY <1>1, TimeAssumption DEF TokenTypeOK, Tick
<1>2. CASE Rotate
  BY <1>2 DEF TokenTypeOK, Rotate
<1>3. CASE WgetOpens \/ WgetStores \/ WgetFails
  BY <1>3 DEF TokenTypeOK, WgetOpens, WgetStores, WgetFails
<1> QED
  BY <1>1, <1>2, <1>3 DEF TokenNext

-----------------------------------------------------------------------------
(* Types and keys. *)

\* A private file is in a directory.
PrivInDirs == \A e \in EntityName \ privDirs, n \in FileName : privFiles[e][n] = Absent

\* The inductive invariant of TypeOK and KeysSinceStart.
KeyInv == TypeOK /\ PrivInDirs /\ KeysSinceStart

LEMMA ScanRootType == ScanRoot \in MapType
BY DEF ScanRoot, MapType

LEMMA InitKeyInv == Init => KeyInv
<1> SUFFICES ASSUME Init PROVE KeyInv
  OBVIOUS
<1>1. EmptyDisk \in DiskType /\ \A e \in EntityName, n \in FileName : EmptyDisk[e][n] = Absent
  BY DEF EmptyDisk, DiskType
<1>2. TokenTypeOK
  <2>1. published \subseteq Kid /\ keyfile \in {NoJson} \cup SUBSET Kid
    BY DEF Init, TokenInit
  <2>2. now \in 0..MaxTime
    BY TimeAssumption DEF Init, TokenInit
  <2>3. fetching \in BOOLEAN
    BY DEF Init, TokenInit
  <2> QED
    BY <2>1, <2>2, <2>3 DEF TokenTypeOK
<1>3. TypeOK
  BY <1>1, <1>2, ScanRootType DEF Init, TypeOK
<1> QED
  BY <1>1, <1>3 DEF Init, KeyInv, PrivInDirs, KeysSinceStart

LEMMA NextKeyInv == KeyInv /\ [Next]_vars => KeyInv'
<1> SUFFICES ASSUME KeyInv, [Next]_vars PROVE KeyInv'
  OBVIOUS
<1>t. TypeOK /\ PrivInDirs /\ KeysSinceStart
  BY DEF KeyInv
<1>1. CASE UNCHANGED vars
  BY <1>t, <1>1 DEF vars, priv, pub, tokenVars, KeyInv, TypeOK, TokenTypeOK, PrivInDirs, KeysSinceStart
<1>2. ASSUME NEW t \in Token \cup {NoToken}, Unauthorized(t) PROVE KeyInv'
  <2>1. /\ UNCHANGED <<privDirs, privFiles, pubDirs, pubFiles, entity_id_map, up, old>>
        /\ UNCHANGED <<published, keyfile, fetching, now>>
        /\ made' = TRUE /\ caller' = NoToken
    BY <1>2 DEF Unauthorized, Receive, Construct, priv, pub, tokenVars
  <2> QED
    BY <1>t, <2>1 DEF KeyInv, TypeOK, TokenTypeOK, PrivInDirs, KeysSinceStart
<1>3. ASSUME NEW t \in Token \cup {NoToken}, ServePrivate(t) PROVE KeyInv'
  <2>1. /\ t \in Token
        /\ UNCHANGED <<pubDirs, pubFiles, old, published, keyfile, fetching, now>>
        /\ made' = TRUE /\ caller' = t
    BY <1>t, <1>3, PrivateStep, BodyAssumption DEF tokenVars
  <2>2. CASE Silent(PrivState, PrivState')
    BY <1>t, <2>1, <2>2 DEF Silent, PrivState, KeyInv, TypeOK, TokenTypeOK, PrivInDirs, KeysSinceStart
  <2>3. CASE ~Silent(PrivState, PrivState')
    <3>1. PICK p \in DOMAIN Qualified :
            /\ Qualified[p] \in EntityName /\ up = TRUE
            /\ Outcome(PrivState, PrivState', Qualified[p], t)
      BY <1>t, <1>3, <2>3, PrivateStep
    <3> DEFINE e == Qualified[p]
    <3>e. e \in EntityName
      BY <3>1
    <3>2. Effect(PrivState, PrivState', e, t)
      <4>1. privFiles \in DiskType /\ entity_id_map \in MapType /\ t \in Body
        BY <1>t, <2>1, BodyAssumption DEF TypeOK
      <4> QED
        BY <3>1, <4>1, OutcomeEffect, PrivStates
    <3> HIDE DEF e
    <3>3. TypeOK'
      BY <1>t, <2>1, <3>e, <3>2 DEF Effect, PrivState, TypeOK, TokenTypeOK
    <3>4. PrivInDirs'
      BY <1>t, <3>2, <3>e DEF Effect, PrivState, PrivInDirs
    <3>5. KeysSinceStart'
      BY <1>t, <2>1, <3>2, <3>e DEF Effect, PrivState, KeysSinceStart, TypeOK
    <3> QED
      BY <3>3, <3>4, <3>5 DEF KeyInv
  <2> QED
    BY <2>2, <2>3
<1>4. ASSUME NEW t \in Token \cup {NoToken}, ServePublic(t) PROVE KeyInv'
  <2>1. /\ t \in Token
        /\ UNCHANGED <<privDirs, privFiles, old, published, keyfile, fetching, now>>
        /\ made' = TRUE /\ caller' = t
    BY <1>t, <1>4, PublicStep, BodyAssumption DEF tokenVars
  <2>2. CASE Silent(PubState, PubState')
    BY <1>t, <2>1, <2>2 DEF Silent, PubState, KeyInv, TypeOK, TokenTypeOK, PrivInDirs, KeysSinceStart
  <2>3. CASE ~Silent(PubState, PubState')
    <3>1. PICK e \in PublicName :
            /\ e \in EntityName /\ up = TRUE
            /\ Outcome(PubState, PubState', e, t)
      BY <1>t, <1>4, <2>3, PublicStep
    <3>2. Effect(PubState, PubState', e, t)
      <4>1. pubFiles \in DiskType /\ entity_id_map \in MapType /\ t \in Body
        BY <1>t, <2>1, BodyAssumption DEF TypeOK
      <4> QED
        BY <3>1, <4>1, OutcomeEffect, PubStates
    <3>3. TypeOK'
      BY <1>t, <2>1, <3>1, <3>2 DEF Effect, PubState, TypeOK, TokenTypeOK
    <3>4. PrivInDirs'
      BY <1>t, <2>1 DEF Effect, PubState, PrivInDirs
    <3>5. KeysSinceStart'
      BY <1>t, <2>1, <3>1, <3>2 DEF Effect, PubState, KeysSinceStart, TypeOK
    <3> QED
      BY <3>3, <3>4, <3>5 DEF KeyInv
  <2> QED
    BY <2>2, <2>3
<1>5. CASE Restart
  <2>1. /\ UNCHANGED <<made, privDirs, privFiles, pubDirs, pubFiles, published, keyfile, fetching, now>>
        /\ old' = [priv |-> privDirs, pub |-> pubDirs]
        /\ up' = TRUE /\ caller' = NoToken /\ entity_id_map' \in MapType
    BY <1>5, ScanRootType DEF Restart, priv, pub, tokenVars
  <2> QED
    BY <1>t, <2>1 DEF KeyInv, TypeOK, TokenTypeOK, PrivInDirs, KeysSinceStart
<1>6. CASE TokenNext /\ ApiUnchanged
  <2>1. TokenTypeOK'
    BY <1>t, <1>6, TokenSteps DEF TypeOK
  <2>2. UNCHANGED <<made, privDirs, privFiles, pubDirs, pubFiles, entity_id_map, up, caller, old>>
    BY <1>6 DEF ApiUnchanged, priv, pub
  <2> QED
    BY <1>t, <2>1, <2>2 DEF KeyInv, TypeOK, PrivInDirs, KeysSinceStart
<1>7. ASSUME NEW t \in Token \cup {NoToken}, ServeDetour(t) PROVE KeyInv'
  <2>1. /\ UNCHANGED <<privDirs, pubDirs, entity_id_map, up, old>>
        /\ UNCHANGED <<published, keyfile, fetching, now>>
        /\ made' = TRUE /\ caller' \in Token
        /\ privFiles' \in DiskType /\ pubFiles' \in DiskType
        /\ \A e \in EntityName, n \in FileName : privFiles'[e][n] \in {privFiles[e][n], Absent}
    BY <1>t, <1>7, DetourStep, BodyAssumption DEF tokenVars
  <2>2. TypeOK' /\ KeysSinceStart'
    BY <1>t, <2>1 DEF TypeOK, TokenTypeOK, KeysSinceStart
  <2>3. PrivInDirs'
    BY <1>t, <2>1 DEF PrivInDirs
  <2> QED
    BY <2>2, <2>3 DEF KeyInv
<1> QED
  BY <1>1, <1>2, <1>3, <1>4, <1>5, <1>6, <1>7 DEF Next

LEMMA KeyInvHolds == Spec => []KeyInv
BY InitKeyInv, NextKeyInv, PTL DEF Spec

\* Over every sequence of tokens, key changes, requests of both sides and
\* restarts the two disks, the index and the answer keep their types: no request
\* writes outside the entities of its side.
THEOREM SecureTypeCorrect == Spec => []TypeOK
<1>1. KeyInv => TypeOK
  BY DEF KeyInv
<1> QED
  BY <1>1, KeyInvHolds, PTL

\* An entity made since the last start, private or public, has its key in
\* entity_id_map, and the process dies in get_next_id only of one older than
\* that: scanFS reads the root and not its two subdirectories, and gives those
\* no key.
THEOREM KeysKeptSinceStart == Spec => []KeysSinceStart
<1>1. KeyInv => KeysSinceStart
  BY DEF KeyInv
<1> QED
  BY <1>1, KeyInvHolds, PTL

-----------------------------------------------------------------------------
(* Whose data it is. *)

\* get_auth lets only genuine tokens through, and tells the groups apart.
LEMMA AuthIsGenuine ==
    ASSUME AuthType = "OAUTH", TokenTypeOK, NEW t, AuthOf(t).level # "NO_AUTH"
    PROVE  /\ Genuine(t)
           /\ AuthOf(t).user = t.sub
           /\ AuthOf(t).level = "PRIVATE_AUTH" <=> IsPrivate(t)
<1>1. t # NoToken /\ AuthOf(t) = TokenLevel(t)
  BY DEF AuthOf, GetAuth, NoAuth
<1>2. /\ t # Garbage /\ HasCert(t) /\ Verifies(t)
      /\ TokenLevel(t) = [level |-> IF t.domain = "g.ucla.edu" THEN "PRIVATE_AUTH" ELSE "PUBLIC_AUTH",
                          user |-> t.sub]
  BY <1>1 DEF TokenLevel, NoAuth
<1>3. t.kid \in Kid
  BY <1>2 DEF HasCert, TokenTypeOK
<1>4. Genuine(t)
  BY <1>1, <1>2, <1>3 DEF Genuine, Verifies
<1> QED
  BY <1>1, <1>2, <1>4 DEF IsPrivate

\* The parts of OwnDataOnly: the files below priv, those below pub, the answer.
OwnPriv ==
    \A e \in EntityName, n \in FileName : privFiles[e][n] # Absent =>
        /\ Genuine(privFiles[e][n]) /\ IsPrivate(privFiles[e][n])
        /\ \E p \in DOMAIN Qualified : p[1] = privFiles[e][n].sub /\ Qualified[p] = e

OwnPub ==
    \A e \in EntityName, n \in FileName : pubFiles[e][n] # Absent =>
        Genuine(pubFiles[e][n]) /\ ~IsPrivate(pubFiles[e][n])

OwnAnswer ==
    up /\ resp.body # Absent =>
        /\ Genuine(caller)
        /\ resp.op # "detour" =>
               IF IsPrivate(caller) THEN IsPrivate(resp.body) /\ resp.body.sub = caller.sub
               ELSE ~IsPrivate(resp.body)

LEMMA OwnParts == OwnDataOnly <=> OwnPriv /\ OwnPub /\ OwnAnswer
BY DEF OwnDataOnly, OwnPriv, OwnPub, OwnAnswer

LEMMA PlainBody == \A op, e, i, code : Priv!Plain(op, e, i, code).body = Absent
BY DEF Priv!Plain, Priv!Reply

LEMMA InitOwn == Init => OwnDataOnly
<1> SUFFICES ASSUME Init PROVE OwnPriv /\ OwnPub /\ OwnAnswer
  BY OwnParts
<1>1. resp.body = Absent
  BY PlainBody DEF Init, NoAnswer
<1> QED
  BY <1>1 DEF Init, EmptyDisk, OwnPriv, OwnPub, OwnAnswer

\* Whose data it is, action by action.
LEMMA NextOwn ==
    ASSUME AuthType = "OAUTH", UsersApart, KeyInv, OwnDataOnly, [Next]_vars
    PROVE  OwnDataOnly'
<1>t. TypeOK /\ OwnPriv /\ OwnPub /\ OwnAnswer /\ TokenTypeOK
  BY OwnParts DEF KeyInv, TypeOK
<1> SUFFICES OwnPriv' /\ OwnPub' /\ OwnAnswer'
  BY DEF OwnDataOnly, OwnPriv, OwnPub, OwnAnswer
<1>1. CASE UNCHANGED vars
  BY <1>t, <1>1 DEF vars, priv, pub, OwnPriv, OwnPub, OwnAnswer
<1>2. ASSUME NEW t \in Token \cup {NoToken}, Unauthorized(t) PROVE OwnPriv' /\ OwnPub' /\ OwnAnswer'
  <2>1. UNCHANGED <<privFiles, pubFiles>> /\ resp'.body = Absent
    BY <1>2, PlainBody DEF Unauthorized, priv, pub
  <2> QED
    BY <1>t, <2>1 DEF OwnPriv, OwnPub, OwnAnswer
<1>3. ASSUME NEW t \in Token \cup {NoToken}, ServePrivate(t) PROVE OwnPriv' /\ OwnPub' /\ OwnAnswer'
  <2>1. t \in Body /\ UNCHANGED pubFiles /\ caller' = t
    BY <1>t, <1>3, PrivateStep
  <2>2. Genuine(t) /\ IsPrivate(t) /\ AuthOf(t).user = t.sub
    BY <1>t, <1>3, AuthIsGenuine DEF ServePrivate
  <2>3. OwnPub'
    BY <1>t, <2>1 DEF OwnPub
  <2>4. CASE Silent(PrivState, PrivState')
    <3>1. privFiles' = privFiles /\ resp'.body = Absent
      BY <2>4, PrivStates DEF Silent
    <3> QED
      BY <1>t, <2>3, <3>1 DEF OwnPriv, OwnAnswer
  <2>5. CASE ~Silent(PrivState, PrivState')
    <3>1. PICK p \in DOMAIN Qualified :
            /\ p[1] = t.sub /\ Qualified[p] \in EntityName /\ up = TRUE
            /\ Outcome(PrivState, PrivState', Qualified[p], t)
      BY <1>t, <1>3, <2>2, <2>5, PrivateStep
    <3>2. Effect(PrivState, PrivState', Qualified[p], t)
      <4>1. privFiles \in DiskType /\ entity_id_map \in MapType
        BY <1>t DEF TypeOK
      <4> QED
        BY <2>1, <3>1, <4>1, OutcomeEffect, PrivStates
    <3>3. \A x \in EntityName, n \in FileName :
              \/ privFiles'[x][n] = privFiles[x][n]
              \/ x = Qualified[p] /\ privFiles'[x][n] \in {Absent, t}
      BY <3>2, PrivStates DEF Effect
    <3>4. OwnPriv'
      BY <1>t, <2>2, <3>1, <3>3 DEF OwnPriv
    <3>5. OwnAnswer'
      <4>1. SUFFICES ASSUME up', resp'.body # Absent PROVE OwnAnswer'
        BY DEF OwnAnswer
      <4>2. PICK n \in FileName :
              privFiles[Qualified[p]][n] # Absent /\ resp'.body = privFiles[Qualified[p]][n]
        BY <3>2, <4>1, PrivStates DEF Effect
      <4>3. IsPrivate(resp'.body) /\ \E q \in DOMAIN Qualified :
                q[1] = resp'.body.sub /\ Qualified[q] = Qualified[p]
        BY <1>t, <3>1, <4>2 DEF OwnPriv
      <4>4. resp'.body.sub = t.sub
        BY <3>1, <4>3 DEF UsersApart
      <4> QED
        BY <2>1, <2>2, <4>3, <4>4 DEF OwnAnswer
    <3> QED
      BY <2>3, <3>4, <3>5
  <2> QED
    BY <2>4, <2>5
<1>4. ASSUME NEW t \in Token \cup {NoToken}, ServePublic(t) PROVE OwnPriv' /\ OwnPub' /\ OwnAnswer'
  <2>1. t \in Body /\ UNCHANGED privFiles /\ caller' = t
    BY <1>t, <1>4, PublicStep
  <2>2. Genuine(t) /\ ~IsPrivate(t)
    BY <1>t, <1>4, AuthIsGenuine DEF ServePublic
  <2>3. OwnPriv'
    BY <1>t, <2>1 DEF OwnPriv
  <2>4. CASE Silent(PubState, PubState')
    <3>1. pubFiles' = pubFiles /\ resp'.body = Absent
      BY <2>4, PubStates DEF Silent
    <3> QED
      BY <1>t, <2>3, <3>1 DEF OwnPub, OwnAnswer
  <2>5. CASE ~Silent(PubState, PubState')
    <3>1. PICK e \in PublicName :
            e \in EntityName /\ up = TRUE /\ Outcome(PubState, PubState', e, t)
      BY <1>t, <1>4, <2>5, PublicStep
    <3>2. Effect(PubState, PubState', e, t)
      <4>1. pubFiles \in DiskType /\ entity_id_map \in MapType
        BY <1>t DEF TypeOK
      <4> QED
        BY <2>1, <3>1, <4>1, OutcomeEffect, PubStates
    <3>3. \A x \in EntityName, n \in FileName :
              pubFiles'[x][n] = pubFiles[x][n] \/ pubFiles'[x][n] \in {Absent, t}
      BY <3>2, PubStates DEF Effect
    <3>4. OwnPub'
      BY <1>t, <2>2, <3>3 DEF OwnPub
    <3>5. OwnAnswer'
      <4>1. SUFFICES ASSUME up', resp'.body # Absent PROVE OwnAnswer'
        BY DEF OwnAnswer
      <4>2. PICK n \in FileName : pubFiles[e][n] # Absent /\ resp'.body = pubFiles[e][n]
        BY <3>2, <4>1, PubStates DEF Effect
      <4>3. ~IsPrivate(resp'.body)
        BY <1>t, <3>1, <4>2 DEF OwnPub
      <4> QED
        BY <2>1, <2>2, <4>3 DEF OwnAnswer
    <3> QED
      BY <2>3, <3>4, <3>5
  <2> QED
    BY <2>4, <2>5
<1>5. CASE Restart
  <2>1. UNCHANGED <<privFiles, pubFiles>> /\ resp'.body = Absent
    BY <1>5, PlainBody DEF Restart, NoAnswer, priv, pub
  <2> QED
    BY <1>t, <2>1 DEF OwnPriv, OwnPub, OwnAnswer
<1>6. CASE TokenNext /\ ApiUnchanged
  <2>1. UNCHANGED <<privFiles, pubFiles, up, resp, caller>>
    BY <1>6 DEF ApiUnchanged, priv, pub
  <2> QED
    BY <1>t, <2>1 DEF OwnPriv, OwnPub, OwnAnswer
<1>7. ASSUME NEW t \in Token \cup {NoToken}, ServeDetour(t) PROVE OwnPriv' /\ OwnPub' /\ OwnAnswer'
  <2>1. /\ caller' = t /\ resp'.op = "detour"
        /\ \A e \in EntityName, n \in FileName :
               /\ privFiles'[e][n] \in {privFiles[e][n], Absent}
               /\ pubFiles'[e][n] \in {pubFiles[e][n], Absent}
    BY <1>t, <1>7, DetourStep
  <2>2. Genuine(t)
    BY <1>t, <1>7, AuthIsGenuine DEF ServeDetour
  <2>3. OwnPriv' /\ OwnPub'
    BY <1>t, <2>1 DEF OwnPriv, OwnPub
  <2> QED
    BY <2>1, <2>2, <2>3 DEF OwnAnswer
<1> QED
  BY <1>1, <1>2, <1>3, <1>4, <1>5, <1>6, <1>7 DEF Next

\* "Otherwise public users would be able to access the data of private users":
\* for every set of tokens, keys and names in which no two users' entities get
\* one name, SecureRequestHandlerAPI stores below priv and pub only what
\* genuine tokens of that group sent, shows a body to genuine tokens only, and
\* to requests by targets of one or two segments only bodies of the caller or
\* of the public, across restarts and key changes.  What a GET by a longer
\* target shows is not kept to the caller's data, in the model as in the code.
THEOREM OwnDataKept ==
    ASSUME AuthType = "OAUTH", UsersApart
    PROVE  Spec => []OwnDataOnly
<1>1. KeyInv /\ OwnDataOnly /\ [Next]_vars => OwnDataOnly'
  BY NextOwn
<1> QED
  BY <1>1, InitOwn, KeyInvHolds, PTL DEF Spec

\* Who changes which file, action by action.
LEMMA StepOwnersOnly ==
    ASSUME AuthType = "OAUTH", UsersApart, KeyInv, OwnDataOnly, Next
    PROVE  OwnersOnly
<1>t. TypeOK /\ OwnPriv /\ TokenTypeOK /\ privFiles \in DiskType /\ pubFiles \in DiskType
      /\ entity_id_map \in MapType
  BY OwnParts DEF KeyInv, TypeOK
<1>k. ASSUME UNCHANGED <<privFiles, pubFiles>> PROVE OwnersOnly
  BY <1>k DEF OwnersOnly
<1>1. ASSUME NEW t \in Token \cup {NoToken}, Unauthorized(t) PROVE OwnersOnly
  BY <1>1, <1>k DEF Unauthorized, priv, pub
<1>2. ASSUME NEW t \in Token \cup {NoToken}, ServePrivate(t) PROVE OwnersOnly
  <2>1. t \in Body /\ UNCHANGED pubFiles /\ caller' = t
    BY <1>t, <1>2, PrivateStep
  <2>2. Genuine(t) /\ IsPrivate(t) /\ AuthOf(t).user = t.sub
    BY <1>t, <1>2, AuthIsGenuine DEF ServePrivate
  <2>3. CASE Silent(PrivState, PrivState')
    BY <1>k, <2>1, <2>3, PrivStates DEF Silent
  <2>4. CASE ~Silent(PrivState, PrivState')
    <3>1. PICK p \in DOMAIN Qualified :
            /\ p[1] = t.sub /\ Qualified[p] \in EntityName /\ up = TRUE
            /\ Outcome(PrivState, PrivState', Qualified[p], t)
      BY <1>t, <1>2, <2>2, <2>4, PrivateStep
    <3>2. Effect(PrivState, PrivState', Qualified[p], t)
      BY <1>t, <2>1, <3>1, OutcomeEffect, PrivStates
    <3>3. ASSUME NEW e \in EntityName, NEW n \in FileName, privFiles[e][n] # Absent,
                 privFiles'[e][n] # privFiles[e][n]
          PROVE  t.sub = privFiles[e][n].sub
      <4>1. e = Qualified[p]
        BY <3>2, <3>3, PrivStates DEF Effect
      <4>2. \E q \in DOMAIN Qualified : q[1] = privFiles[e][n].sub /\ Qualified[q] = e
        BY <1>t, <3>3 DEF OwnPriv
      <4> QED
        BY <3>1, <4>1, <4>2 DEF UsersApart
    <3> QED
      BY <2>1, <2>2, <3>3 DEF OwnersOnly
  <2> QED
    BY <2>3, <2>4
<1>3. ASSUME NEW t \in Token \cup {NoToken}, ServePublic(t) PROVE OwnersOnly
  <2>1. UNCHANGED privFiles /\ caller' = t
    BY <1>t, <1>3, PublicStep
  <2>2. Genuine(t) /\ ~IsPrivate(t)
    BY <1>t, <1>3, AuthIsGenuine DEF ServePublic
  <2> QED
    BY <2>1, <2>2 DEF OwnersOnly
<1>4. CASE Restart
  BY <1>4, <1>k DEF Restart, priv, pub
<1>5. CASE TokenNext /\ ApiUnchanged
  BY <1>5, <1>k DEF ApiUnchanged, priv, pub
<1>6. ASSUME NEW t \in Token \cup {NoToken}, ServeDetour(t) PROVE OwnersOnly
  <2>1. /\ caller' = t /\ resp'.op = "detour"
        /\ \A e \in EntityName, n \in FileName :
               /\ privFiles'[e][n] \in {privFiles[e][n], Absent}
               /\ pubFiles'[e][n] \in {pubFiles[e][n], Absent}
    BY <1>t, <1>6, DetourStep
  <2>2. Genuine(t)
    BY <1>t, <1>6, AuthIsGenuine DEF ServeDetour
  <2> QED
    BY <2>1, <2>2 DEF OwnersOnly, RemovedByDetour
<1> QED
  BY <1>1, <1>2, <1>3, <1>4, <1>5, <1>6 DEF Next

\* SecureRequestHandlerAPI replaces a stored item only for a genuine token of
\* the user who stored it, or of the public where it is public, and removes it
\* only for these or for a genuine token's DELETE by a longer target, for every
\* set of tokens, keys and names in which no two users' entities get one name.
THEOREM OwnersOnlyChangeData ==
    ASSUME AuthType = "OAUTH", UsersApart
    PROVE  Spec => OwnersOnlyChange
<1>1. KeyInv /\ OwnDataOnly /\ [Next]_vars => [OwnersOnly]_vars
  BY StepOwnersOnly
<1> QED
  BY <1>1, KeyInvHolds, OwnDataKept, PTL DEF Spec, OwnersOnlyChange

-----------------------------------------------------------------------------
(* Ids of entities made since the last start. *)

\* Every numeric file of such an entity has its id in the index, as long as
\* public users do not use the entity's name.
NewCovered ==
    \A e \in EntityName \ (old.priv \cup PublicName) : Covered(privFiles, entity_id_map, e)

LEMMA InitCovered == Init => NewCovered
BY DEF Init, EmptyDisk, NewCovered, Covered

\* The ids of new entities, action by action.
LEMMA NextCovered ==
    ASSUME Canonical, KeyInv, NewCovered, [Next]_vars
    PROVE  NewCovered'
<1>t. TypeOK /\ PrivInDirs
  BY DEF KeyInv
<1>k. ASSUME UNCHANGED <<privFiles, entity_id_map, old>> PROVE NewCovered'
  BY <1>k DEF NewCovered, Covered
<1>1. CASE UNCHANGED vars
  BY <1>k, <1>1 DEF vars, priv
<1>2. ASSUME NEW t \in Token \cup {NoToken}, Unauthorized(t) PROVE NewCovered'
  BY <1>k, <1>2 DEF Unauthorized, Receive, priv
<1>3. ASSUME NEW t \in Token \cup {NoToken}, ServePrivate(t) PROVE NewCovered'
  <2>1. t \in Body /\ UNCHANGED old
    BY <1>t, <1>3, PrivateStep
  <2>2. CASE Silent(PrivState, PrivState')
    BY <1>k, <2>1, <2>2, PrivStates DEF Silent
  <2>3. CASE ~Silent(PrivState, PrivState')
    <3>1. PICK p \in DOMAIN Qualified :
            /\ Qualified[p] \in EntityName /\ up = TRUE
            /\ Outcome(PrivState, PrivState', Qualified[p], t)
      BY <1>t, <1>3, <2>3, PrivateStep
    <3>2. Effect(PrivState, PrivState', Qualified[p], t)
      <4>1. privFiles \in DiskType /\ entity_id_map \in MapType
        BY <1>t DEF TypeOK
      <4> QED
        BY <2>1, <3>1, <4>1, OutcomeEffect, PrivStates
    <3>3. /\ \A x \in EntityName, n \in FileName : x # Qualified[p] => privFiles'[x][n] = privFiles[x][n]
          /\ \A x \in EntityName : x # Qualified[p] => entity_id_map'[x] = entity_id_map[x]
          /\ Covered(privFiles, entity_id_map, Qualified[p]) =>
                 Covered(privFiles', entity_id_map', Qualified[p])
      BY <3>2, PrivStates DEF Effect
    <3>4. ASSUME NEW e \in EntityName, Covered(privFiles, entity_id_map, e)
          PROVE  Covered(privFiles', entity_id_map', e)
      <4>1. CASE e = Qualified[p]
        BY <3>3, <3>4, <4>1
      <4>2. CASE e # Qualified[p]
        BY <3>3, <3>4, <4>2 DEF Covered
      <4> QED
        BY <4>1, <4>2
    <3> QED
      BY <2>1, <3>4 DEF NewCovered
  <2> QED
    BY <2>2, <2>3
<1>4. ASSUME NEW t \in Token \cup {NoToken}, ServePublic(t) PROVE NewCovered'
  <2>1. t \in Body /\ UNCHANGED <<privFiles, old>>
    BY <1>t, <1>4, PublicStep
  <2>2. CASE Silent(PubState, PubState')
    BY <1>k, <2>1, <2>2, PubStates DEF Silent
  <2>3. CASE ~Silent(PubState, PubState')
    <3>1. PICK e \in PublicName :
            e \in EntityName /\ up = TRUE /\ Outcome(PubState, PubState', e, t)
      BY <1>t, <1>4, <2>3, PublicStep
    <3>2. Effect(PubState, PubState', e, t)
      <4>1. pubFiles \in DiskType /\ entity_id_map \in MapType
        BY <1>t DEF TypeOK
      <4> QED
        BY <2>1, <3>1, <4>1, OutcomeEffect, PubStates
    <3>3. \A x \in EntityName : x \notin PublicName => entity_id_map'[x] = entity_id_map[x]
      BY <3>2, PubStates DEF Effect
    <3> QED
      BY <2>1, <3>3 DEF NewCovered, Covered
  <2> QED
    BY <2>2, <2>3
<1>5. CASE Restart
  <2>1. UNCHANGED <<privDirs, privFiles>> /\ old' = [priv |-> privDirs, pub |-> pubDirs]
    BY <1>5 DEF Restart, priv
  <2> QED
    BY <1>t, <2>1 DEF PrivInDirs, NewCovered, Covered
<1>6. CASE TokenNext /\ ApiUnchanged
  BY <1>k, <1>6 DEF ApiUnchanged, priv
<1>7. ASSUME NEW t \in Token \cup {NoToken}, ServeDetour(t) PROVE NewCovered'
  <2>1. /\ UNCHANGED <<entity_id_map, old>>
        /\ \A e \in EntityName, n \in FileName : privFiles'[e][n] \in {privFiles[e][n], Absent}
    BY <1>t, <1>7, DetourStep
  <2> QED
    BY <2>1 DEF NewCovered, Covered
<1> QED
  BY <1>1, <1>2, <1>3, <1>4, <1>5, <1>6, <1>7 DEF Next

\* The id a POST answers is in the index of no file of the entity.
LEMMA PostIsNew ==
    ASSUME KeyInv, NewCovered, NEW e \in EntityName \ (old.priv \cup PublicName), NEW b \in Token
    PROVE  CreatesNew(e, b)
<1> SUFFICES ASSUME Priv!Post(e, b), up' PROVE privFiles[e][ToString[resp'.id]] = Absent
  BY DEF CreatesNew
<1>t. entity_id_map \in MapType /\ PrivInDirs
  BY DEF KeyInv, TypeOK
<1> DEFINE m == IF e \in privDirs THEN entity_id_map ELSE InsertKey(entity_id_map, e)
<1>1. PICK id \in 1..MaxId : id \notin m[e] /\ resp'.id = id
  <2>1. Priv!InsertKey(entity_id_map, e) = InsertKey(entity_id_map, e)
    BY DEF Priv!InsertKey, InsertKey
  <2>2. \A id : Priv!Plain("create", e, id, 201).id = id
    BY DEF Priv!Plain, Priv!Reply
  <2> QED
    BY <2>1, <2>2 DEF Priv!Post, Priv!IsNextId
<1>2. ToString[id] \in FileName /\ Numeric(ToString[id]) /\ Stoi[ToString[id]] = id
  BY NewIdIsFileId
<1>3. CASE e \in privDirs
  BY <1>1, <1>2, <1>3 DEF NewCovered, Covered
<1>4. CASE e \notin privDirs
  BY <1>t, <1>1, <1>2, <1>4 DEF PrivInDirs
<1> QED
  BY <1>3, <1>4

\* "Given entity, return next available ID" (get_next_id): under canonical
\* names POST replaces nothing in a private entity made since the last start,
\* although SecureAPIHandlerFactory shares one index between the two groups,
\* unless public users ask for the very name the entity has.
THEOREM NewEntitiesSafe ==
    ASSUME Canonical
    PROVE  Spec => NewEntitiesNeverOverwritten
<1>1. KeyInv /\ NewCovered /\ [Next]_vars => NewCovered'
  BY NextCovered
<1>2. KeyInv /\ NewCovered =>
          [\A e \in EntityName \ (old.priv \cup PublicName), b \in Token : CreatesNew(e, b)]_vars
  BY PostIsNew
<1> QED
  BY <1>1, <1>2, InitCovered, KeyInvHolds, PTL DEF Spec, NewEntitiesNeverOverwritten
=============================================================================
