-------------------------- MODULE ApiHandlerProofs --------------------------
(***************************************************************************)
(* Theorems about ApiHandler for every set of names, bodies and ids.       *)
(*                                                                         *)
(* The inductive invariant is TypeOK /\ NextIdHasKey /\ MapMatchesDisk.    *)
(* NextIdHasKey needs TypeOK alone; MapMatchesDisk also needs both of      *)
(* them: an index entry made for an entity without a key is right because  *)
(* an entity without a key has no directory, hence no files.               *)
(***************************************************************************)
EXTENDS ApiHandler, ApiDataProofs

ReplyType ==
    [op : {"none", "create", "list", "retrieve", "update", "delete", "other",
         "detour"},
     entity : {Absent} \cup EntityName, id : {0} \cup FileId,
     code : {0, 200, 201, 400, 404, 405}, ids : SUBSET FileId,
     body : {Absent} \cup Body]

FilesInDirs == \A e \in EntityName \ dirs, n \in FileName : files[e][n] = Absent

LEMMA PlainType ==
    ASSUME NEW op \in {"none", "create", "list", "retrieve", "update", "delete", "other",
                       "detour"},
           NEW e \in {Absent} \cup EntityName, NEW i \in {0} \cup FileId,
           NEW code \in {0, 200, 201, 400, 404, 405}
    PROVE  Plain(op, e, i, code) \in ReplyType
BY DEF Plain, Reply, ReplyType

\* The index as POST finds it for get_next_id.
PostMap(e) == IF e \in dirs THEN entity_id_map ELSE InsertKey(entity_id_map, e)

AddId(m, e, i) == [m EXCEPT ![e] = m[e] \cup {i}]

\* One id more in the set of a key.
LEMMA AddIdType ==
    ASSUME NEW m \in MapType, NEW e \in EntityName, m[e] # NoEntry, NEW i \in FileId
    PROVE  /\ AddId(m, e, i) \in MapType
           /\ AddId(m, e, i)[e] # NoEntry
           /\ AddId(m, e, i)[e] = m[e] \cup {i}
           /\ \A f \in EntityName : f # e => AddId(m, e, i)[f] = m[f]
<1>1. m[e] \in SUBSET FileId
  BY DEF MapType
<1>2. m[e] \cup {i} \in SUBSET FileId
  BY <1>1
<1>3. m[e] \cup {i} # NoEntry
  BY <1>2, NoEntryAssumption
<1> QED
  BY <1>2, <1>3 DEF MapType, AddId

\* What POST does, given that the directory has a key.
LEMMA PostEffect ==
    ASSUME TypeOK, NextIdHasKey, NEW e \in EntityName, NEW b \in Body, Post(e, b)
    PROVE  /\ PostMap(e) \in MapType
           /\ PostMap(e)[e] # NoEntry
           /\ PostMap(e)[e] = IF entity_id_map[e] = NoEntry THEN {} ELSE entity_id_map[e]
           /\ \A f \in EntityName : f # e => PostMap(e)[f] = entity_id_map[f]
           /\ up' = up
           /\ dirs' = dirs \cup {e}
           /\ \E id \in FileId, n \in FileName :
                /\ Numeric(n)
                /\ Stoi[n] = id
                /\ id \in 1..MaxId
                /\ id \notin PostMap(e)[e]
                /\ entity_id_map' = AddId(PostMap(e), e, id)
                /\ files' = WriteFile(files, e, n, b)
                /\ resp' = Plain("create", e, id, 201)
<1>1. /\ PostMap(e) \in MapType
      /\ PostMap(e)[e] # NoEntry
      /\ PostMap(e)[e] = IF entity_id_map[e] = NoEntry THEN {} ELSE entity_id_map[e]
      /\ \A f \in EntityName : f # e => PostMap(e)[f] = entity_id_map[f]
  BY InsertKeyType DEF TypeOK, NextIdHasKey, PostMap
<1>2. dirs' = dirs \cup {e}
  BY DEF Post
<1>3. PICK id \in 1..MaxId :
        /\ IsNextId(id, PostMap(e)[e])
        /\ entity_id_map' = AddId(PostMap(e), e, id)
        /\ files' = WriteFile(files, e, ToString[id], b)
        /\ resp' = Plain("create", e, id, 201)
        /\ up' = up
  BY <1>1 DEF Post, PostMap, AddId
<1>4. /\ id \in FileId
      /\ ToString[id] \in FileName
      /\ Numeric(ToString[id])
      /\ Stoi[ToString[id]] = id
      /\ id \notin PostMap(e)[e]
  BY <1>3, NewIdIsFileId DEF IsNextId
<1> QED
  BY <1>1, <1>2, <1>3, <1>4

LEMMA InitTypeOK == Init => TypeOK /\ NextIdHasKey
<1> SUFFICES ASSUME Init PROVE TypeOK /\ NextIdHasKey
  OBVIOUS
<1>1. entity_id_map \in MapType /\ \A e \in dirs : entity_id_map[e] # NoEntry
  BY ScanFSType DEF Init
<1>2. resp \in ReplyType
  BY PlainType DEF Init
<1> QED
  BY <1>1, <1>2 DEF Init, TypeOK, NextIdHasKey, ReplyType

LEMMA NextTypeOK == TypeOK /\ NextIdHasKey /\ [Next]_vars => TypeOK' /\ NextIdHasKey'
<1> SUFFICES ASSUME TypeOK, NextIdHasKey, [Next]_vars
             PROVE  TypeOK' /\ NextIdHasKey'
  OBVIOUS
<1>t. /\ dirs \subseteq EntityName
      /\ files \in DiskType
      /\ FilesInDirs
      /\ entity_id_map \in MapType
      /\ up = TRUE
      /\ resp \in ReplyType
      /\ \A e \in dirs : entity_id_map[e] # NoEntry
  BY DEF TypeOK, NextIdHasKey, FilesInDirs, ReplyType
<1> SUFFICES /\ dirs' \subseteq EntityName
             /\ files' \in DiskType
             /\ FilesInDirs'
             /\ entity_id_map' \in MapType
             /\ up' = TRUE
             /\ resp' \in ReplyType
             /\ \A e \in dirs' : entity_id_map'[e] # NoEntry
  BY DEF TypeOK, NextIdHasKey, FilesInDirs, ReplyType
<1>0. CASE UNCHANGED vars
  BY <1>0, <1>t DEF vars, FilesInDirs
<1>1. ASSUME NEW e \in EntityName, NEW b \in Body, Post(e, b)
      PROVE  /\ dirs' \subseteq EntityName
             /\ files' \in DiskType
             /\ FilesInDirs'
             /\ entity_id_map' \in MapType
             /\ up' = TRUE
             /\ resp' \in ReplyType
             /\ \A f \in dirs' : entity_id_map'[f] # NoEntry
  <2>1. PICK id \in FileId, n \in FileName :
          /\ entity_id_map' = AddId(PostMap(e), e, id)
          /\ files' = WriteFile(files, e, n, b)
          /\ resp' = Plain("create", e, id, 201)
    BY <1>1, PostEffect
  <2>2. /\ PostMap(e) \in MapType
        /\ PostMap(e)[e] # NoEntry
        /\ \A f \in EntityName : f # e => PostMap(e)[f] = entity_id_map[f]
        /\ up' = up
        /\ dirs' = dirs \cup {e}
    BY <1>1, PostEffect
  <2>3. entity_id_map' \in MapType /\ \A f \in dirs' : entity_id_map'[f] # NoEntry
    BY <1>t, <2>1, <2>2, AddIdType
  <2>4. files' \in DiskType /\ FilesInDirs'
    BY <1>t, <2>1, <2>2, WriteFileType DEF FilesInDirs
  <2>5. resp' \in ReplyType
    BY <2>1 DEF Plain, Reply, ReplyType
  <2> QED
    BY <1>t, <2>2, <2>3, <2>4, <2>5
<1>2. ASSUME NEW e \in EntityName, List(e)
      PROVE  /\ UNCHANGED <<dirs, files, entity_id_map, up>>
             /\ resp' \in ReplyType
  <2>1. entity_id_map[e] # NoEntry => entity_id_map[e] \in SUBSET FileId
    BY <1>t DEF MapType
  <2>2. entity_id_map[e] # NoEntry => ListReply(e, entity_id_map[e]) \in ReplyType
    BY <2>1 DEF ListReply, Reply, ReplyType
  <2>3. Plain("list", e, 0, 404) \in ReplyType /\ Plain("list", e, 0, 200) \in ReplyType
    BY DEF Plain, Reply, ReplyType
  <2> QED
    BY <1>2, <2>2, <2>3 DEF List
<1>3. ASSUME NEW e \in EntityName, GetNumericEntity(e)
      PROVE  /\ UNCHANGED <<dirs, files, up>>
             /\ entity_id_map' \in MapType
             /\ resp' \in ReplyType
             /\ \A f \in dirs : entity_id_map'[f] # NoEntry
  BY <1>3, <1>t, EraseType, PlainType DEF GetNumericEntity
<1>4. ASSUME NEW e \in EntityName, NEW n \in FileName, Retrieve(e, n)
      PROVE  /\ UNCHANGED <<dirs, files, up>>
             /\ entity_id_map' \in MapType
             /\ resp' \in ReplyType
             /\ \A f \in dirs : entity_id_map'[f] # NoEntry
  <2> DEFINE i == Stoi[n]
  <2>1. i \in FileId
    BY <1>4, IdOfNumeric, StoiIsFileId DEF Retrieve
  <2>2. UNCHANGED <<dirs, files, up>>
    BY <1>4 DEF Retrieve
  <2>3. \/ /\ entity_id_map' = EraseIfExist(entity_id_map, e, i)
           /\ resp' = Plain("retrieve", e, i, 404)
        \/ /\ entity_id_map' = InsertIfNotExist(entity_id_map, e, i)
           /\ files[e][n] \in Body
           /\ resp' = Reply("retrieve", e, i, 200, {}, files[e][n])
    BY <1>4, <1>t DEF Retrieve, DiskType
  <2> HIDE DEF i
  <2>4. entity_id_map' \in MapType /\ \A f \in dirs : entity_id_map'[f] # NoEntry
    <3>1. CASE entity_id_map' = EraseIfExist(entity_id_map, e, i)
      BY <1>t, <3>1, EraseType
    <3>2. CASE entity_id_map' = InsertIfNotExist(entity_id_map, e, i)
      <4>1. /\ InsertIfNotExist(entity_id_map, e, i) \in MapType
            /\ InsertIfNotExist(entity_id_map, e, i)[e] # NoEntry
            /\ \A f \in EntityName :
                  f # e => InsertIfNotExist(entity_id_map, e, i)[f] = entity_id_map[f]
        BY <1>t, <2>1, InsertType
      <4> QED
        BY <1>t, <3>2, <4>1
    <3> QED
      BY <2>3, <3>1, <3>2
  <2>5. Plain("retrieve", e, i, 404) \in ReplyType
    BY <2>1 DEF Plain, Reply, ReplyType
  <2>6. files[e][n] \in Body => Reply("retrieve", e, i, 200, {}, files[e][n]) \in ReplyType
    BY <2>1 DEF Reply, ReplyType
  <2> QED
    BY <2>2, <2>3, <2>4, <2>5, <2>6
<1>5. ASSUME NEW e \in EntityName, NEW n \in FileName, GetZero(e, n)
      PROVE  /\ UNCHANGED <<dirs, files, entity_id_map, up>>
             /\ resp' \in ReplyType
  <2>1. entity_id_map[e] # NoEntry => entity_id_map[e] \in SUBSET FileId
    BY <1>t DEF MapType
  <2>2. entity_id_map[e] # NoEntry => ListReply(e, entity_id_map[e]) \in ReplyType
    BY <2>1 DEF ListReply, Reply, ReplyType
  <2>3. \A code \in {200, 404} : Plain("other", Absent, 0, code) \in ReplyType
    BY DEF Plain, Reply, ReplyType
  <2>4. \/ resp' = Plain("other", Absent, 0, 404)
        \/ resp' = Plain("other", Absent, 0, 200)
        \/ entity_id_map[e] # NoEntry /\ resp' = ListReply(e, entity_id_map[e])
    BY <1>5 DEF GetZero
  <2>5. resp' \in ReplyType
    BY <2>2, <2>3, <2>4
  <2> QED
    BY <1>5, <2>5 DEF GetZero
<1>6. ASSUME NEW e \in EntityName, NEW n \in FileName, NEW b \in Body, Put(e, n, b)
      PROVE  /\ dirs' \subseteq EntityName
             /\ files' \in DiskType
             /\ FilesInDirs'
             /\ entity_id_map' \in MapType
             /\ up' = TRUE
             /\ resp' \in ReplyType
             /\ \A f \in dirs' : entity_id_map'[f] # NoEntry
  <2> DEFINE i == Stoi[n]
  <2>0. /\ dirs' = dirs \cup {e}
        /\ files' = WriteFile(files, e, n, b)
        /\ entity_id_map' = InsertIfNotExist(entity_id_map, e, i)
        /\ resp' = Plain("update", e, i, 200)
        /\ up' = up
    BY <1>6 DEF Put
  <2>1. i \in FileId
    BY <1>6, IdOfNumeric, StoiIsFileId DEF Put
  <2> HIDE DEF i
  <2>2. files' \in DiskType /\ FilesInDirs'
    BY <2>0, <1>t, WriteFileType DEF FilesInDirs
  <2>3. entity_id_map' \in MapType /\ \A f \in dirs' : entity_id_map'[f] # NoEntry
    <3>1. /\ InsertIfNotExist(entity_id_map, e, i) \in MapType
          /\ InsertIfNotExist(entity_id_map, e, i)[e] # NoEntry
          /\ \A f \in EntityName :
                f # e => InsertIfNotExist(entity_id_map, e, i)[f] = entity_id_map[f]
      BY <1>t, <2>1, InsertType
    <3> QED
      BY <1>t, <2>0, <3>1
  <2>4. resp' \in ReplyType
    BY <2>0, <2>1 DEF Plain, Reply, ReplyType
  <2> QED
    BY <2>0, <1>t, <2>2, <2>3, <2>4
<1>7. ASSUME NEW e \in EntityName, NEW n \in FileName, Delete(e, n)
      PROVE  /\ UNCHANGED <<dirs, up>>
             /\ files' \in DiskType
             /\ FilesInDirs'
             /\ entity_id_map' \in MapType
             /\ resp' \in ReplyType
             /\ \A f \in dirs' : entity_id_map'[f] # NoEntry
  <2>1. files' \in DiskType /\ FilesInDirs'
    BY <1>7, <1>t, WriteFileType DEF Delete, FilesInDirs
  <2>2. entity_id_map' \in MapType /\ \A f \in dirs : entity_id_map'[f] # NoEntry
    BY <1>7, <1>t, EraseType DEF Delete
  <2>3. resp' \in ReplyType
    <3>1. \A code \in {200, 404} :
            /\ Plain("other", Absent, 0, code) \in ReplyType
            /\ Numeric(n) => Plain("delete", e, Stoi[n], code) \in ReplyType
      BY StoiIsFileId DEF Plain, Reply, ReplyType
    <3> QED
      BY <1>7, <3>1 DEF Delete
  <2> QED
    BY <1>7, <2>1, <2>2, <2>3 DEF Delete
<1>8. ASSUME Refuse
      PROVE  /\ UNCHANGED <<dirs, files, entity_id_map, up>>
             /\ resp' \in ReplyType
  BY <1>8, PlainType DEF Refuse
<1>9. ASSUME Restart
      PROVE  /\ UNCHANGED <<dirs, files, resp>>
             /\ entity_id_map' \in MapType
             /\ up' = TRUE
             /\ \A f \in dirs : entity_id_map'[f] # NoEntry
  BY <1>9, <1>t, ScanFSType DEF Restart
<1>10. ASSUME NEW e \in EntityName, NEW n \in FileName, EditDisk(e, n)
       PROVE  /\ UNCHANGED <<dirs, entity_id_map, up, resp>>
              /\ files' \in DiskType
              /\ FilesInDirs'
  BY <1>10, <1>t, WriteFileType DEF EditDisk, FilesInDirs
<1>11. ASSUME NEW e \in EntityName, NEW n \in FileName, Detour(e, n)
       PROVE  /\ UNCHANGED <<dirs, entity_id_map, up>>
              /\ files' \in DiskType
              /\ FilesInDirs'
              /\ resp' \in ReplyType
  <2>1. /\ \A code \in {200, 404} : Plain("detour", Absent, 0, code) \in ReplyType
        /\ \A c \in {Absent} \cup Body : Reply("detour", Absent, 0, 200, {}, c) \in ReplyType
    BY DEF Plain, Reply, ReplyType
  <2>2. files[e][n] \in {Absent} \cup Body
    BY <1>t DEF DiskType
  <2>3. CASE DetourGet(e, n)
    <3>1. resp' \in ReplyType
      BY <2>1, <2>2, <2>3 DEF DetourGet
    <3> QED
      BY <1>t, <2>3, <3>1 DEF DetourGet, FilesInDirs
  <2>4. CASE DetourDelete(e, n)
    <3>1. files' \in DiskType /\ FilesInDirs'
      BY <1>t, <2>4, WriteFileType DEF DetourDelete, FilesInDirs
    <3> QED
      BY <2>1, <2>4, <3>1 DEF DetourDelete
  <2> QED
    BY <1>11, <2>3, <2>4 DEF Detour
<1> QED
  BY <1>t, <1>0, <1>1, <1>2, <1>3, <1>4, <1>5, <1>6, <1>7, <1>8, <1>9, <1>10, <1>11
     DEF Next, Request, Serve, FilesInDirs

\* Every response and every index state is well formed, and files only lie in
\* directories that exist, for every sequence of requests to
\* RequestHandlerAPI::get_response, by targets of any length, restarts and
\* outside edits.
THEOREM TypeCorrect == Spec => []TypeOK
<1>1. Spec => [](TypeOK /\ NextIdHasKey)
  BY InitTypeOK, NextTypeOK, PTL DEF Spec
<1> QED
  BY <1>1, PTL

\* get_next_id never reads through a missing key ("the map must have key of
\* entity"), whatever names clients use and whoever edits the files.
THEOREM KeyAlwaysThere == Spec => []NextIdHasKey
<1>1. Spec => [](TypeOK /\ NextIdHasKey)
  BY InitTypeOK, NextTypeOK, PTL DEF Spec
<1> QED
  BY <1>1, PTL

-----------------------------------------------------------------------------
(* Index and disk.  They agree about an id of an entity or they do not;      *)
(* Drift is where they do not.                                               *)

InIndex(f, j) == entity_id_map[f] # NoEntry /\ j \in entity_id_map[f]
OnDisk(f, j) == j \in DiskIds(files, f)
Agree(f, j) == InIndex(f, j) <=> OnDisk(f, j)

LEMMA DriftIsDisagreement ==
    \A p \in EntityName \X FileId : p \in Drift <=> ~Agree(p[1], p[2])
BY DEF Drift, Agree, InIndex, OnDisk

\* A request keeps index and disk in agreement wherever they agreed: it
\* touches one id, and both sides of it alike, but for GET of an entity called
\* by a number.
LEMMA AgreementKept ==
    ASSUME CanonicalIds, TypeOK, NextIdHasKey, Request,
           NEW f \in EntityName, NEW j \in FileId, Agree(f, j),
           ~(GetNumericEntity(f) /\ j = Stoi[f])
    PROVE  Agree(f, j)'
<1>t. /\ files \in DiskType
      /\ FilesInDirs
      /\ entity_id_map \in MapType
      /\ \A e \in dirs : entity_id_map[e] # NoEntry
  BY DEF TypeOK, NextIdHasKey, FilesInDirs
<1>n. \A e \in EntityName, n \in FileName : files[e][n] # Absent => entity_id_map[e] # NoEntry
  BY <1>t DEF FilesInDirs
<1>0. ASSUME UNCHANGED <<files, entity_id_map>>
      PROVE  Agree(f, j)'
  BY <1>0 DEF Agree, InIndex, OnDisk
<1>1. ASSUME NEW e \in EntityName, NEW b \in Body, Post(e, b)
      PROVE  Agree(f, j)'
  <2>1. PICK id \in FileId, n \in FileName :
          /\ Numeric(n)
          /\ Stoi[n] = id
          /\ entity_id_map' = AddId(PostMap(e), e, id)
          /\ files' = WriteFile(files, e, n, b)
    BY <1>1, PostEffect
  <2>2. /\ PostMap(e) \in MapType
        /\ PostMap(e)[e] # NoEntry
        /\ entity_id_map[e] = NoEntry => PostMap(e)[e] = {}
        /\ entity_id_map[e] # NoEntry => PostMap(e)[e] = entity_id_map[e]
        /\ \A g \in EntityName : g # e => PostMap(e)[g] = entity_id_map[g]
    BY <1>1, PostEffect
  <2>3. /\ entity_id_map'[e] # NoEntry
        /\ entity_id_map'[e] = PostMap(e)[e] \cup {id}
        /\ \A g \in EntityName : g # e => entity_id_map'[g] = PostMap(e)[g]
    BY <2>1, <2>2, AddIdType
  <2>4. DiskIds(files', e) = DiskIds(files, e) \cup {id}
    BY <1>t, <2>1, DiskIdsWrite
  <2>5. \A g \in EntityName : g # e => DiskIds(files', g) = DiskIds(files, g)
    BY <1>t, <2>1, DiskIdsOther
  <2> QED
    BY <2>2, <2>3, <2>4, <2>5 DEF Agree, InIndex, OnDisk
<1>2. ASSUME NEW e \in EntityName, GetNumericEntity(e)
      PROVE  Agree(f, j)'
  <2> DEFINE i == Stoi[e]
  <2>1. e = f => j # i
    BY <1>2
  <2>2. files' = files /\ entity_id_map' = EraseIfExist(entity_id_map, e, i)
    BY <1>2 DEF GetNumericEntity
  <2> HIDE DEF i
  <2>3. /\ entity_id_map[e] # NoEntry => /\ entity_id_map'[e] # NoEntry
                                         /\ entity_id_map'[e] = entity_id_map[e] \ {i}
        /\ entity_id_map[e] = NoEntry => entity_id_map' = entity_id_map
        /\ \A g \in EntityName : g # e => entity_id_map'[g] = entity_id_map[g]
    BY <1>t, <2>2, EraseType
  <2> QED
    BY <2>1, <2>2, <2>3 DEF Agree, InIndex, OnDisk
<1>3. ASSUME NEW e \in EntityName, NEW n \in FileName, Retrieve(e, n)
      PROVE  Agree(f, j)'
  <2> DEFINE i == Stoi[n]
  <2>1. Numeric(n) /\ i \in FileId
    BY <1>3, IdOfNumeric, StoiIsFileId DEF Retrieve
  <2>2. files' = files
    BY <1>3 DEF Retrieve
  <2>3. i \in DiskIds(files, e) <=> files[e][n] # Absent
    BY <2>1, DiskIdsMember
  <2>4. CASE files[e][n] = Absent
    <3>1. entity_id_map' = EraseIfExist(entity_id_map, e, i)
      BY <1>3, <2>4 DEF Retrieve
    <3> HIDE DEF i
    <3>2. /\ entity_id_map[e] # NoEntry => /\ entity_id_map'[e] # NoEntry
                                           /\ entity_id_map'[e] = entity_id_map[e] \ {i}
          /\ entity_id_map[e] = NoEntry => entity_id_map' = entity_id_map
          /\ \A g \in EntityName : g # e => entity_id_map'[g] = entity_id_map[g]
      BY <1>t, <3>1, EraseType
    <3> QED
      BY <2>2, <2>3, <2>4, <3>2 DEF Agree, InIndex, OnDisk
  <2>5. CASE files[e][n] # Absent
    <3>1. entity_id_map' = InsertIfNotExist(entity_id_map, e, i) /\ entity_id_map[e] # NoEntry
      BY <1>3, <1>n, <2>5 DEF Retrieve
    <3> HIDE DEF i
    <3>2. /\ entity_id_map'[e] # NoEntry
          /\ entity_id_map'[e] = entity_id_map[e] \cup {i}
          /\ \A g \in EntityName : g # e => entity_id_map'[g] = entity_id_map[g]
      BY <1>t, <2>1, <3>1, InsertType
    <3> QED
      BY <2>2, <2>3, <2>5, <3>1, <3>2 DEF Agree, InIndex, OnDisk
  <2> QED
    BY <2>4, <2>5
<1>4. ASSUME NEW e \in EntityName, NEW n \in FileName, NEW b \in Body, Put(e, n, b)
      PROVE  Agree(f, j)'
  <2> DEFINE i == Stoi[n]
  <2>1. Numeric(n) /\ i \in FileId
    BY <1>4, IdOfNumeric, StoiIsFileId DEF Put
  <2>2. /\ files' = WriteFile(files, e, n, b)
        /\ entity_id_map' = InsertIfNotExist(entity_id_map, e, i)
    BY <1>4 DEF Put
  <2>3. DiskIds(files', e) = DiskIds(files, e) \cup {i}
    BY <1>t, <2>1, <2>2, DiskIdsWrite
  <2>4. \A g \in EntityName : g # e => DiskIds(files', g) = DiskIds(files, g)
    BY <1>t, <2>2, DiskIdsOther
  <2> HIDE DEF i
  <2>5. /\ entity_id_map'[e] # NoEntry
        /\ entity_id_map[e] = NoEntry => entity_id_map'[e] = {i}
        /\ entity_id_map[e] # NoEntry => entity_id_map'[e] = entity_id_map[e] \cup {i}
        /\ \A g \in EntityName : g # e => entity_id_map'[g] = entity_id_map[g]
    BY <1>t, <2>1, <2>2, InsertType
  <2> QED
    BY <2>3, <2>4, <2>5 DEF Agree, InIndex, OnDisk
<1>5. ASSUME NEW e \in EntityName, NEW n \in FileName, Delete(e, n)
      PROVE  Agree(f, j)'
  <2>1. CASE files[e][n] = Absent
    BY <1>0, <1>5, <2>1 DEF Delete
  <2>2. CASE files[e][n] # Absent /\ ~Numeric(n)
    <3>1. files' = WriteFile(files, e, n, Absent) /\ entity_id_map' = entity_id_map
      BY <1>5, <2>2 DEF Delete
    <3>2. DiskIds(files', f) = DiskIds(files, f)
      BY <1>t, <2>2, <3>1, DiskIdsOther
    <3> QED
      BY <3>1, <3>2 DEF Agree, InIndex, OnDisk
  <2>3. CASE files[e][n] # Absent /\ Numeric(n)
    <3> DEFINE i == Stoi[n]
    <3>1. /\ files' = WriteFile(files, e, n, Absent)
          /\ entity_id_map' = EraseIfExist(entity_id_map, e, i)
          /\ entity_id_map[e] # NoEntry
      BY <1>5, <1>n, <2>3 DEF Delete
    <3>2. DiskIds(files', e) = DiskIds(files, e) \ {i}
      BY <1>t, <2>3, <3>1, DiskIdsRemove
    <3>3. \A g \in EntityName : g # e => DiskIds(files', g) = DiskIds(files, g)
      BY <1>t, <3>1, DiskIdsOther
    <3> HIDE DEF i
    <3>4. /\ entity_id_map'[e] # NoEntry
          /\ entity_id_map'[e] = entity_id_map[e] \ {i}
          /\ \A g \in EntityName : g # e => entity_id_map'[g] = entity_id_map[g]
      BY <1>t, <3>1, EraseType
    <3> QED
      BY <3>1, <3>2, <3>3, <3>4 DEF Agree, InIndex, OnDisk
  <2> QED
    BY <2>1, <2>2, <2>3
<1>6. ASSUME NEW e \in EntityName, List(e)
      PROVE  Agree(f, j)'
  BY <1>0, <1>6 DEF List
<1>7. ASSUME NEW e \in EntityName, NEW n \in FileName, GetZero(e, n)
      PROVE  Agree(f, j)'
  BY <1>0, <1>7 DEF GetZero
<1>8. ASSUME Refuse
      PROVE  Agree(f, j)'
  BY <1>0, <1>8 DEF Refuse
<1> QED
  BY <1>1, <1>2, <1>3, <1>4, <1>5, <1>6, <1>7, <1>8 DEF Request, Serve

LEMMA RequestDrift ==
    ASSUME CanonicalIds, TypeOK, NextIdHasKey, Request
    PROVE  Drift' \subseteq Drift \cup OwnNumber
<1>1. \A p \in EntityName \X FileId :
        Agree(p[1], p[2]) /\ ~(GetNumericEntity(p[1]) /\ p[2] = Stoi[p[1]])
            => Agree(p[1], p[2])'
  BY AgreementKept
<1>2. \A p \in EntityName \X FileId : p \in Drift' <=> ~(Agree(p[1], p[2])')
  BY DEF Drift, Agree, InIndex, OnDisk
<1>3. Drift' \subseteq EntityName \X FileId
  BY DEF Drift
<1> QED
  BY <1>1, <1>2, <1>3, DriftIsDisagreement DEF OwnNumber

\* For every set of entities, of file names that spell no id twice, and whatever
\* others do to the files below the server or by longer targets, no request to
\* RequestHandlerAPI by a target of one or two segments makes index and disk
\* disagree about an id they agreed about, but for GET of an entity called by a
\* number, about that number.
THEOREM DriftOnlyShrinks ==
    ASSUME CanonicalIds
    PROVE  Spec => RequestsNeverAddDrift
<1>1. TypeOK /\ NextIdHasKey /\ [Next]_vars =>
        [Request => Drift' \subseteq Drift \cup OwnNumber]_vars
  BY RequestDrift
<1>2. Spec => [](TypeOK /\ NextIdHasKey)
  BY InitTypeOK, NextTypeOK, PTL DEF Spec
<1> QED
  BY <1>1, <1>2, PTL DEF Spec, RequestsNeverAddDrift

-----------------------------------------------------------------------------
(* With nobody else editing the files, and nobody deleting them by longer    *)
(* targets, there is no drift at all.                                        *)

LEMMA AllAgree ==
    ASSUME TypeOK, NextIdHasKey
    PROVE  MapMatchesDisk <=> \A f \in EntityName, j \in FileId : Agree(f, j)
<1>1. \A f \in EntityName : entity_id_map[f] # NoEntry => entity_id_map[f] \in SUBSET FileId
  BY DEF TypeOK, MapType
<1>2. \A f \in EntityName : DiskIds(files, f) \in SUBSET FileId
  BY DiskIdsType
<1>3. \A f \in EntityName : entity_id_map[f] = NoEntry => DiskIds(files, f) = {}
  BY DEF TypeOK, NextIdHasKey, DiskIds
<1> QED
  BY <1>1, <1>2, <1>3 DEF MapMatchesDisk, Agree, InIndex, OnDisk

LEMMA ScanMatchesDisk ==
    ASSUME NEW ds, NEW d, NEW e \in EntityName, ScanFS(ds, d)[e] # NoEntry
    PROVE  ScanFS(ds, d)[e] = DiskIds(d, e)
BY ScanFSType

IndexInv == TypeOK /\ NextIdHasKey /\ MapMatchesDisk

LEMMA IndexInvariant ==
    ASSUME Canonical, ~OutsideEdits, ~Detours
    PROVE  Spec => []IndexInv
<1>1. Init => IndexInv
  <2>1. Init => MapMatchesDisk
    BY ScanMatchesDisk DEF Init, MapMatchesDisk
  <2> QED
    BY <2>1, InitTypeOK DEF IndexInv
<1>2. IndexInv /\ [Next]_vars => IndexInv'
  <2> SUFFICES ASSUME IndexInv, [Next]_vars
               PROVE  IndexInv'
    OBVIOUS
  <2>1. TypeOK' /\ NextIdHasKey'
    BY NextTypeOK DEF IndexInv
  <2>2. CASE Request
    <3>1. \A f \in EntityName, j \in FileId : Agree(f, j)
      BY AllAgree DEF IndexInv
    <3>n. \A f \in EntityName, j \in FileId : ~(GetNumericEntity(f) /\ j = Stoi[f])
      BY IdOfNumeric DEF GetNumericEntity, Canonical, EntitiesAreNotIds, FileId, Numeric
    <3>2. \A f \in EntityName, j \in FileId : Agree(f, j)'
      BY <2>2, <3>1, <3>n, AgreementKept DEF IndexInv, Canonical
    <3>3. (MapMatchesDisk <=> \A f \in EntityName, j \in FileId : Agree(f, j))'
      BY <2>1, AllAgree, PTL
    <3> QED
      BY <2>1, <3>2, <3>3 DEF IndexInv
  <2>3. CASE Restart
    <3>1. MapMatchesDisk'
      BY <2>3, ScanMatchesDisk DEF Restart, MapMatchesDisk
    <3> QED
      BY <2>1, <3>1 DEF IndexInv
  <2>4. CASE UNCHANGED vars
    <3>1. MapMatchesDisk'
      BY <2>4 DEF IndexInv, vars, MapMatchesDisk
    <3> QED
      BY <2>1, <3>1 DEF IndexInv
  <2>5. ASSUME NEW e \in EntityName, NEW n \in FileName, EditDisk(e, n)
        PROVE  FALSE
    BY <2>5 DEF EditDisk
  <2>6. ASSUME NEW e \in EntityName, NEW n \in FileName, Detour(e, n)
        PROVE  FALSE
    BY <2>6 DEF Detour
  <2> QED
    BY <2>2, <2>3, <2>4, <2>5, <2>6 DEF Next
<1> QED
  BY <1>1, <1>2, PTL DEF Spec

\* For every set of canonical names, after every sequence of restarts and of
\* requests by targets of one or two segments, the index of APIHandlerFactory
\* holds exactly the ids of the files.
THEOREM IndexIsDisk ==
    ASSUME Canonical, ~OutsideEdits, ~Detours
    PROVE  Spec => []MapMatchesDisk
<1>1. IndexInv => MapMatchesDisk
  BY DEF IndexInv
<1> QED
  BY <1>1, IndexInvariant, PTL

\* The file POST writes was not there, because its id was in neither.
LEMMA PostFresh ==
    ASSUME CanonicalIds, IndexInv, NEW e \in EntityName, NEW b \in Body, Post(e, b),
           NEW d \in EntityName, NEW n \in FileName, files[d][n] # Absent
    PROVE  files'[d][n] = files[d][n]
<1>1. PICK id \in FileId, m \in FileName :
        /\ Numeric(m)
        /\ Stoi[m] = id
        /\ id \notin PostMap(e)[e]
        /\ files' = WriteFile(files, e, m, b)
  BY PostEffect DEF IndexInv
<1>2. entity_id_map[e] # NoEntry => PostMap(e)[e] = entity_id_map[e]
  BY PostEffect DEF IndexInv
<1>3. files \in DiskType /\ (files[e][m] # Absent => entity_id_map[e] # NoEntry)
  BY DEF IndexInv, TypeOK, NextIdHasKey
<1>4. id \in DiskIds(files, e) <=> files[e][m] # Absent
  BY <1>1, DiskIdsMember
<1>5. files[e][m] = Absent
  BY <1>1, <1>2, <1>3, <1>4 DEF IndexInv, MapMatchesDisk
<1>6. d # e \/ n # m
  BY <1>5
<1> QED
  BY <1>1, <1>3, <1>6, WriteFileType

\* get_next_id returns an available id: for every set of canonical names, while
\* targets have one or two segments, POST never replaces a file.
THEOREM PostCreates ==
    ASSUME Canonical, ~OutsideEdits, ~Detours
    PROVE  Spec => PostNeverOverwrites
<1>1. IndexInv /\ [Next]_vars =>
        [\A e \in EntityName, b \in Body : Post(e, b) =>
             \A d \in EntityName, n \in FileName :
                 files[d][n] # Absent => files'[d][n] = files[d][n]]_vars
  BY PostFresh DEF Canonical
<1> QED
  BY <1>1, IndexInvariant, PTL DEF Spec, PostNeverOverwrites

-----------------------------------------------------------------------------
(* ApiHandler implements CrudStore under canonical names.  IndexInv makes the *)
(* index a function of the disk and NameOf is the inverse of Stoi, so every   *)
(* request is one operation of the store and a restart is a stuttering step.  *)

LEMMA NameOfId ==
    ASSUME CanonicalIds, NEW n \in FileName, Numeric(n)
    PROVE  NameOf(Stoi[n]) = n
<1>1. \E m \in FileName : Numeric(m) /\ Stoi[m] = Stoi[n]
  OBVIOUS
<1>2. NameOf(Stoi[n]) \in FileName /\ Numeric(NameOf(Stoi[n])) /\ Stoi[NameOf(Stoi[n])] = Stoi[n]
  BY <1>1 DEF NameOf
<1> QED
  BY <1>2 DEF CanonicalIds, Numeric

LEMMA IdOfName ==
    ASSUME NEW i \in FileId
    PROVE  NameOf(i) \in FileName /\ Numeric(NameOf(i)) /\ Stoi[NameOf(i)] = i
<1>1. \E m \in FileName : Numeric(m) /\ Stoi[m] = i
  BY DEF FileId
<1> QED
  BY <1>1 DEF NameOf

\* The store seen through the names.
LEMMA StoreOfType ==
    ASSUME NEW d \in DiskType
    PROVE  /\ StoreOf(d) \in [EntityName -> [FileId -> {Absent} \cup Body]]
           /\ \A e \in EntityName, i \in FileId : StoreOf(d)[e][i] = d[e][NameOf(i)]
BY IdOfName DEF StoreOf, DiskType

LEMMA StoreOfWrite ==
    ASSUME CanonicalIds, NEW d \in DiskType, NEW e \in EntityName, NEW n \in FileName,
           Numeric(n), NEW c \in {Absent} \cup Body
    PROVE  StoreOf(WriteFile(d, e, n, c)) = [StoreOf(d) EXCEPT ![e][Stoi[n]] = c]
<1> DEFINE w == WriteFile(d, e, n, c)
           s == Stoi[n]
           x == [StoreOf(d) EXCEPT ![e][s] = c]
<1>1. w \in DiskType
  BY WriteFileType
<1>2. s \in FileId /\ NameOf(s) = n
  BY StoiIsFileId, NameOfId
<1>3. w[e][n] = c /\ \A f \in EntityName, m \in FileName : (f # e \/ m # n) => w[f][m] = d[f][m]
  BY WriteFileType
<1>4. \A i \in FileId : i # s => NameOf(i) \in FileName /\ NameOf(i) # n
  BY IdOfName
<1> HIDE DEF w, s
<1>5. \A f \in EntityName, i \in FileId :
        StoreOf(w)[f][i] = IF f = e /\ i = s THEN c ELSE StoreOf(d)[f][i]
  BY <1>1, <1>2, <1>3, <1>4, IdOfName, StoreOfType
<1>6. x \in [EntityName -> [FileId -> {Absent} \cup Body]]
  BY <1>2, StoreOfType
<1>7. \A f \in EntityName, i \in FileId :
        x[f][i] = IF f = e /\ i = s THEN c ELSE StoreOf(d)[f][i]
  BY <1>2, StoreOfType
<1>8. StoreOf(w) \in [EntityName -> [FileId -> {Absent} \cup Body]]
  BY <1>1, StoreOfType
<1> HIDE DEF x
<1>9. \A f \in EntityName : StoreOf(w)[f] = x[f]
  <2> TAKE f \in EntityName
  <2>1. StoreOf(w)[f] \in [FileId -> {Absent} \cup Body] /\ x[f] \in [FileId -> {Absent} \cup Body]
    BY <1>6, <1>8
  <2>2. \A i \in FileId : StoreOf(w)[f][i] = x[f][i]
    BY <1>5, <1>7
  <2> QED
    BY <2>1, <2>2
<1>10. StoreOf(w) = x
  BY <1>6, <1>8, <1>9
<1> QED
  BY <1>10 DEF w, x, s

LEMMA StoreOfOther ==
    ASSUME NEW d \in DiskType, NEW e \in EntityName, NEW n \in FileName, ~Numeric(n),
           NEW c \in {Absent} \cup Body
    PROVE  StoreOf(WriteFile(d, e, n, c)) = StoreOf(d)
<1>1. \A f \in EntityName, i \in FileId : WriteFile(d, e, n, c)[f][NameOf(i)] = d[f][NameOf(i)]
  BY IdOfName, WriteFileType
<1> QED
  BY <1>1 DEF StoreOf

LEMMA ItemsAreDiskIds ==
    ASSUME CanonicalIds, files \in DiskType, NEW e \in EntityName
    PROVE  Crud!Items(e) = DiskIds(files, e)
<1>1. \A i \in FileId : StoreOf(files)[e][i] # Absent <=> i \in DiskIds(files, e)
  BY IdOfName, StoreOfType, DiskIdsMember
<1>2. DiskIds(files, e) \subseteq FileId
  BY DiskIdsType
<1> QED
  BY <1>1, <1>2 DEF Crud!Items

LEMMA PlainAnswer ==
    ASSUME NEW op, NEW e, NEW i, NEW code
    PROVE  Plain(op, e, i, code) = Crud!Answer(op, e, i, code, {}, Absent)
BY DEF Plain, Reply, Crud!Answer

LEMMA ListAnswer ==
    ASSUME NEW e, NEW ids
    PROVE  ListReply(e, ids) = Crud!Answer("list", e, 0, 200, ids, Absent)
BY DEF ListReply, Reply, Crud!Answer

LEMMA RetrieveAnswer ==
    ASSUME NEW e, NEW i, NEW c
    PROVE  Reply("retrieve", e, i, 200, {}, c) =
               Crud!Answer("retrieve", e, i, 200, {}, c)
BY DEF Reply, Crud!Answer

LEMMA InitRefines == ASSUME CanonicalIds PROVE Init => Crud!Init
<1> SUFFICES ASSUME Init PROVE Crud!Init
  OBVIOUS
<1>1. files \in DiskType /\ dirs \in SUBSET EntityName
  BY DEF Init
<1>2. \A e \in EntityName \ dirs : Crud!Items(e) = {}
  BY <1>1, ItemsAreDiskIds DEF Init, DiskIds
<1>3. resp = Crud!Answer("none", Absent, 0, 0, {}, Absent)
  BY PlainAnswer DEF Init
<1> QED
  BY <1>1, <1>2, <1>3, StoreOfType DEF Crud!Init

LEMMA StepRefines ==
    ASSUME Canonical, EntitiesAreNames, ~OutsideEdits, ~Detours, IndexInv, [Next]_vars
    PROVE  [Crud!Next]_Crud!vars
<1>c. CanonicalIds
  BY DEF Canonical
<1>t. /\ files \in DiskType
      /\ FilesInDirs
      /\ entity_id_map \in MapType
      /\ \A e \in dirs : entity_id_map[e] # NoEntry
      /\ \A e \in EntityName : entity_id_map[e] # NoEntry => entity_id_map[e] = DiskIds(files, e)
  BY DEF IndexInv, TypeOK, NextIdHasKey, FilesInDirs, MapMatchesDisk
<1>i. \A e \in EntityName : Crud!Items(e) = DiskIds(files, e)
  BY <1>c, <1>t, ItemsAreDiskIds
<1>1. ASSUME NEW e \in EntityName, NEW b \in Body, Post(e, b)
      PROVE  Crud!Create(e, b)
  <2>1. PICK id \in FileId, n \in FileName :
          /\ Numeric(n)
          /\ Stoi[n] = id
          /\ id \in 1..MaxId
          /\ id \notin PostMap(e)[e]
          /\ files' = WriteFile(files, e, n, b)
          /\ resp' = Plain("create", e, id, 201)
    BY <1>1, PostEffect DEF IndexInv
  <2>2. /\ entity_id_map[e] # NoEntry => PostMap(e)[e] = entity_id_map[e]
        /\ dirs' = dirs \cup {e}
    BY <1>1, PostEffect DEF IndexInv
  <2>3. id \notin DiskIds(files, e)
    BY <1>t, <2>1, <2>2 DEF FilesInDirs, DiskIds
  <2>4. StoreOf(files)' = [StoreOf(files) EXCEPT ![e][id] = b]
    BY <1>c, <1>t, <2>1, StoreOfWrite
  <2>5. resp' = Crud!Answer("create", e, id, 201, {}, Absent)
    BY <2>1, PlainAnswer
  <2> QED
    BY <1>i, <2>1, <2>2, <2>3, <2>4, <2>5 DEF Crud!Create
<1>2. ASSUME NEW e \in EntityName, List(e)
      PROVE  Crud!List(e)
  <2>1. dirs' = dirs /\ StoreOf(files)' = StoreOf(files)
    BY <1>2 DEF List
  <2>2. CASE e \in dirs
    <3>1. resp' = ListReply(e, DiskIds(files, e))
      BY <1>2, <1>t, <2>2 DEF List
    <3> QED
      BY <1>i, <2>1, <2>2, <3>1, ListAnswer DEF Crud!List
  <2>3. CASE e \notin dirs
    <3>1. resp' = Plain("list", e, 0, 404)
      BY <1>2, <2>3 DEF List
    <3> QED
      BY <2>1, <2>3, <3>1, PlainAnswer DEF Crud!List
  <2> QED
    BY <2>2, <2>3
<1>3. ASSUME NEW e \in EntityName, NEW n \in FileName, Retrieve(e, n)
      PROVE  \E i \in FileId : Crud!Retrieve(e, i)
  <2> DEFINE i == Stoi[n]
  <2>1. Numeric(n) /\ i \in FileId /\ NameOf(i) = n
    BY <1>3, <1>c, IdOfNumeric, StoiIsFileId, NameOfId DEF Retrieve
  <2>2. dirs' = dirs /\ StoreOf(files)' = StoreOf(files)
    BY <1>3 DEF Retrieve
  <2>3. i \in DiskIds(files, e) <=> files[e][n] # Absent
    BY <1>c, <2>1, DiskIdsMember
  <2>4. StoreOf(files)[e][i] = files[e][n]
    BY <1>t, <2>1, StoreOfType
  <2>5. /\ files[e][n] = Absent => resp' = Plain("retrieve", e, i, 404)
        /\ files[e][n] # Absent => resp' = Reply("retrieve", e, i, 200, {}, files[e][n])
    BY <1>3 DEF Retrieve
  <2> HIDE DEF i
  <2>6. CASE files[e][n] = Absent
    <3>1. resp' = Crud!Answer("retrieve", e, i, 404, {}, Absent)
      BY <2>5, <2>6, PlainAnswer
    <3>2. i \notin Crud!Items(e)
      BY <1>i, <2>3, <2>6
    <3>3. Crud!Retrieve(e, i)
      BY <2>2, <3>1, <3>2 DEF Crud!Retrieve
    <3> QED
      BY <2>1, <3>3
  <2>7. CASE files[e][n] # Absent
    <3>1. resp' = Crud!Answer("retrieve", e, i, 200, {}, StoreOf(files)[e][i])
      <4> DEFINE c == files[e][n]
      <4>1. resp' = Reply("retrieve", e, i, 200, {}, c) /\ StoreOf(files)[e][i] = c
        BY <2>4, <2>5, <2>7
      <4> HIDE DEF c
      <4> QED
        BY <4>1, RetrieveAnswer
    <3>2. i \in Crud!Items(e)
      BY <1>i, <2>3, <2>7
    <3>3. Crud!Retrieve(e, i)
      BY <2>2, <3>1, <3>2 DEF Crud!Retrieve
    <3> QED
      BY <2>1, <3>3
  <2> QED
    BY <2>6, <2>7
<1>4. ASSUME NEW e \in EntityName, NEW n \in FileName, NEW b \in Body, Put(e, n, b)
      PROVE  \E i \in FileId : Crud!Update(e, i, b)
  <2> DEFINE i == Stoi[n]
  <2>1. Numeric(n) /\ i \in FileId
    BY <1>4, IdOfNumeric, StoiIsFileId DEF Put
  <2>2. /\ dirs' = dirs \cup {e}
        /\ files' = WriteFile(files, e, n, b)
        /\ resp' = Plain("update", e, i, 200)
    BY <1>4 DEF Put
  <2>3. StoreOf(files)' = [StoreOf(files) EXCEPT ![e][i] = b]
    BY <1>c, <1>t, <2>1, <2>2, StoreOfWrite
  <2> HIDE DEF i
  <2>4. resp' = Crud!Answer("update", e, i, 200, {}, Absent)
    BY <2>2, PlainAnswer
  <2> QED
    BY <2>1, <2>2, <2>3, <2>4 DEF Crud!Update
<1>5. ASSUME NEW e \in EntityName, NEW n \in FileName, Delete(e, n)
      PROVE  Crud!Decline \/ \E i \in FileId : Crud!Delete(e, i)
  <2>1. CASE ~Numeric(n)
    <3>1. dirs' = dirs /\ (files' = files \/ files' = WriteFile(files, e, n, Absent))
      BY <1>5 DEF Delete
    <3>2. StoreOf(files)' = StoreOf(files)
      BY <1>t, <2>1, <3>1, StoreOfOther
    <3>3. PICK code \in {200, 404} : resp' = Plain("other", Absent, 0, code)
      BY <1>5, <2>1 DEF Delete
    <3> QED
      BY <3>1, <3>2, <3>3, PlainAnswer DEF Crud!Decline
  <2>2. CASE Numeric(n)
    <3> DEFINE i == Stoi[n]
               code == IF files[e][n] = Absent THEN 404 ELSE 200
    <3>1. i \in FileId /\ NameOf(i) = n
      BY <1>c, <2>2, StoiIsFileId, NameOfId
    <3>2. dirs' = dirs /\ resp' = Plain("delete", e, i, code)
      BY <1>5, <2>2 DEF Delete
    <3>3. files' = WriteFile(files, e, n, Absent)
      <4>1. CASE files[e][n] = Absent
        <5>1. files' = files
          BY <1>5, <4>1 DEF Delete
        <5>2. WriteFile(files, e, n, Absent) = files
          BY <1>t, <4>1 DEF WriteFile, DiskType
        <5> QED
          BY <5>1, <5>2
      <4>2. CASE files[e][n] # Absent
        BY <1>5, <4>2 DEF Delete
      <4> QED
        BY <4>1, <4>2
    <3>4. StoreOf(files)' = [StoreOf(files) EXCEPT ![e][i] = Absent]
      BY <1>c, <1>t, <2>2, <3>3, StoreOfWrite
    <3>5. i \in DiskIds(files, e) <=> files[e][n] # Absent
      BY <1>c, <2>2, DiskIdsMember
    <3>6. code = IF i \in Crud!Items(e) THEN 200 ELSE 404
      BY <1>i, <3>5
    <3> HIDE DEF i, code
    <3>7. resp' = Crud!Answer("delete", e, i, code, {}, Absent)
      BY <3>2, PlainAnswer
    <3> QED
      BY <3>1, <3>2, <3>4, <3>6, <3>7 DEF Crud!Delete
  <2> QED
    BY <2>1, <2>2
<1>6. ASSUME NEW e \in EntityName, NEW n \in FileName, GetZero(e, n)
      PROVE  Crud!Decline \/ Crud!List(e)
  <2>1. dirs' = dirs /\ StoreOf(files)' = StoreOf(files)
    BY <1>6 DEF GetZero
  <2>2. CASE \E code \in {200, 404} : resp' = Plain("other", Absent, 0, code)
    BY <2>1, <2>2, PlainAnswer DEF Crud!Decline
  <2>3. CASE /\ files[e][n] # Absent
             /\ resp' = ListReply(e, entity_id_map[e])
             /\ entity_id_map[e] # NoEntry
    <3>1. e \in dirs
      BY <1>t, <2>3 DEF FilesInDirs
    <3>2. resp' = Crud!Answer("list", e, 0, 200, Crud!Items(e), Absent)
      BY <1>i, <1>t, <2>3, ListAnswer
    <3> QED
      BY <2>1, <3>1, <3>2 DEF Crud!List
  <2> QED
    BY <1>6, <2>2, <2>3 DEF GetZero
<1>7. ASSUME Refuse
      PROVE  Crud!Decline
  BY <1>7, PlainAnswer DEF Refuse, Crud!Decline
<1>8. ASSUME NEW e \in EntityName, GetNumericEntity(e)
      PROVE  FALSE
  BY <1>8 DEF GetNumericEntity, EntitiesAreNames
<1>9. ASSUME NEW e \in EntityName, NEW n \in FileName, EditDisk(e, n) \/ Detour(e, n)
      PROVE  FALSE
  BY <1>9 DEF EditDisk, Detour
<1>10. ASSUME Restart \/ UNCHANGED vars
       PROVE  UNCHANGED Crud!vars
  BY <1>10 DEF Restart, vars, Crud!vars
<1>11. CASE Request
  <2>1. Crud!Next
    BY <1>1, <1>2, <1>3, <1>4, <1>5, <1>6, <1>7, <1>8, <1>11 DEF Request, Serve, Crud!Next
  <2> QED
    BY <2>1
<1> QED
  BY <1>9, <1>10, <1>11 DEF Next

\* With canonical names, targets of one or two segments and no outside edits the
\* handler and its index, through every sequence of requests and restarts, are a
\* CrudStore.
THEOREM HandlerIsCrudStore ==
    ASSUME Canonical, EntitiesAreNames, ~OutsideEdits, ~Detours
    PROVE  Spec => ImplementsCrudStore
<1>1. Init => Crud!Init
  BY InitRefines DEF Canonical
<1>2. IndexInv /\ [Next]_vars => [Crud!Next]_Crud!vars
  BY StepRefines
<1> QED
  BY <1>1, <1>2, IndexInvariant, PTL DEF Spec, ImplementsCrudStore, Crud!Spec
=============================================================================
