--------------------------- MODULE ApiStepsProofs ---------------------------
(***************************************************************************)
(* Theorems about ApiSteps for every set of names, bodies and ids, with    *)
(* crashes and a disk that refuses writes.                                 *)
(*                                                                         *)
(* Types hold for any number of runners; ShapeInv adds which method can be *)
(* at which step.                                                          *)
(*                                                                         *)
(* StepInv, for runners whose requests are Apart, one runner in particular:*)
(* the index and the disk agree but for the items the requests under way   *)
(* are at (IndexFollows, KeysAreDirs), and what a request has read so far  *)
(* (its copy of the ids, the branch exists() took, the file it opened) is  *)
(* still so (HasKey, CopyFits, FileFits, InDir).  A step concerns one      *)
(* entity (OwnEntity), which no other request is at.  A second request to  *)
(* the same entity breaks HasKey, CopyFits and FileFits.                   *)
(*                                                                         *)
(* AtomicInv, for one runner's refinement of ApiHandler: what the request  *)
(* under way has done to the disk and the index since it was dispatched    *)
(* (Progress).  It needs no canonical names.                               *)
(***************************************************************************)
EXTENDS ApiSteps, ApiDataProofs

\* The methods that reach a step, and what they have there.
RequestShape(r) ==
    /\ pc[r] \in {"mkdir", "open", "write"} => req[r].op \in {"create", "update"}
    /\ pc[r] \in {"insertkey", "nextid", "nextidback"} => req[r].op = "create"
    /\ pc[r] \in {"insert", "insertback", "insertnew"} => req[r].op \in {"update", "retrieve"}
    /\ pc[r] \in {"erase", "eraseback"} =>
           req[r].op \in {"delete", "retrieve"} \/ NumericGet(req[r])
    /\ pc[r] = "list" => req[r].op = "list"
    /\ pc[r] = "read" => req[r].op = "retrieve"
    /\ pc[r] = "remove" => req[r].op \in {"delete", "detour"}
    /\ req[r].op # "retrieve" => req[r].b \in Body
    /\ pc[r] # "idle" /\ req[r].op \notin {"delete", "detour"} => Numeric(req[r].n)
    /\ pc[r] \in {"erase", "eraseback"} => Numeric(req[r].n)
    /\ pc[r] = "nextidback" => ids[r] # NoEntry

\* What a file holds between two steps.
Content == {Absent, Truncated} \cup Body

\* A request in a handler: Read puts the content read where the body was.
StoredRequest == [op : Method, e : EntityName, n : FileName, b : {Truncated} \cup Body]

\* write_file changes the one file.
LEMMA ContentWritten ==
    ASSUME NEW d \in [EntityName -> [FileName -> Content]],
           NEW e \in EntityName, NEW n \in FileName, NEW c \in Content
    PROVE  /\ WriteFile(d, e, n, c) \in [EntityName -> [FileName -> Content]]
           /\ WriteFile(d, e, n, c)[e][n] = c
           /\ \A f \in EntityName, m \in FileName :
                  f # e \/ m # n => WriteFile(d, e, n, c)[f][m] = d[f][m]
BY DEF WriteFile

\* The inductive invariant of TypeOK.
ShapeInv == TypeOK /\ \A r \in Runner : RequestShape(r)

LEMMA IdleRequestType == IdleRequest \in RequestType
<1>1. ToString[1] \in FileName
  BY ToStringAssumption, MaxIdAssumption
<1>2. \E q : q \in RequestType
  <2>1. PICK e \in EntityName, b \in Body : TRUE
    BY RequestAssumption
  <2>2. [op |-> "list", e |-> e, n |-> ToString[1], b |-> b] \in RequestType
    BY <1>1 DEF RequestType, Method
  <2> QED
    BY <2>2
<1> QED
  BY <1>2 DEF IdleRequest

LEMMA InitShape == Init => ShapeInv
<1> SUFFICES ASSUME Init PROVE ShapeInv
  OBVIOUS
<1>1. files \in [EntityName -> [FileName -> Content]]
  BY DEF Init, DiskType, Content
<1>2. entity_id_map \in MapType
  BY ScanFSType DEF Init
<1>3. req \in [Runner -> StoredRequest]
  BY IdleRequestType DEF Init, StoredRequest, RequestType
<1>4. acked \in DiskType
  BY DEF Init, EmptyDisk, DiskType
<1>5. TypeOK
  BY <1>1, <1>2, <1>3, <1>4 DEF Init, TypeOK, Content, StoredRequest, Label
<1>6. ASSUME NEW r \in Runner PROVE RequestShape(r)
  <2>1. pc[r] = "idle" /\ req[r] = IdleRequest
    BY DEF Init
  <2>2. req[r].b \in Body
    BY <2>1, IdleRequestType DEF RequestType
  <2> QED
    BY <2>1, <2>2 DEF RequestShape
<1> QED
  BY <1>5, <1>6 DEF ShapeInv

\* The parts of TypeOK, with the definitions of this module.
LEMMA TypeParts ==
    TypeOK <=> /\ dirs \subseteq EntityName
               /\ files \in [EntityName -> [FileName -> Content]]
               /\ entity_id_map \in MapType
               /\ up \in BOOLEAN
               /\ pc \in [Runner -> Label]
               /\ req \in [Runner -> StoredRequest]
               /\ ids \in [Runner -> {NoEntry} \cup SUBSET FileId]
               /\ acked \in DiskType
               /\ faults \subseteq EntityName \X FileName
BY DEF TypeOK, Content, StoredRequest

\* What Finish leaves.
LEMMA FinishShape ==
    ASSUME ShapeInv, NEW r \in Runner, pc[r] # "idle", NEW code, NEW listed, NEW body,
           Finish(r, code, listed, body)
    PROVE  /\ pc' \in [Runner -> Label]
           /\ pc' = [pc EXCEPT ![r] = "idle"]
           /\ req' \in [Runner -> StoredRequest]
           /\ req' = [req EXCEPT ![r] = IdleRequest]
           /\ acked' \in DiskType
<1>1. /\ pc \in [Runner -> Label]
      /\ req \in [Runner -> StoredRequest]
      /\ acked \in DiskType
      /\ RequestShape(r)
  BY TypeParts DEF ShapeInv
<1>2. pc' = [pc EXCEPT ![r] = "idle"] /\ req' = [req EXCEPT ![r] = IdleRequest]
  BY DEF Finish, Goto
<1>3. pc' \in [Runner -> Label]
  BY <1>1, <1>2 DEF Label
<1>4. req' \in [Runner -> StoredRequest]
  BY <1>1, <1>2, IdleRequestType DEF StoredRequest, RequestType
<1>5. acked' \in DiskType
  <2>1. CASE code \in {200, 201} /\ req[r].op \in {"create", "update"}
    <3>1. acked' = WriteFile(acked, req[r].e, req[r].n, req[r].b)
      BY <2>1 DEF Finish
    <3>2. req[r].e \in EntityName /\ req[r].n \in FileName /\ req[r].b \in Body
      BY <1>1, <2>1 DEF StoredRequest, RequestShape
    <3> QED
      BY <1>1, <3>1, <3>2, WriteFileType
  <2>2. CASE ~(code \in {200, 201} /\ req[r].op \in {"create", "update"})
    BY <1>1, <2>2 DEF Finish
  <2> QED
    BY <2>1, <2>2
<1> QED
  BY <1>2, <1>3, <1>4, <1>5

\* A step of runner r leaves the requests of the others alone.
OthersKept(r) ==
    \A s \in Runner \ {r} : pc'[s] = pc[s] /\ req'[s] = req[s] /\ ids'[s] = ids[s]

LEMMA ShapeOfStep ==
    ASSUME ShapeInv, NEW r \in Runner, OthersKept(r), TypeOK', RequestShape(r)'
    PROVE  ShapeInv'
<1>1. ASSUME NEW s \in Runner PROVE RequestShape(s)'
  <2>1. CASE s = r
    BY <2>1
  <2>2. CASE s # r
    <3>1. pc'[s] = pc[s] /\ req'[s] = req[s] /\ ids'[s] = ids[s] /\ RequestShape(s)
      BY <2>2 DEF OthersKept, ShapeInv
    <3> QED
      BY <3>1 DEF RequestShape
  <2> QED
    BY <2>1, <2>2
<1> QED
  BY <1>1 DEF ShapeInv

\* A runner without a request fits every clause.
LEMMA IdleShape ==
    ASSUME NEW r \in Runner, pc'[r] = "idle", req'[r] = IdleRequest
    PROVE  RequestShape(r)'
BY IdleRequestType DEF RequestShape, RequestType

\* One step of a handler, action by action.
LEMMA StepShape ==
    ASSUME ShapeInv, NEW r \in Runner, Step(r)
    PROVE  ShapeInv'
<1>t. /\ dirs \subseteq EntityName
      /\ files \in [EntityName -> [FileName -> Content]]
      /\ entity_id_map \in MapType
      /\ up \in BOOLEAN
      /\ pc \in [Runner -> Label]
      /\ req \in [Runner -> StoredRequest]
      /\ ids \in [Runner -> {NoEntry} \cup SUBSET FileId]
      /\ acked \in DiskType
      /\ faults \subseteq EntityName \X FileName
      /\ RequestShape(r)
  BY TypeParts DEF ShapeInv
<1>r. /\ req[r].e \in EntityName /\ req[r].n \in FileName
      /\ req[r].b \in {Truncated} \cup Body /\ req[r].op \in Method
  BY <1>t DEF StoredRequest
<1> DEFINE TypeParts2 ==
      /\ dirs' \subseteq EntityName
      /\ files' \in [EntityName -> [FileName -> Content]]
      /\ entity_id_map' \in MapType
      /\ up' \in BOOLEAN
      /\ pc' \in [Runner -> Label]
      /\ req' \in [Runner -> StoredRequest]
      /\ ids' \in [Runner -> {NoEntry} \cup SUBSET FileId]
      /\ acked' \in DiskType
      /\ faults' \subseteq EntityName \X FileName
<1>s. ASSUME OthersKept(r), TypeParts2, RequestShape(r)' PROVE ShapeInv'
  <2>1. TypeOK'
    BY <1>s DEF TypeOK, Content, StoredRequest
  <2> QED
    BY <1>s, <2>1, ShapeOfStep
<1>1. CASE CheckFound(r)
  <2>1. /\ UNCHANGED <<dirs, files, faults, entity_id_map, up, req, ids, acked>>
        /\ pc[r] = "check"
    BY <1>1 DEF CheckFound, disk, aux, At
  <2>2. PICK l \in {"nextid", "open", "list", "read", "remove"} :
          /\ pc' = [pc EXCEPT ![r] = l]
          /\ l = "nextid" <=> req[r].op = "create"
          /\ l = "open" <=> req[r].op = "update"
          /\ l = "list" <=> req[r].op = "list"
          /\ l = "read" <=> req[r].op = "retrieve"
          /\ l = "remove" <=> req[r].op \in {"delete", "detour"}
    BY <1>1, <1>r DEF CheckFound, Goto, Method
  <2>3. TypeParts2
    BY <1>t, <2>1, <2>2 DEF Label
  <2>4. OthersKept(r)
    BY <1>t, <2>1, <2>2 DEF OthersKept
  <2>5. RequestShape(r)'
    BY <1>t, <2>1, <2>2 DEF RequestShape
  <2> QED
    BY <1>s, <2>3, <2>4, <2>5
<1>f. ASSUME NEW code, NEW listed, NEW body, Finish(r, code, listed, body), pc[r] # "idle",
             dirs' \subseteq EntityName,
             files' \in [EntityName -> [FileName -> Content]],
             entity_id_map' \in MapType, up' = up,
             ids' = ids \/ ids' = [ids EXCEPT ![r] = {}],
             faults' \subseteq EntityName \X FileName
      PROVE  ShapeInv'
  <2>1. /\ pc' \in [Runner -> Label]
        /\ pc' = [pc EXCEPT ![r] = "idle"]
        /\ req' \in [Runner -> StoredRequest]
        /\ req' = [req EXCEPT ![r] = IdleRequest]
        /\ acked' \in DiskType
    BY <1>f, FinishShape
  <2>2. TypeParts2
    BY <1>f, <1>t, <2>1
  <2>3. OthersKept(r)
    BY <1>f, <1>t, <2>1 DEF OthersKept
  <2>4. RequestShape(r)'
    BY <1>t, <2>1, IdleShape
  <2> QED
    BY <1>s, <2>2, <2>3, <2>4
<1>2. CASE CheckMissing(r)
  <2>1. UNCHANGED <<dirs, files, faults, entity_id_map, up, ids>> /\ pc[r] = "check"
    BY <1>2 DEF CheckMissing, disk, At
  <2>2. CASE Finish(r, 404, {}, Absent)
    BY <1>f, <1>t, <2>1, <2>2
  <2>3. CASE ~Finish(r, 404, {}, Absent)
    <3>1. UNCHANGED <<req, acked>>
      BY <1>2, <2>3 DEF CheckMissing, aux
    <3>2. PICK l \in {"mkdir", "erase"} :
            /\ pc' = [pc EXCEPT ![r] = l]
            /\ l = "mkdir" => req[r].op \in {"create", "update"}
            /\ l = "erase" => req[r].op = "retrieve" \/ NumericGet(req[r])
      BY <1>2, <2>3 DEF CheckMissing, Goto
    <3>3. TypeParts2
      BY <1>t, <2>1, <3>1, <3>2 DEF Label
    <3>4. OthersKept(r)
      BY <1>t, <2>1, <3>1, <3>2 DEF OthersKept
    <3>5. RequestShape(r)'
      BY <1>t, <2>1, <3>1, <3>2 DEF RequestShape, NumericGet
    <3> QED
      BY <1>s, <3>3, <3>4, <3>5
  <2> QED
    BY <2>2, <2>3
<1>3. CASE Mkdir(r)
  <2>1. /\ UNCHANGED <<files, faults, entity_id_map, up, req, ids, acked>>
        /\ pc[r] = "mkdir"
        /\ dirs' = dirs \cup {req[r].e}
    BY <1>3 DEF Mkdir, aux, At
  <2>2. PICK l \in {"insertkey", "open"} :
          /\ pc' = [pc EXCEPT ![r] = l]
          /\ l = "insertkey" <=> req[r].op = "create"
    BY <1>3 DEF Mkdir, Goto
  <2>3. TypeParts2
    BY <1>t, <1>r, <2>1, <2>2 DEF Label
  <2>4. OthersKept(r)
    BY <1>t, <2>1, <2>2 DEF OthersKept
  <2>5. RequestShape(r)'
    BY <1>t, <2>1, <2>2 DEF RequestShape
  <2> QED
    BY <1>s, <2>3, <2>4, <2>5
<1>4. CASE InsertKeyStep(r)
  <2>1. /\ UNCHANGED <<dirs, files, faults, up, req, ids, acked>>
        /\ pc[r] = "insertkey"
        /\ pc' = [pc EXCEPT ![r] = "nextid"]
        /\ entity_id_map' = InsertKey(entity_id_map, req[r].e)
    BY <1>4 DEF InsertKeyStep, disk, aux, At, Goto
  <2>2. entity_id_map' \in MapType
    BY <1>t, <1>r, <2>1, InsertKeyType
  <2>3. TypeParts2
    BY <1>t, <2>1, <2>2 DEF Label
  <2>4. OthersKept(r)
    BY <1>t, <2>1 DEF OthersKept
  <2>5. RequestShape(r)'
    BY <1>t, <2>1 DEF RequestShape
  <2> QED
    BY <1>s, <2>3, <2>4, <2>5
<1>5. CASE NextId(r)
  <2>1. /\ UNCHANGED <<dirs, files, faults, entity_id_map, req, acked>>
        /\ pc[r] = "nextid"
    BY <1>5 DEF NextId, disk, aux, At
  <2>2. CASE entity_id_map[req[r].e] = NoEntry
    <3>1. up' = FALSE /\ pc' = pc /\ ids' = ids
      BY <1>5, <2>2 DEF NextId, ExistingIDs
    <3>2. TypeParts2
      BY <1>t, <2>1, <3>1
    <3>3. OthersKept(r)
      BY <2>1, <3>1 DEF OthersKept
    <3>4. RequestShape(r)'
      BY <1>t, <2>1, <3>1 DEF RequestShape
    <3> QED
      BY <1>s, <3>2, <3>3, <3>4
  <2>3. CASE entity_id_map[req[r].e] # NoEntry
    <3>1. /\ up' = up
          /\ pc' = [pc EXCEPT ![r] = "nextidback"]
          /\ ids' = [ids EXCEPT ![r] = entity_id_map[req[r].e]]
      BY <1>5, <2>3 DEF NextId, ExistingIDs, Goto
    <3>2. entity_id_map[req[r].e] \in SUBSET FileId
      BY <1>t, <1>r, <2>3 DEF MapType
    <3>3. TypeParts2
      BY <1>t, <2>1, <3>1, <3>2 DEF Label
    <3>4. OthersKept(r)
      BY <1>t, <2>1, <3>1 DEF OthersKept
    <3>5. RequestShape(r)'
      BY <1>t, <2>1, <2>3, <3>1 DEF RequestShape
    <3> QED
      BY <1>s, <3>3, <3>4, <3>5
  <2> QED
    BY <2>2, <2>3
<1>6. CASE NextIdBack(r)
  <2>1. /\ UNCHANGED <<dirs, files, faults, up, acked>>
        /\ pc[r] = "nextidback"
        /\ pc' = [pc EXCEPT ![r] = "open"]
        /\ ids' = [ids EXCEPT ![r] = {}]
    BY <1>6 DEF NextIdBack, disk, aux, At, Goto
  <2>2. PICK id \in 1..MaxId :
          /\ entity_id_map' = [entity_id_map EXCEPT ![req[r].e] = ids[r] \cup {id}]
          /\ req' = [req EXCEPT ![r].n = ToString[id]]
    BY <1>6 DEF NextIdBack
  <2>3. id \in FileId /\ ToString[id] \in FileName /\ Numeric(ToString[id])
    BY NewIdIsFileId
  <2>4. ids[r] \in SUBSET FileId
    BY <1>t, <2>1 DEF RequestShape
  <2>5. entity_id_map' \in MapType
    BY <1>t, <1>r, <2>2, <2>3, <2>4 DEF MapType
  <2>6. /\ req' \in [Runner -> StoredRequest]
        /\ req'[r].op = req[r].op /\ req'[r].b = req[r].b /\ req'[r].n = ToString[id]
        /\ \A s \in Runner : s # r => req'[s] = req[s]
    BY <1>t, <2>2, <2>3 DEF StoredRequest
  <2>7. TypeParts2
    BY <1>t, <2>1, <2>5, <2>6 DEF Label
  <2>8. OthersKept(r)
    BY <1>t, <2>1, <2>6 DEF OthersKept
  <2>9. RequestShape(r)'
    BY <1>t, <2>1, <2>3, <2>6 DEF RequestShape
  <2> QED
    BY <1>s, <2>7, <2>8, <2>9
<1>7. CASE Open(r)
  <2>1. /\ UNCHANGED <<dirs, faults, entity_id_map, up, req, ids, acked>>
        /\ pc[r] = "open"
        /\ pc' = [pc EXCEPT ![r] = "write"]
        /\ files' = WriteFile(files, req[r].e, req[r].n, Truncated)
    BY <1>7 DEF Open, aux, At, Goto
  <2>2. files' \in [EntityName -> [FileName -> Content]]
    BY <1>t, <1>r, <2>1, WriteFileIn DEF Content
  <2>3. TypeParts2
    BY <1>t, <2>1, <2>2 DEF Label
  <2>4. OthersKept(r)
    BY <1>t, <2>1 DEF OthersKept
  <2>5. RequestShape(r)'
    BY <1>t, <2>1 DEF RequestShape
  <2> QED
    BY <1>s, <2>3, <2>4, <2>5
<1>w. ASSUME Written(r), pc[r] \in {"open", "write"},
             files' \in [EntityName -> [FileName -> Content]],
             faults' \subseteq EntityName \X FileName,
             UNCHANGED <<dirs, entity_id_map, up, ids>>
      PROVE  ShapeInv'
  <2>1. CASE req[r].op = "create"
    <3>1. Finish(r, 201, {}, Absent)
      BY <1>w, <2>1 DEF Written
    <3> QED
      BY <1>f, <1>t, <1>w, <3>1
  <2>2. CASE req[r].op # "create"
    <3>1. UNCHANGED <<req, acked>> /\ pc' = [pc EXCEPT ![r] = "insert"]
      BY <1>w, <2>2 DEF Written, aux, Goto
    <3>2. TypeParts2
      BY <1>t, <1>w, <3>1 DEF Label
    <3>3. OthersKept(r)
      BY <1>t, <1>w, <3>1 DEF OthersKept
    <3>4. RequestShape(r)'
      BY <1>t, <1>w, <2>2, <3>1 DEF RequestShape
    <3> QED
      BY <1>s, <3>2, <3>3, <3>4
  <2> QED
    BY <2>1, <2>2
<1>8. CASE Write(r)
  <2>1. /\ UNCHANGED <<dirs, entity_id_map, up, ids>>
        /\ pc[r] = "write"
        /\ Written(r)
        /\ faults' \subseteq EntityName \X FileName
    BY <1>t, <1>8 DEF Write, At
  <2>2. \/ files' = files
        \/ files' = WriteFile(files, req[r].e, req[r].n, req[r].b)
    BY <1>8 DEF Write
  <2>3. req[r].b \in Content
    BY <1>r DEF Content
  <2>4. WriteFile(files, req[r].e, req[r].n, req[r].b) \in [EntityName -> [FileName -> Content]]
    <3> DEFINE b == req[r].b
    <3>1. b \in Content
      BY <2>3
    <3> HIDE DEF b
    <3>2. WriteFile(files, req[r].e, req[r].n, b) \in [EntityName -> [FileName -> Content]]
      BY <1>t, <1>r, <3>1, WriteFileIn
    <3> QED
      BY <3>2 DEF b
  <2>5. files' \in [EntityName -> [FileName -> Content]]
    BY <1>t, <2>2, <2>4
  <2> QED
    BY <1>w, <2>1, <2>5
<1>9. CASE WriteFails(r)
  <2>1. /\ UNCHANGED <<dirs, files, entity_id_map, up, ids>>
        /\ pc[r] \in {"open", "write"}
        /\ Written(r)
        /\ faults' = faults \cup {<<req[r].e, req[r].n>>}
    BY <1>9 DEF WriteFails, At, Target
  <2> QED
    BY <1>t, <1>r, <1>w, <2>1
<1>10. CASE ListStep(r)
  <2>1. /\ UNCHANGED <<dirs, files, faults, entity_id_map, up, ids>>
        /\ pc[r] = "list"
        /\ \E listed : Finish(r, 200, listed, Absent)
    BY <1>10 DEF ListStep, disk, At
  <2> QED
    BY <1>f, <1>t, <2>1
<1>11. CASE Read(r)
  <2>1. /\ UNCHANGED <<dirs, files, faults, entity_id_map, up, ids, acked>>
        /\ pc[r] = "read"
        /\ pc' = [pc EXCEPT ![r] = "insert"]
    BY <1>11 DEF Read, disk, aux, At, Goto
  <2>2. PICK b \in {Truncated} \cup Body : req' = [req EXCEPT ![r].b = b]
    <3>1. files[req[r].e][req[r].n] \in Content
      BY <1>t, <1>r
    <3> QED
      BY <1>11, <3>1 DEF Read, Content
  <2>3. /\ req' \in [Runner -> StoredRequest]
        /\ req'[r].op = req[r].op /\ req'[r].n = req[r].n
        /\ \A s \in Runner : s # r => req'[s] = req[s]
    BY <1>t, <2>2 DEF StoredRequest
  <2>4. TypeParts2
    BY <1>t, <2>1, <2>3 DEF Label
  <2>5. OthersKept(r)
    BY <1>t, <2>1, <2>3 DEF OthersKept
  <2>6. RequestShape(r)'
    BY <1>t, <2>1, <2>3 DEF RequestShape
  <2> QED
    BY <1>s, <2>4, <2>5, <2>6
<1>12. CASE Remove(r)
  <2>1. /\ UNCHANGED <<dirs, entity_id_map, up, ids>>
        /\ pc[r] = "remove"
        /\ files' = WriteFile(files, req[r].e, req[r].n, Absent)
        /\ faults' \subseteq EntityName \X FileName
    BY <1>t, <1>r, <1>12 DEF Remove, At, Target
  <2>2. files' \in [EntityName -> [FileName -> Content]]
    BY <1>t, <1>r, <2>1, WriteFileIn DEF Content
  <2>3. CASE req[r].op = "delete" /\ Numeric(req[r].n)
    <3>1. UNCHANGED <<req, acked>> /\ pc' = [pc EXCEPT ![r] = "erase"]
      BY <1>12, <2>3 DEF Remove, aux, Goto
    <3>2. TypeParts2
      BY <1>t, <2>1, <2>2, <3>1 DEF Label
    <3>3. OthersKept(r)
      BY <1>t, <2>1, <3>1 DEF OthersKept
    <3>4. RequestShape(r)'
      BY <1>t, <2>1, <2>3, <3>1 DEF RequestShape
    <3> QED
      BY <1>s, <3>2, <3>3, <3>4
  <2>4. CASE ~(req[r].op = "delete" /\ Numeric(req[r].n))
    <3>1. Finish(r, 200, {}, Absent)
      BY <1>12, <2>4 DEF Remove
    <3> QED
      BY <1>f, <1>t, <2>1, <2>2, <3>1
  <2> QED
    BY <2>3, <2>4
<1>13. CASE CopyIds(r)
  <2> DEFINE i == ItemId(req[r])
  <2>1. /\ UNCHANGED <<dirs, files, faults, entity_id_map, up, req, acked>>
        /\ pc[r] \in {"insert", "erase"}
    BY <1>13 DEF CopyIds, disk, aux, At
  <2>2. pc[r] = "insert" => i \in FileId
    BY <1>t, <1>r, <2>1, StoiIsFileId DEF RequestShape, ItemId
  <2>3. PICK l \in {"insertnew", "insertback", "eraseback"}, m \in MapType :
          /\ pc' = [pc EXCEPT ![r] = l]
          /\ l = "eraseback" <=> pc[r] = "erase"
          /\ ids' = [ids EXCEPT ![r] = Changed(m, req[r].e)]
    <3>1. CASE pc[r] = "insert"
      BY <1>13, <1>t, <1>r, <2>2, <3>1, InsertType DEF CopyIds, ExistingIDs, At, Goto
    <3>2. CASE pc[r] = "erase"
      BY <1>13, <1>t, <1>r, <2>2, <3>2, EraseType DEF CopyIds, ExistingIDs, At, Goto
    <3> QED
      BY <2>1, <3>1, <3>2
  <2>4. Changed(m, req[r].e) \in {NoEntry} \cup SUBSET FileId
    BY <1>r, <2>3 DEF Changed, MapType
  <2>5. TypeParts2
    BY <1>t, <2>1, <2>3, <2>4 DEF Label
  <2>6. OthersKept(r)
    BY <1>t, <2>1, <2>3 DEF OthersKept
  <2>7. RequestShape(r)'
    BY <1>t, <2>1, <2>3 DEF RequestShape
  <2> QED
    BY <1>s, <2>5, <2>6, <2>7
<1>b. ASSUME WriteBack(r), UNCHANGED <<dirs, files, faults, up>>, pc[r] # "idle",
             NEW code, NEW body, Finish(r, code, {}, body)
      PROVE  ShapeInv'
  <2>1. entity_id_map' \in MapType
    <3>1. ids[r] # NoEntry => ids[r] \in SUBSET FileId
      BY <1>t
    <3> QED
      BY <1>b, <1>t, <1>r, <3>1 DEF WriteBack, MapType
  <2>2. ids' = [ids EXCEPT ![r] = {}]
    BY <1>b DEF WriteBack
  <2> QED
    BY <1>b, <1>f, <1>t, <2>1, <2>2
<1>14. CASE InsertBack(r)
  <2>1. /\ WriteBack(r)
        /\ UNCHANGED <<dirs, files, faults, up>>
        /\ pc[r] # "idle"
        /\ \E body : Finish(r, 200, {}, body)
    BY <1>14 DEF InsertBack, disk, At
  <2> QED
    BY <1>b, <2>1
<1>15. CASE EraseBack(r)
  <2>1. /\ WriteBack(r)
        /\ UNCHANGED <<dirs, files, faults, up>>
        /\ pc[r] # "idle"
        /\ \E code : Finish(r, code, {}, Absent)
    BY <1>15 DEF EraseBack, disk, At
  <2> QED
    BY <1>b, <2>1
<1> QED
  BY <1>1, <1>2, <1>3, <1>4, <1>5, <1>6, <1>7, <1>8, <1>9, <1>10, <1>11, <1>12, <1>13,
     <1>14, <1>15 DEF Step

\* A request dispatched: parse_url_target lets only numbers through to files.
LEMMA BeginShape ==
    ASSUME ShapeInv, NEW r \in Runner, NEW q \in RequestType, Begin(r, q)
    PROVE  ShapeInv'
<1>1. /\ pc \in [Runner -> Label]
      /\ req \in [Runner -> StoredRequest]
      /\ acked \in DiskType
      /\ TypeOK
  BY TypeParts DEF ShapeInv
<1>2. /\ pc[r] = "idle"
      /\ pc' = [pc EXCEPT ![r] = "check"]
      /\ req' = [req EXCEPT ![r] = q]
      /\ UNCHANGED <<dirs, files, faults, entity_id_map, up, ids>>
      /\ Accepted(q)
  BY DEF Begin, At, Goto, disk
<1>3. /\ q.op \in Method /\ q.e \in EntityName /\ q.n \in FileName /\ q.b \in Body
      /\ q \in StoredRequest
  BY DEF RequestType, StoredRequest
<1>4. acked' \in DiskType
  BY <1>1, <1>3, WriteFileType DEF Begin
<1>5. TypeOK'
  <2>1. pc' \in [Runner -> Label] /\ req' \in [Runner -> StoredRequest]
    BY <1>1, <1>2, <1>3 DEF Label
  <2> QED
    BY <1>1, <1>2, <1>4, <2>1 DEF TypeOK, StoredRequest
<1>6. OthersKept(r)
  BY <1>1, <1>2 DEF OthersKept
<1>7. q.op \notin {"delete", "detour"} => Numeric(q.n)
  <2>1. Numeric(ToString[1])
    BY NewIdIsFileId, MaxIdAssumption
  <2> QED
    BY <1>2, <1>3, <2>1, IdOfNumeric DEF Accepted, Method
<1>8. RequestShape(r)'
  BY <1>1, <1>2, <1>3, <1>7 DEF RequestShape
<1> QED
  BY <1>5, <1>6, <1>8, ShapeOfStep

LEMMA NextShape == ShapeInv /\ [Next]_vars => ShapeInv'
<1> SUFFICES ASSUME ShapeInv, [Next]_vars PROVE ShapeInv'
  OBVIOUS
<1>1. CASE UNCHANGED vars
  BY <1>1 DEF vars, ShapeInv, TypeOK, RequestShape
<1>2. ASSUME NEW r \in Runner, NEW q \in RequestType, Begin(r, q) PROVE ShapeInv'
  BY <1>2, BeginShape
<1>3. ASSUME NEW r \in Runner, Step(r) PROVE ShapeInv'
  BY <1>3, StepShape
<1>4. CASE Crash
  BY <1>4 DEF Crash, disk, aux, ShapeInv, TypeOK, RequestShape
<1>5. CASE Restart
  <2>1. /\ UNCHANGED <<dirs, files, faults, acked>>
        /\ up' = TRUE
        /\ pc' = [r \in Runner |-> "idle"]
        /\ req' = [r \in Runner |-> IdleRequest]
        /\ ids' = [r \in Runner |-> {}]
    BY <1>5 DEF Restart, disk
  <2>2. entity_id_map' \in MapType
    BY <1>5, ScanFSType DEF Restart
  <2>3. req' \in [Runner -> StoredRequest]
    BY <2>1, IdleRequestType DEF RequestType, StoredRequest
  <2>4. TypeOK'
    BY <2>1, <2>2, <2>3 DEF ShapeInv, TypeOK, StoredRequest, Label
  <2>5. ASSUME NEW r \in Runner PROVE RequestShape(r)'
    BY <2>1, IdleShape
  <2> QED
    BY <2>4, <2>5 DEF ShapeInv
<1> QED
  BY <1>1, <1>2, <1>3, <1>4, <1>5 DEF Next

\* With any number of threads in the handlers, crashes and disk errors: the
\* copies get_response works on, the index and the disk keep their types, and
\* no response acknowledges content that is no request's body.
THEOREM StepsTypeCorrect == Spec => []TypeOK
<1>1. ShapeInv => TypeOK
  BY DEF ShapeInv
<1> QED
  BY <1>1, InitShape, NextShape, PTL DEF Spec

-----------------------------------------------------------------------------

\* A file is in a directory.
FilesInDirs == \A e \in EntityName \ dirs, n \in FileName : files[e][n] = Absent

\* The directory a step relies on is there.
InDir(r) ==
    pc[r] \notin {"idle", "check", "mkdir", "erase", "eraseback"} => req[r].e \in dirs

\* Runner r will give e its key before it answers.
KeyUnderWay(r, e) ==
    req[r].e = e /\ pc[r] \in {"insertkey", "open", "write", "insert", "insertback", "insertnew"}

\* An entity has a key when it has a directory, or will have one.
KeysAreDirs ==
    \A e \in EntityName :
        /\ entity_id_map[e] # NoEntry => e \in dirs
        /\ e \in dirs => entity_id_map[e] # NoEntry \/ \E r \in Runner : KeyUnderWay(r, e)

\* get_next_id finds the key, its copy is current, and the id it chose is taken.
HasKey(r) ==
    /\ pc[r] \in {"nextid", "nextidback"} => entity_id_map[req[r].e] # NoEntry
    /\ pc[r] = "nextidback" => ids[r] = entity_id_map[req[r].e]
    /\ pc[r] \in {"open", "write"} /\ req[r].op = "create" =>
           /\ entity_id_map[req[r].e] # NoEntry
           /\ Stoi[req[r].n] \in entity_id_map[req[r].e]

\* The index lists id i of entity e.
InIndex(e, i) == entity_id_map[e] # NoEntry /\ i \in entity_id_map[e]

\* Runner r is at item i of e, between the disk and the index.
Mending(r, e, i) ==
    /\ req[r].e = e
    /\ req[r].op # "list"
    /\ Stoi[req[r].n] = i
    /\ pc[r] \in {"open", "write", "insert", "insertback", "insertnew", "erase", "eraseback"}

\* Index and disk agree about every item but the one under way and those the
\* disk refused to write or a longer target removed.
IndexFollows ==
    \A e \in EntityName, n \in FileName :
        Numeric(n) /\ <<e, n>> \notin faults =>
            \/ InIndex(e, Stoi[n]) <=> files[e][n] # Absent
            \/ \E r \in Runner : Mending(r, e, Stoi[n])

\* What a write-back will make of the index.
WithCopy(map, e, copy) == IF copy = NoEntry THEN map ELSE [map EXCEPT ![e] = copy]

Back(r) == WithCopy(entity_id_map, req[r].e, ids[r])

\* The copy of the ids is what the index, changed, would be.
CopyFits(r) ==
    /\ pc[r] \in {"insertback", "insertnew"} =>
           Back(r) = InsertIfNotExist(entity_id_map, req[r].e, Stoi[req[r].n])
    /\ pc[r] = "insertnew" => entity_id_map[req[r].e] = NoEntry
    /\ pc[r] = "eraseback" => Back(r) = EraseIfExist(entity_id_map, req[r].e, ItemId(req[r]))

\* The content of the file the request is about.
OnDisk(r) == files[req[r].e][req[r].n]

\* What the request found or left on the disk is still there; the file get_next_id
\* chose a name for was not there.
FileFits(r) ==
    /\ pc[r] = "open" /\ req[r].op = "create" => OnDisk(r) = Absent \/ Target(r) \in faults
    /\ pc[r] = "write" => OnDisk(r) = Truncated
    /\ pc[r] \in {"read", "insert", "insertback", "insertnew"} /\ req[r].op = "retrieve" =>
           OnDisk(r) # Absent
    /\ pc[r] \in {"insert", "insertback", "insertnew"} /\ req[r].op = "update" =>
           OnDisk(r) = req[r].b \/ Target(r) \in faults
    /\ pc[r] \in {"erase", "eraseback"} /\ req[r].op # "list" => OnDisk(r) = Absent
    /\ pc[r] # "idle" /\ req[r].op \in {"update", "delete", "detour"} =>
           acked[req[r].e][req[r].n] = Absent

\* The inductive invariant of requests that keep apart.
StepInv ==
    /\ TypeOK
    /\ FilesInDirs
    /\ KeysAreDirs
    /\ IndexFollows
    /\ AckedSurvives
    /\ \A r \in Runner : RequestShape(r) /\ InDir(r) /\ HasKey(r) /\ CopyFits(r) /\ FileFits(r)

\* The premise of the results below: the pool of server::run has one thread,
\* as it has by default (num_threads = 1) or when the configuration asks for one.
OneRunner == \A r, s \in Runner : r = s

-----------------------------------------------------------------------------
(* The index and the disk after a scan. *)

\* scanFS makes index and disk agree.
LEMMA ScanFits ==
    ASSUME CanonicalIds, FilesInDirs, entity_id_map = ScanFS(dirs, files)
    PROVE  /\ KeysAreDirs
           /\ \A e \in EntityName, n \in FileName :
                  Numeric(n) => (InIndex(e, Stoi[n]) <=> files[e][n] # Absent)
<1>1. \A e \in EntityName : (entity_id_map[e] # NoEntry) <=> e \in dirs
  BY ScanFSType
<1>2. \A e \in EntityName : e \in dirs => entity_id_map[e] = DiskIds(files, e)
  BY ScanFSType
<1>3. \A e \in EntityName, n \in FileName :
          Numeric(n) => (Stoi[n] \in DiskIds(files, e) <=> files[e][n] # Absent)
  BY DiskIdsMember
<1> QED
  BY <1>1, <1>2, <1>3 DEF KeysAreDirs, InIndex, FilesInDirs

\* The clauses about a request say nothing of a runner that has none.
LEMMA IdleFits ==
    ASSUME NEW r \in Runner, pc[r] = "idle"
    PROVE  InDir(r) /\ HasKey(r) /\ CopyFits(r) /\ FileFits(r)
BY DEF InDir, HasKey, CopyFits, FileFits

LEMMA InitInv == Canonical /\ Init => StepInv
<1> SUFFICES ASSUME Canonical, Init PROVE StepInv
  OBVIOUS
<1>1. ShapeInv
  BY InitShape
<1>2. FilesInDirs
  BY DEF Init, FilesInDirs
<1>3. KeysAreDirs /\ IndexFollows
  BY <1>2, ScanFits DEF Init, IndexFollows, Canonical
<1>4. AckedSurvives
  BY DEF Init, EmptyDisk, AckedSurvives
<1>5. ASSUME NEW r \in Runner PROVE InDir(r) /\ HasKey(r) /\ CopyFits(r) /\ FileFits(r)
  BY IdleFits DEF Init
<1> QED
  BY <1>1, <1>2, <1>3, <1>4, <1>5 DEF StepInv, ShapeInv

\* What a response does to the bodies acknowledged.
LEMMA FinishAcked ==
    ASSUME ShapeInv, NEW r \in Runner, pc[r] # "idle", NEW code, NEW listed, NEW body,
           Finish(r, code, listed, body)
    PROVE  /\ \A f \in EntityName, m \in FileName :
                  f # req[r].e \/ m # req[r].n => acked'[f][m] = acked[f][m]
           /\ \/ acked' = acked
              \/ /\ req[r].op \in {"create", "update"}
                 /\ acked'[req[r].e][req[r].n] = req[r].b
           /\ code \notin {200, 201} \/ req[r].op \notin {"create", "update"} => acked' = acked
<1>1. /\ req \in [Runner -> StoredRequest]
      /\ acked \in DiskType
      /\ RequestShape(r)
  BY TypeParts DEF ShapeInv
<1>2. CASE code \in {200, 201} /\ req[r].op \in {"create", "update"}
  <2>1. acked' = WriteFile(acked, req[r].e, req[r].n, req[r].b)
    BY <1>2 DEF Finish
  <2>2. req[r].e \in EntityName /\ req[r].n \in FileName /\ req[r].b \in Body
    BY <1>1, <1>2 DEF StoredRequest, RequestShape
  <2> QED
    BY <1>1, <1>2, <2>1, <2>2, WriteFileType
<1>3. CASE ~(code \in {200, 201} /\ req[r].op \in {"create", "update"})
  BY <1>3 DEF Finish
<1> QED
  BY <1>2, <1>3

\* A request dispatched, to an entity no other request is at.
LEMMA BeginInv ==
    ASSUME StepInv, Apart', NEW r \in Runner, NEW q \in RequestType, Begin(r, q)
    PROVE  StepInv'
<1>t. /\ pc \in [Runner -> Label] /\ req \in [Runner -> StoredRequest] /\ acked \in DiskType
      /\ ShapeInv
  BY TypeParts DEF StepInv, ShapeInv
<1>1. ShapeInv'
  BY <1>t, BeginShape
<1>2. /\ pc[r] = "idle" /\ pc'[r] = "check" /\ req'[r] = q
      /\ UNCHANGED <<dirs, files, faults, entity_id_map, ids>>
      /\ \A s \in Runner : s # r => pc'[s] = pc[s] /\ req'[s] = req[s]
  BY <1>t DEF Begin, At, Goto, disk
<1>3. q.e \in EntityName /\ q.n \in FileName
  BY DEF RequestType
<1>4. /\ q.op \in {"update", "delete", "detour"} => acked'[q.e][q.n] = Absent
      /\ \A e \in EntityName, n \in FileName : acked'[e][n] # Absent => acked'[e][n] = acked[e][n]
      /\ \A e \in EntityName, n \in FileName : e # q.e => acked'[e][n] = acked[e][n]
  BY <1>t, <1>3, WriteFileType DEF Begin
<1>5. FilesInDirs'
  BY <1>2 DEF StepInv, FilesInDirs
<1>6. \A s \in Runner : s # r => pc[s] = "idle" \/ req[s].e # q.e
  BY <1>2 DEF Apart
<1>7. KeysAreDirs'
  <2>1. \A s \in Runner, e \in EntityName : KeyUnderWay(s, e) => KeyUnderWay(s, e)'
    BY <1>2 DEF KeyUnderWay
  <2> QED
    BY <1>2, <2>1 DEF StepInv, KeysAreDirs
<1>8. IndexFollows'
  <2>1. \A s \in Runner, e \in EntityName : \A j : Mending(s, e, j) => Mending(s, e, j)'
    BY <1>2 DEF Mending
  <2> QED
    BY <1>2, <2>1 DEF StepInv, IndexFollows, InIndex
<1>9. AckedSurvives'
  BY <1>2, <1>4 DEF StepInv, AckedSurvives
<1>10. ASSUME NEW s \in Runner PROVE InDir(s)' /\ HasKey(s)' /\ CopyFits(s)' /\ FileFits(s)'
  <2>1. CASE s = r
    BY <1>2, <1>4, <2>1 DEF InDir, HasKey, CopyFits, FileFits
  <2>2. CASE s # r
    <3>1. InDir(s) /\ HasKey(s) /\ CopyFits(s) /\ FileFits(s)
      BY DEF StepInv
    <3>2. pc'[s] = pc[s] /\ req'[s] = req[s]
      BY <1>2, <2>2
    <3>3. pc[s] # "idle" => acked'[req[s].e][req[s].n] = acked[req[s].e][req[s].n]
      BY <1>4, <1>6, <1>t, <2>2 DEF StoredRequest
    <3>4. InDir(s)' /\ HasKey(s)' /\ CopyFits(s)'
      BY <1>2, <3>1, <3>2 DEF InDir, HasKey, CopyFits, Back
    <3> QED
      BY <1>2, <3>1, <3>2, <3>3, <3>4 DEF FileFits, OnDisk, Target
  <2> QED
    BY <2>1, <2>2
<1> QED
  BY <1>1, <1>5, <1>7, <1>8, <1>9, <1>10 DEF StepInv, ShapeInv

\* The copy of the ids, just made and changed.
LEMMA CopyIdsFits ==
    ASSUME ShapeInv, NEW r \in Runner, CopyIds(r)
    PROVE  /\ UNCHANGED <<dirs, files, faults, entity_id_map, req, resp, saved, acked>>
           /\ pc[r] = "insert" => pc'[r] = IF entity_id_map[req[r].e] = NoEntry
                                           THEN "insertnew" ELSE "insertback"
           /\ pc[r] = "erase" => pc'[r] = "eraseback"
           /\ pc[r] \in {"insert", "erase"}
           /\ CopyFits(r)'
<1>1. /\ entity_id_map \in MapType
      /\ pc \in [Runner -> Label]
      /\ ids \in [Runner -> {NoEntry} \cup SUBSET FileId]
      /\ req \in [Runner -> StoredRequest]
      /\ RequestShape(r)
  BY TypeParts DEF ShapeInv
<1>2. PICK e \in EntityName, n \in FileName : req[r].e = e /\ req[r].n = n
  BY <1>1 DEF StoredRequest
<1>3. /\ UNCHANGED <<dirs, files, faults, entity_id_map, req, resp, saved, acked>>
      /\ pc[r] \in {"insert", "erase"}
  BY DEF CopyIds, disk, aux, At
<1>4. pc[r] = "insert" => Numeric(n) /\ ItemId(req[r]) = Stoi[n]
  BY <1>1, <1>2, <1>3 DEF RequestShape, ItemId
<1>5. PICK i : ItemId(req[r]) = i /\ (pc[r] = "insert" => i = Stoi[n] /\ i \in FileId)
  BY <1>2, <1>4, StoiIsFileId
<1>6. /\ pc[r] = "insert" =>
             /\ pc'[r] = IF entity_id_map[e] = NoEntry THEN "insertnew" ELSE "insertback"
             /\ ids'[r] = Changed(InsertIfNotExist(entity_id_map, e, i), e)
      /\ pc[r] = "erase" => /\ pc'[r] = "eraseback"
                            /\ ids'[r] = Changed(EraseIfExist(entity_id_map, e, i), e)
  BY <1>1, <1>2, <1>5 DEF CopyIds, ExistingIDs, At, Goto
<1>7. ASSUME NEW m \in MapType, \A f \in EntityName : f # e => m[f] = entity_id_map[f],
             m = entity_id_map \/ m[e] # NoEntry, ids'[r] = Changed(m, e)
      PROVE  Back(r)' = m
  <2>1. CASE m = entity_id_map
    BY <1>3, <1>7, <2>1 DEF Back, WithCopy, Changed
  <2>2. CASE m # entity_id_map
    <3>1. ids'[r] = m[e] /\ m[e] # NoEntry
      BY <1>7, <2>2 DEF Changed
    <3>2. m = [entity_id_map EXCEPT ![e] = m[e]]
      BY <1>1, <1>7 DEF MapType
    <3> QED
      BY <1>2, <1>3, <3>1, <3>2 DEF Back, WithCopy
  <2> QED
    BY <2>1, <2>2
<1>8. CASE pc[r] = "insert"
  <2>0. i = Stoi[n] /\ i \in FileId
    BY <1>5, <1>8
  <2>1. Back(r)' = InsertIfNotExist(entity_id_map, e, i)
    BY <1>1, <1>6, <1>7, <1>8, <2>0, InsertType
  <2> QED
    BY <1>2, <1>3, <1>6, <1>8, <2>0, <2>1 DEF CopyFits
<1>9. CASE pc[r] = "erase"
  <2>1. Back(r)' = EraseIfExist(entity_id_map, e, i)
    BY <1>1, <1>6, <1>7, <1>9, EraseType
  <2> QED
    BY <1>2, <1>3, <1>5, <1>6, <1>9, <2>1 DEF CopyFits
<1> QED
  BY <1>3, <1>8, <1>9

\* A runner that takes a step has a request.
LEMMA StepIsBusy == ASSUME NEW r, Step(r) PROVE pc[r] # "idle"
BY DEF Step, At, CheckFound, CheckMissing, Mkdir, InsertKeyStep, NextId, NextIdBack, Open,
       Write, WriteFails, ListStep, Read, Remove, CopyIds, InsertBack, EraseBack

\* A step of runner r changes nothing of the entities its request is not about.
OwnEntity(r) ==
    /\ dirs \subseteq dirs'
    /\ \A f \in EntityName : f # req[r].e =>
           /\ f \in dirs' <=> f \in dirs
           /\ entity_id_map'[f] = entity_id_map[f]
           /\ \A m \in FileName :
                  /\ files'[f][m] = files[f][m]
                  /\ acked'[f][m] = acked[f][m]
                  /\ <<f, m>> \in faults' <=> <<f, m>> \in faults

\* A step is about one runner and one entity.
LEMMA StepFrame ==
    ASSUME ShapeInv, NEW r \in Runner, Step(r)
    PROVE  OthersKept(r) /\ OwnEntity(r)
<1>t. /\ files \in [EntityName -> [FileName -> Content]]
      /\ entity_id_map \in MapType
      /\ pc \in [Runner -> Label]
      /\ req \in [Runner -> StoredRequest]
      /\ ids \in [Runner -> {NoEntry} \cup SUBSET FileId]
      /\ acked \in DiskType
      /\ RequestShape(r)
  BY TypeParts DEF ShapeInv
<1>r. PICK e \in EntityName, n \in FileName : req[r].e = e /\ req[r].n = n
  BY <1>t DEF StoredRequest
<1>p. pc[r] # "idle"
  BY StepIsBusy
<1>w. \A c \in Content, f \in EntityName, m \in FileName :
          f # e => WriteFile(files, e, n, c)[f][m] = files[f][m]
  BY <1>r, <1>t, ContentWritten
<1>b. req[r].b \in Content
  BY <1>t DEF StoredRequest, Content
<1>g. ASSUME NEW label, Goto(r, label), UNCHANGED req
      PROVE  \A s \in Runner \ {r} : pc'[s] = pc[s] /\ req'[s] = req[s]
  BY <1>g, <1>t DEF Goto
<1>f. ASSUME NEW code, NEW listed, NEW body, Finish(r, code, listed, body)
      PROVE  /\ \A s \in Runner \ {r} : pc'[s] = pc[s] /\ req'[s] = req[s]
             /\ \A f \in EntityName, m \in FileName : f # e => acked'[f][m] = acked[f][m]
  <2>1. \A s \in Runner \ {r} : pc'[s] = pc[s] /\ req'[s] = req[s]
    BY <1>f, <1>t DEF Finish, Goto
  <2> QED
    BY <1>f, <1>p, <1>r, <2>1, FinishAcked
<1>1. CASE CheckFound(r)
  BY <1>1, <1>t DEF CheckFound, Goto, disk, aux, OthersKept, OwnEntity
<1>2. CASE CheckMissing(r)
  <2>1. UNCHANGED <<dirs, files, faults, entity_id_map, ids>>
    BY <1>2 DEF CheckMissing, disk
  <2>2. CASE Finish(r, 404, {}, Absent)
    BY <1>f, <1>r, <2>1, <2>2 DEF OthersKept, OwnEntity
  <2>3. CASE ~Finish(r, 404, {}, Absent)
    <3>1. UNCHANGED <<req, acked>> /\ \E label : Goto(r, label)
      BY <1>2, <2>3 DEF CheckMissing, aux
    <3> QED
      BY <1>g, <2>1, <3>1 DEF OthersKept, OwnEntity
  <2> QED
    BY <2>2, <2>3
<1>3. CASE Mkdir(r)
  BY <1>3, <1>r, <1>t DEF Mkdir, Goto, aux, OthersKept, OwnEntity
<1>4. CASE InsertKeyStep(r)
  <2>1. \A f \in EntityName : f # e => entity_id_map'[f] = entity_id_map[f]
    BY <1>4, <1>r, <1>t, InsertKeyType DEF InsertKeyStep
  <2> QED
    BY <1>4, <1>r, <1>t, <2>1 DEF InsertKeyStep, Goto, disk, aux, OthersKept, OwnEntity
<1>5. CASE NextId(r)
  BY <1>5, <1>t DEF NextId, ExistingIDs, Goto, disk, aux, OthersKept, OwnEntity
<1>6. CASE NextIdBack(r)
  <2>1. PICK id : /\ entity_id_map' = [entity_id_map EXCEPT ![e] = ids[r] \cup {id}]
                  /\ req' = [req EXCEPT ![r].n = ToString[id]]
    BY <1>6, <1>r DEF NextIdBack
  <2>2. \A f \in EntityName : f # e => entity_id_map'[f] = entity_id_map[f]
    BY <1>t, <2>1 DEF MapType
  <2> QED
    BY <1>6, <1>r, <1>t, <2>1, <2>2 DEF NextIdBack, Goto, disk, aux, OthersKept, OwnEntity
<1>7. CASE Open(r)
  <2>1. \A f \in EntityName, m \in FileName : f # e => files'[f][m] = files[f][m]
    BY <1>7, <1>r, <1>w DEF Open, Content
  <2> QED
    BY <1>7, <1>r, <1>t, <2>1 DEF Open, Goto, aux, OthersKept, OwnEntity
<1>v. ASSUME Written(r)
      PROVE  /\ \A s \in Runner \ {r} : pc'[s] = pc[s] /\ req'[s] = req[s]
             /\ \A f \in EntityName, m \in FileName : f # e => acked'[f][m] = acked[f][m]
  BY <1>f, <1>g, <1>v DEF Written, aux
<1>8. CASE Write(r)
  <2>1. \A f \in EntityName, m \in FileName : f # e => files'[f][m] = files[f][m]
    BY <1>8, <1>b, <1>r, <1>w DEF Write
  <2>2. Written(r) /\ UNCHANGED <<dirs, entity_id_map, ids>> /\ faults' = faults \ {<<e, n>>}
    BY <1>8, <1>r DEF Write, Target
  <2> QED
    BY <1>r, <1>v, <2>1, <2>2 DEF OthersKept, OwnEntity
<1>9. CASE WriteFails(r)
  <2>1. Written(r) /\ UNCHANGED <<dirs, files, entity_id_map, ids>> /\ faults' = faults \cup {<<e, n>>}
    BY <1>9, <1>r DEF WriteFails, Target
  <2> QED
    BY <1>r, <1>v, <2>1 DEF OthersKept, OwnEntity
<1>10. CASE ListStep(r)
  <2>1. PICK listed : Finish(r, 200, listed, Absent)
    BY <1>10 DEF ListStep
  <2> QED
    BY <1>10, <1>f, <1>r, <2>1 DEF ListStep, disk, OthersKept, OwnEntity
<1>11. CASE Read(r)
  <2>1. \A s \in Runner \ {r} : req'[s] = req[s]
    BY <1>11, <1>t DEF Read
  <2> QED
    BY <1>11, <1>t, <2>1 DEF Read, Goto, disk, aux, OthersKept, OwnEntity
<1>12. CASE Remove(r)
  <2>1. \A f \in EntityName, m \in FileName : f # e => files'[f][m] = files[f][m]
    BY <1>12, <1>r, <1>w DEF Remove, Content
  <2>2. /\ UNCHANGED <<dirs, entity_id_map, ids>>
        /\ faults' = faults \ {<<e, n>>} \/ faults' = faults \cup {<<e, n>>}
    BY <1>12, <1>r DEF Remove, Target
  <2>3. /\ \A s \in Runner \ {r} : pc'[s] = pc[s] /\ req'[s] = req[s]
        /\ \A f \in EntityName, m \in FileName : f # e => acked'[f][m] = acked[f][m]
    BY <1>12, <1>f, <1>g DEF Remove, aux
  <2> QED
    BY <1>r, <2>1, <2>2, <2>3 DEF OthersKept, OwnEntity
<1>13. CASE CopyIds(r)
  <2>1. UNCHANGED <<dirs, files, faults, entity_id_map, req, acked>>
    BY <1>13 DEF CopyIds, disk, aux
  <2>2. (\E label : Goto(r, label)) /\ (\E c : ids' = [ids EXCEPT ![r] = c])
    BY <1>13 DEF CopyIds, ExistingIDs
  <2> QED
    BY <1>g, <1>t, <2>1, <2>2 DEF OthersKept, OwnEntity
<1>b2. ASSUME WriteBack(r)
       PROVE  /\ \A f \in EntityName : f # e => entity_id_map'[f] = entity_id_map[f]
              /\ \A s \in Runner \ {r} : ids'[s] = ids[s]
  BY <1>b2, <1>r, <1>t DEF WriteBack, MapType
<1>14. CASE InsertBack(r)
  <2>1. PICK body : Finish(r, 200, {}, body)
    BY <1>14 DEF InsertBack
  <2> QED
    BY <1>14, <1>b2, <1>f, <1>r, <2>1 DEF InsertBack, disk, OthersKept, OwnEntity
<1>15. CASE EraseBack(r)
  <2>1. PICK code : Finish(r, code, {}, Absent)
    BY <1>15 DEF EraseBack
  <2> QED
    BY <1>15, <1>b2, <1>f, <1>r, <2>1 DEF EraseBack, disk, OthersKept, OwnEntity
<1> QED
  BY <1>1, <1>2, <1>3, <1>4, <1>5, <1>6, <1>7, <1>8, <1>9, <1>10, <1>11, <1>12, <1>13,
     <1>14, <1>15 DEF Step

\* Whether a copy of the ids is current depends on that entity's ids alone.
LEMMA CopyKept ==
    ASSUME NEW map \in MapType, NEW map2 \in MapType, NEW f \in EntityName, map2[f] = map[f],
           NEW c, NEW i
    PROVE  /\ WithCopy(map, f, c) = InsertIfNotExist(map, f, i) =>
                  WithCopy(map2, f, c) = InsertIfNotExist(map2, f, i)
           /\ WithCopy(map, f, c) = EraseIfExist(map, f, i) =>
                  WithCopy(map2, f, c) = EraseIfExist(map2, f, i)
<1> DEFINE v == IF map[f] = NoEntry THEN {i} ELSE map[f] \cup {i}
           w == IF map[f] = NoEntry THEN map[f] ELSE map[f] \ {i}
           x == IF c = NoEntry THEN map[f] ELSE c
<1>1. ASSUME NEW m \in MapType, m[f] = map[f]
      PROVE  /\ WithCopy(m, f, c) = [m EXCEPT ![f] = x]
             /\ InsertIfNotExist(m, f, i) = [m EXCEPT ![f] = v]
             /\ EraseIfExist(m, f, i) = [m EXCEPT ![f] = w]
  BY <1>1 DEF WithCopy, InsertIfNotExist, EraseIfExist, MapType
<1>2. ASSUME NEW m \in MapType, NEW y, NEW z
      PROVE  [m EXCEPT ![f] = y] = [m EXCEPT ![f] = z] <=> y = z
  BY DEF MapType
<1> HIDE DEF v, w, x
<1>3. /\ WithCopy(map, f, c) = [map EXCEPT ![f] = x]
      /\ InsertIfNotExist(map, f, i) = [map EXCEPT ![f] = v]
      /\ EraseIfExist(map, f, i) = [map EXCEPT ![f] = w]
  BY <1>1
<1>4. /\ WithCopy(map2, f, c) = [map2 EXCEPT ![f] = x]
      /\ InsertIfNotExist(map2, f, i) = [map2 EXCEPT ![f] = v]
      /\ EraseIfExist(map2, f, i) = [map2 EXCEPT ![f] = w]
  BY <1>1
<1>5. x = v => WithCopy(map2, f, c) = InsertIfNotExist(map2, f, i)
  BY <1>4
<1>6. x = w => WithCopy(map2, f, c) = EraseIfExist(map2, f, i)
  BY <1>4
<1>7. WithCopy(map, f, c) = InsertIfNotExist(map, f, i) => x = v
  BY <1>2, <1>3
<1>8. WithCopy(map, f, c) = EraseIfExist(map, f, i) => x = w
  BY <1>2, <1>3
<1> QED
  BY <1>5, <1>6, <1>7, <1>8

\* The clauses about a request to another entity stay.
LEMMA OthersFit ==
    ASSUME StepInv, NEW r \in Runner, NEW s \in Runner, s # r, OthersKept(r), OwnEntity(r),
           ShapeInv', pc[s] = "idle" \/ req[s].e # req[r].e
    PROVE  InDir(s)' /\ HasKey(s)' /\ CopyFits(s)' /\ FileFits(s)'
<1>1. pc'[s] = pc[s] /\ req'[s] = req[s] /\ ids'[s] = ids[s]
  BY DEF OthersKept
<1>2. CASE pc[s] = "idle"
  BY <1>1, <1>2 DEF InDir, HasKey, CopyFits, FileFits
<1>3. CASE pc[s] # "idle"
  <2>1. PICK f \in EntityName, m \in FileName : req[s].e = f /\ req[s].n = m
    BY TypeParts DEF StepInv, StoredRequest
  <2>2. /\ f \in dirs' <=> f \in dirs
        /\ entity_id_map'[f] = entity_id_map[f]
        /\ files'[f][m] = files[f][m]
        /\ acked'[f][m] = acked[f][m]
        /\ <<f, m>> \in faults' <=> <<f, m>> \in faults
    BY <1>3, <2>1 DEF OwnEntity
  <2>3. InDir(s) /\ HasKey(s) /\ CopyFits(s) /\ FileFits(s)
    BY DEF StepInv
  <2>4. InDir(s)' /\ HasKey(s)' /\ FileFits(s)'
    BY <1>1, <2>1, <2>2, <2>3 DEF InDir, HasKey, FileFits, OnDisk, Target
  <2>5. CopyFits(s)'
    <3>1. entity_id_map \in MapType /\ entity_id_map' \in MapType
      BY DEF StepInv, ShapeInv, TypeOK
    <3>2. /\ Back(s) = InsertIfNotExist(entity_id_map, f, Stoi[m]) =>
                 Back(s)' = InsertIfNotExist(entity_id_map', f, Stoi[m])
          /\ Back(s) = EraseIfExist(entity_id_map, f, ItemId(req[s])) =>
                 Back(s)' = EraseIfExist(entity_id_map', f, ItemId(req[s]))
      BY <1>1, <2>1, <2>2, <3>1, CopyKept DEF Back
    <3> QED
      BY <1>1, <2>1, <2>2, <2>3, <3>2 DEF CopyFits
  <2> QED
    BY <2>4, <2>5
<1> QED
  BY <1>2, <1>3

\* A step of a runner whose entity no other request is at, action by action.
LEMMA StepKeepsInv ==
    ASSUME StepInv, Apart, Canonical, NEW r \in Runner, Step(r)
    PROVE  StepInv'
<1>t. /\ dirs \subseteq EntityName
      /\ files \in [EntityName -> [FileName -> Content]]
      /\ entity_id_map \in MapType
      /\ pc \in [Runner -> Label]
      /\ req \in [Runner -> StoredRequest]
      /\ ids \in [Runner -> {NoEntry} \cup SUBSET FileId]
      /\ acked \in DiskType
      /\ ShapeInv
  BY TypeParts DEF StepInv, ShapeInv
<1>e1. PICK e \in EntityName, n \in FileName : req[r].e = e /\ req[r].n = n
  BY <1>t DEF StoredRequest
<1>e2. PICK i : Stoi[n] = i
  OBVIOUS
<1> USE <1>e1, <1>e2
<1>r. /\ e \in EntityName /\ n \in FileName
      /\ req[r].b \in {Truncated} \cup Body /\ req[r].op \in Method
  BY <1>t DEF StoredRequest
<1>i. /\ RequestShape(r) /\ FilesInDirs /\ KeysAreDirs /\ IndexFollows /\ AckedSurvives
      /\ InDir(r) /\ HasKey(r) /\ CopyFits(r) /\ FileFits(r)
  BY DEF StepInv
<1>p. pc[r] # "idle"
  BY StepIsBusy
<1>o. OthersKept(r) /\ OwnEntity(r)
  BY <1>t, StepFrame
<1>z. \A s \in Runner : s # r => pc[s] = "idle" \/ req[s].e # e
  BY <1>p DEF Apart
<1>a. Absent \notin Body /\ Truncated \notin Body /\ Truncated # Absent
  BY AbsentAssumption, TruncatedAssumption
<1>u. \A m \in FileName : Stoi[m] = i /\ Numeric(m) => m = n
  BY <1>r DEF Canonical, CanonicalIds, Numeric
<1>n. \A m \in FileName : Numeric(m) => Stoi[m] # Stoi[e]
  BY DEF Canonical, EntitiesAreNotIds, Numeric
<1>s. ShapeInv'
  BY <1>t, StepShape
<1>g. ASSUME FilesInDirs', KeysAreDirs', IndexFollows', AckedSurvives',
             InDir(r)', HasKey(r)', CopyFits(r)', FileFits(r)'
      PROVE  StepInv'
  <2>1. ASSUME NEW s \in Runner PROVE InDir(s)' /\ HasKey(s)' /\ CopyFits(s)' /\ FileFits(s)'
    <3>1. CASE s = r
      BY <1>g, <3>1
    <3>2. CASE s # r
      BY <1>o, <1>s, <1>z, <3>2, OthersFit
    <3> QED
      BY <3>1, <3>2
  <2> QED
    BY <1>g, <1>s, <2>1 DEF StepInv, ShapeInv
\* The clauses about entities, at the one entity the step is about.
<1>l. /\ entity_id_map[e] # NoEntry => e \in dirs
      /\ e \in dirs => entity_id_map[e] # NoEntry \/ KeyUnderWay(r, e)
      /\ \A m \in FileName : Numeric(m) /\ <<e, m>> \notin faults =>
             \/ InIndex(e, Stoi[m]) <=> files[e][m] # Absent
             \/ Mending(r, e, Stoi[m])
  <2>1. \A s \in Runner : s # r => ~KeyUnderWay(s, e) /\ \A j : ~Mending(s, e, j)
    BY <1>z DEF KeyUnderWay, Mending
  <2> QED
    BY <1>i, <1>r, <2>1 DEF KeysAreDirs, IndexFollows
<1>d. ASSUME entity_id_map'[e] # NoEntry => e \in dirs',
             e \in dirs' => entity_id_map'[e] # NoEntry \/ KeyUnderWay(r, e)'
      PROVE  KeysAreDirs'
  <2>1. ASSUME NEW f \in EntityName, f # e
        PROVE  /\ entity_id_map'[f] = entity_id_map[f] /\ (f \in dirs' <=> f \in dirs)
               /\ \A s \in Runner : KeyUnderWay(s, f) => KeyUnderWay(s, f)'
    BY <1>o, <2>1 DEF OwnEntity, OthersKept, KeyUnderWay
  <2> QED
    BY <1>d, <1>i, <1>r, <2>1 DEF KeysAreDirs
<1>j. ASSUME \A m \in FileName : Numeric(m) /\ <<e, m>> \notin faults' =>
                 \/ InIndex(e, Stoi[m])' <=> files'[e][m] # Absent
                 \/ Mending(r, e, Stoi[m])'
      PROVE  IndexFollows'
  <2>1. ASSUME NEW f \in EntityName, f # e
        PROVE  /\ entity_id_map'[f] = entity_id_map[f]
               /\ \A m \in FileName :
                      files'[f][m] = files[f][m] /\ (<<f, m>> \in faults' <=> <<f, m>> \in faults)
               /\ \A s \in Runner : \A j : Mending(s, f, j) => Mending(s, f, j)'
    BY <1>o, <2>1 DEF OwnEntity, OthersKept, Mending
  <2> QED
    BY <1>i, <1>j, <1>r, <2>1 DEF IndexFollows, InIndex
<1>w. \A c \in Content :
          /\ WriteFile(files, e, n, c)[e][n] = c
          /\ \A f \in EntityName, m \in FileName :
                 f # e \/ m # n => WriteFile(files, e, n, c)[f][m] = files[f][m]
  BY <1>r, <1>t, ContentWritten
\* The index and the disk as they were, and the request where it was.
<1>k. ASSUME UNCHANGED <<dirs, entity_id_map>>, req'[r].e = e,
             \A f \in EntityName : KeyUnderWay(r, f) /\ entity_id_map[f] = NoEntry => KeyUnderWay(r, f)'
      PROVE  KeysAreDirs'
  BY <1>d, <1>k, <1>l, <1>r
<1>m. ASSUME UNCHANGED <<files, faults, entity_id_map>>,
             \A f \in EntityName, m \in FileName :
                 Mending(r, f, Stoi[m]) => Mending(r, f, Stoi[m])'
      PROVE  IndexFollows'
  BY <1>j, <1>l, <1>m, <1>r DEF InIndex
<1>f. ASSUME NEW code, NEW listed, NEW body, Finish(r, code, listed, body), pc[r] # "idle"
      PROVE  /\ pc'[r] = "idle"
             /\ InDir(r)' /\ HasKey(r)' /\ CopyFits(r)' /\ FileFits(r)'
             /\ \A f \in EntityName, m \in FileName :
                    f # e \/ m # n => acked'[f][m] = acked[f][m]
             /\ \/ acked' = acked
                \/ req[r].op \in {"create", "update"} /\ acked'[e][n] = req[r].b
             /\ code \notin {200, 201} \/ req[r].op \notin {"create", "update"} => acked' = acked
  <2>1. pc'[r] = "idle"
    BY <1>f, <1>t DEF Finish, Goto
  <2>2. InDir(r)' /\ HasKey(r)' /\ CopyFits(r)' /\ FileFits(r)'
    BY <2>1 DEF InDir, HasKey, CopyFits, FileFits
  <2> QED
    BY <1>f, <1>t, <2>1, <2>2, FinishAcked
<1>1. CASE CheckFound(r)
  <2>1. /\ UNCHANGED <<dirs, files, faults, entity_id_map, req, ids, acked>>
        /\ pc[r] = "check"
        /\ FoundAt(r)
    BY <1>1 DEF CheckFound, disk, aux, At
  <2>2. /\ pc'[r] \in {"nextid", "open", "list", "read", "remove"}
        /\ pc'[r] = "nextid" <=> req[r].op = "create"
        /\ pc'[r] = "open" <=> req[r].op = "update"
        /\ pc'[r] = "list" <=> req[r].op = "list"
        /\ pc'[r] = "read" <=> req[r].op = "retrieve"
        /\ pc'[r] = "remove" <=> req[r].op \in {"delete", "detour"}
    BY <1>1, <1>r, <1>t DEF CheckFound, Goto, Method
  <2>3. FilesInDirs' /\ AckedSurvives'
    BY <1>i, <2>1 DEF FilesInDirs, AckedSurvives
  <2>4. KeysAreDirs'
    BY <1>k, <2>1 DEF KeyUnderWay
  <2>5. IndexFollows'
    BY <1>m, <2>1 DEF Mending
  <2>6. e \in dirs
    BY <1>i, <1>r, <2>1 DEF FoundAt, FilesInDirs
  <2>7. InDir(r)'
    BY <2>1, <2>6 DEF InDir
  <2>8. HasKey(r)'
    <3>1. entity_id_map[e] # NoEntry
      BY <1>l, <2>1, <2>6 DEF KeyUnderWay
    <3> QED
      BY <2>1, <2>2, <3>1 DEF HasKey
  <2>9. CopyFits(r)'
    BY <2>2 DEF CopyFits
  <2>10. FileFits(r)'
    BY <1>i, <2>1, <2>2 DEF FileFits, FoundAt, OnDisk, Target
  <2> QED
    BY <1>g, <2>3, <2>4, <2>5, <2>7, <2>8, <2>9, <2>10
<1>2. CASE CheckMissing(r)
  <2>1. /\ UNCHANGED <<dirs, files, faults, entity_id_map, ids>>
        /\ pc[r] = "check"
        /\ ~FoundAt(r)
    BY <1>2 DEF CheckMissing, disk, At
  <2>2. FilesInDirs'
    BY <1>i, <2>1 DEF FilesInDirs
  <2>3. IndexFollows'
    BY <1>m, <2>1 DEF Mending
  <2>4. KeysAreDirs'
    BY <1>d, <1>l, <2>1 DEF KeyUnderWay
  <2>5. CASE Finish(r, 404, {}, Absent)
    <3>1. AckedSurvives'
      BY <1>f, <1>i, <2>1, <2>5 DEF AckedSurvives
    <3> QED
      BY <1>f, <1>g, <2>1, <2>2, <2>3, <2>4, <2>5, <3>1
  <2>6. CASE ~Finish(r, 404, {}, Absent)
    <3>1. /\ UNCHANGED <<req, acked>>
          /\ pc'[r] \in {"mkdir", "erase"}
          /\ pc'[r] = "erase" => req[r].op \in {"retrieve", "list"}
      BY <1>2, <1>t, <2>6 DEF CheckMissing, Goto, aux, NumericGet
    <3>2. AckedSurvives'
      BY <1>i, <2>1, <3>1 DEF AckedSurvives
    <3>3. InDir(r)' /\ HasKey(r)' /\ CopyFits(r)'
      BY <3>1 DEF InDir, HasKey, CopyFits
    <3>4. FileFits(r)'
      BY <1>i, <2>1, <3>1 DEF FileFits, FoundAt, OnDisk
    <3> QED
      BY <1>g, <2>2, <2>3, <2>4, <3>2, <3>3, <3>4
  <2> QED
    BY <2>5, <2>6
<1>3. CASE Mkdir(r)
  <2>1. /\ UNCHANGED <<files, faults, entity_id_map, req, ids, acked>>
        /\ pc[r] = "mkdir"
        /\ dirs' = dirs \cup {e}
        /\ pc'[r] \in {"insertkey", "open"}
        /\ pc'[r] = "insertkey" <=> req[r].op = "create"
    BY <1>3, <1>t DEF Mkdir, aux, At, Goto
  <2>2. FilesInDirs' /\ AckedSurvives'
    BY <1>i, <2>1 DEF FilesInDirs, AckedSurvives
  <2>3. KeysAreDirs'
    <3>1. KeyUnderWay(r, e)'
      BY <2>1 DEF KeyUnderWay
    <3> QED
      BY <1>d, <2>1, <3>1
  <2>4. IndexFollows'
    BY <1>m, <2>1 DEF Mending
  <2>5. InDir(r)' /\ HasKey(r)' /\ CopyFits(r)'
    BY <2>1 DEF InDir, HasKey, CopyFits
  <2>6. FileFits(r)'
    BY <1>i, <2>1 DEF FileFits
  <2> QED
    BY <1>g, <2>2, <2>3, <2>4, <2>5, <2>6
<1>4. CASE InsertKeyStep(r)
  <2>1. /\ UNCHANGED <<dirs, files, faults, req, ids, acked>>
        /\ pc[r] = "insertkey"
        /\ pc'[r] = "nextid"
        /\ entity_id_map' = InsertKey(entity_id_map, e)
    BY <1>4, <1>t DEF InsertKeyStep, disk, aux, At, Goto
  <2>2. /\ entity_id_map'[e] # NoEntry
        /\ entity_id_map'[e] = IF entity_id_map[e] = NoEntry THEN {} ELSE entity_id_map[e]
        /\ \A f \in EntityName : f # e => entity_id_map'[f] = entity_id_map[f]
    BY <1>r, <1>t, <2>1, InsertKeyType
  <2>3. FilesInDirs' /\ AckedSurvives'
    BY <1>i, <2>1 DEF FilesInDirs, AckedSurvives
  <2>4. e \in dirs
    BY <1>i, <2>1 DEF InDir
  <2>5. KeysAreDirs'
    BY <1>d, <2>1, <2>2, <2>4
  <2>6. IndexFollows'
    <3>1. \A j : InIndex(e, j)' <=> InIndex(e, j)
      BY <2>2 DEF InIndex
    <3> QED
      BY <1>j, <1>l, <2>1, <3>1 DEF Mending
  <2>7. InDir(r)' /\ HasKey(r)' /\ CopyFits(r)'
    BY <2>1, <2>2, <2>4 DEF InDir, HasKey, CopyFits
  <2>8. FileFits(r)'
    BY <1>i, <2>1 DEF FileFits
  <2> QED
    BY <1>g, <2>3, <2>5, <2>6, <2>7, <2>8
<1>5. CASE NextId(r)
  <2>1. /\ UNCHANGED <<dirs, files, faults, entity_id_map, req, acked>>
        /\ pc[r] = "nextid"
        /\ entity_id_map[e] # NoEntry
        /\ pc'[r] = "nextidback"
        /\ ids'[r] = entity_id_map[e]
    BY <1>5, <1>i, <1>t DEF NextId, ExistingIDs, disk, aux, At, Goto, HasKey
  <2>2. FilesInDirs' /\ AckedSurvives'
    BY <1>i, <2>1 DEF FilesInDirs, AckedSurvives
  <2>3. KeysAreDirs'
    BY <1>k, <2>1 DEF KeyUnderWay
  <2>4. IndexFollows'
    BY <1>m, <2>1 DEF Mending
  <2>5. InDir(r)' /\ HasKey(r)' /\ CopyFits(r)'
    BY <1>i, <2>1 DEF InDir, HasKey, CopyFits
  <2>6. FileFits(r)'
    BY <1>i, <2>1 DEF FileFits
  <2> QED
    BY <1>g, <2>2, <2>3, <2>4, <2>5, <2>6
<1>6. CASE NextIdBack(r)
  <2>1. /\ UNCHANGED <<dirs, files, faults, acked>>
        /\ pc[r] = "nextidback"
        /\ pc'[r] = "open"
        /\ req[r].op = "create"
        /\ ids[r] = entity_id_map[e] /\ entity_id_map[e] # NoEntry
    BY <1>6, <1>i, <1>t DEF NextIdBack, disk, aux, At, Goto, HasKey, RequestShape
  <2>2. PICK id \in 1..MaxId :
          /\ IsNextId(id, ids[r])
          /\ entity_id_map' = [entity_id_map EXCEPT ![e] = ids[r] \cup {id}]
          /\ req' = [req EXCEPT ![r].n = ToString[id]]
    BY <1>6 DEF NextIdBack
  <2>3. ToString[id] \in FileName /\ Numeric(ToString[id]) /\ Stoi[ToString[id]] = id /\ id \in FileId
    BY NewIdIsFileId
  <2>4. /\ req'[r].e = e /\ req'[r].op = "create" /\ req'[r].n = ToString[id]
        /\ req'[r].b = req[r].b
    BY <1>t, <2>1, <2>2 DEF StoredRequest
  <2>5. /\ entity_id_map'[e] = entity_id_map[e] \cup {id} /\ id \notin entity_id_map[e]
        /\ entity_id_map'[e] # NoEntry
        /\ \A f \in EntityName : f # e => entity_id_map'[f] = entity_id_map[f]
    <3>1. entity_id_map[e] \cup {id} \in SUBSET FileId
      BY <1>r, <1>t, <2>1, <2>3 DEF MapType
    <3> QED
      BY <1>r, <1>t, <2>1, <2>2, <3>1, NoEntryAssumption DEF MapType, IsNextId
  <2>6. FilesInDirs' /\ AckedSurvives'
    BY <1>i, <2>1 DEF FilesInDirs, AckedSurvives
  <2>7. e \in dirs
    BY <1>i, <2>1 DEF InDir
  <2>8. KeysAreDirs'
    BY <1>d, <2>1, <2>5, <2>7
  <2>9. \A j : j = id => Mending(r, e, j)'
    BY <2>1, <2>3, <2>4 DEF Mending
  <2>10. \A m \in FileName :
            Numeric(m) /\ <<e, m>> \notin faults => (InIndex(e, Stoi[m]) <=> files[e][m] # Absent)
    BY <1>l, <2>1 DEF Mending
  <2>11. IndexFollows'
    <3>1. \A j : j # id => (InIndex(e, j)' <=> InIndex(e, j))
      BY <2>1, <2>5 DEF InIndex
    <3> QED
      BY <1>j, <2>1, <2>9, <2>10, <3>1
  <2>12. InDir(r)' /\ HasKey(r)' /\ CopyFits(r)'
    BY <2>1, <2>3, <2>4, <2>5, <2>7 DEF InDir, HasKey, CopyFits
  <2>13. files[e][ToString[id]] = Absent \/ <<e, ToString[id]>> \in faults
    BY <1>r, <2>3, <2>5, <2>10 DEF InIndex
  <2>14. FileFits(r)'
    BY <2>1, <2>4, <2>13 DEF FileFits, OnDisk, Target
  <2> QED
    BY <1>g, <2>6, <2>8, <2>11, <2>12, <2>14
<1>7. CASE Open(r)
  <2>1. /\ UNCHANGED <<dirs, faults, entity_id_map, req, ids, acked>>
        /\ pc[r] = "open"
        /\ pc'[r] = "write"
        /\ files' = WriteFile(files, e, n, Truncated)
    BY <1>7, <1>t DEF Open, aux, At, Goto
  <2>2. /\ files'[e][n] = Truncated
        /\ \A f \in EntityName, m \in FileName : f # e \/ m # n => files'[f][m] = files[f][m]
    BY <1>w, <2>1 DEF Content
  <2>3. e \in dirs
    BY <1>i, <2>1 DEF InDir
  <2>4. FilesInDirs'
    BY <1>i, <1>r, <2>1, <2>2, <2>3 DEF FilesInDirs
  <2>5. KeysAreDirs'
    BY <1>k, <2>1 DEF KeyUnderWay
  <2>6. IndexFollows'
    <3>1. Mending(r, e, i)'
      BY <1>i, <2>1 DEF Mending, RequestShape
    <3>2. \A m \in FileName : Mending(r, e, Stoi[m]) => Stoi[m] = i
      BY DEF Mending
    <3> QED
      BY <1>j, <1>l, <1>r, <2>1, <2>2, <3>1, <3>2 DEF InIndex
  <2>7. AckedSurvives'
    <3>1. acked[e][n] = Absent \/ <<e, n>> \in faults
      BY <1>i, <1>r, <2>1 DEF AckedSurvives, FileFits, RequestShape, OnDisk, Target
    <3> QED
      BY <1>i, <2>1, <2>2, <3>1 DEF AckedSurvives
  <2>8. InDir(r)' /\ HasKey(r)' /\ CopyFits(r)'
    BY <1>i, <2>1, <2>3 DEF InDir, HasKey, CopyFits
  <2>9. FileFits(r)'
    BY <1>i, <2>1, <2>2 DEF FileFits, OnDisk
  <2> QED
    BY <1>g, <2>4, <2>5, <2>6, <2>7, <2>8, <2>9
\* write_file has returned: the file is written, or the disk refused it.
<1>v. ASSUME Written(r), pc[r] \in {"open", "write"},
             UNCHANGED <<dirs, entity_id_map, ids>>,
             \A f \in EntityName, m \in FileName :
                 f # e \/ m # n => files'[f][m] = files[f][m] /\ (<<f, m>> \in faults' <=> <<f, m>> \in faults),
             \/ files'[e][n] = req[r].b
             \/ files'[e][n] = files[e][n] /\ <<e, n>> \in faults'
      PROVE  StepInv'
  <2>1. e \in dirs /\ req[r].op \in {"create", "update"} /\ Numeric(n) /\ req[r].b \in Body
    BY <1>i, <1>v DEF InDir, RequestShape
  <2>2. FilesInDirs'
    <3>1. dirs' = dirs /\ \A f \in EntityName, m \in FileName : f # e => files'[f][m] = files[f][m]
      BY <1>v
    <3> QED
      BY <1>i, <2>1, <3>1 DEF FilesInDirs
  <2>3. \A m \in FileName :
            m # n /\ Numeric(m) /\ <<e, m>> \notin faults' =>
                (InIndex(e, Stoi[m]) <=> files'[e][m] # Absent)
    <3>1. \A m \in FileName : m # n /\ Numeric(m) => ~Mending(r, e, Stoi[m])
      BY <1>u DEF Mending
    <3> QED
      BY <1>l, <1>r, <1>v, <3>1
  <2>4. CASE req[r].op = "create"
    <3>1. Finish(r, 201, {}, Absent)
      BY <1>v, <2>4 DEF Written
    <3>2. /\ pc'[r] = "idle"
          /\ InDir(r)' /\ HasKey(r)' /\ CopyFits(r)' /\ FileFits(r)'
          /\ \A f \in EntityName, m \in FileName :
                 f # e \/ m # n => acked'[f][m] = acked[f][m]
          /\ acked' = acked \/ acked'[e][n] = req[r].b
      BY <1>f, <1>v, <3>1
    <3>3. entity_id_map[e] # NoEntry /\ InIndex(e, i)
      BY <1>i, <1>v, <2>4 DEF HasKey, InIndex
    <3>4. KeysAreDirs'
      BY <1>d, <1>l, <1>v, <3>3
    <3>5. IndexFollows'
      <4>1. files'[e][n] # Absent \/ <<e, n>> \in faults'
        BY <1>a, <1>v, <2>1
      <4>2. \A j : InIndex(e, j)' <=> InIndex(e, j)
        BY <1>v DEF InIndex
      <4> QED
        BY <1>j, <2>3, <3>3, <4>1, <4>2
    <3>6. AckedSurvives'
      <4>1. \A f \in EntityName, m \in FileName :
                f # e \/ m # n =>
                    (acked'[f][m] # Absent => files'[f][m] = acked'[f][m] \/ <<f, m>> \in faults')
        BY <1>i, <1>v, <3>2 DEF AckedSurvives
      <4>2. acked'[e][n] = req[r].b
        BY <1>r, <1>t, <2>1, <2>4, <3>1, WriteFileType DEF Finish
      <4> QED
        BY <1>v, <4>1, <4>2 DEF AckedSurvives
    <3> QED
      BY <1>g, <2>2, <3>2, <3>4, <3>5, <3>6
  <2>5. CASE req[r].op = "update"
    <3>1. UNCHANGED <<req, acked>> /\ pc'[r] = "insert"
      BY <1>t, <1>v, <2>5 DEF Written, Goto, aux
    <3>2. KeysAreDirs'
      BY <1>k, <1>v, <3>1 DEF KeyUnderWay
    <3>3. IndexFollows'
      <4>1. Mending(r, e, i)'
        BY <2>5, <3>1 DEF Mending
      <4>2. \A j : InIndex(e, j)' <=> InIndex(e, j)
        BY <1>v DEF InIndex
      <4> QED
        BY <1>j, <2>3, <3>1, <4>1, <4>2
    <3>4. AckedSurvives'
      <4>1. acked[e][n] = Absent
        BY <1>i, <1>v, <2>5 DEF FileFits
      <4> QED
        BY <1>i, <1>v, <3>1, <4>1 DEF AckedSurvives
    <3>5. InDir(r)' /\ HasKey(r)' /\ CopyFits(r)'
      BY <1>v, <2>1, <3>1 DEF InDir, HasKey, CopyFits
    <3>6. FileFits(r)'
      BY <1>i, <1>v, <2>5, <3>1 DEF FileFits, OnDisk, Target
    <3> QED
      BY <1>g, <2>2, <3>2, <3>3, <3>4, <3>5, <3>6
  <2> QED
    BY <2>1, <2>4, <2>5
<1>8. CASE Write(r)
  <2>1. /\ UNCHANGED <<dirs, entity_id_map, ids>>
        /\ pc[r] = "write"
        /\ Written(r)
        /\ faults' = faults \ {<<e, n>>}
    BY <1>8 DEF Write, At, Target
  <2>2. files' = WriteFile(files, e, n, req[r].b)
    BY <1>8, <1>a, <1>i, <2>1 DEF Write, FileFits, OnDisk
  <2>3. /\ files'[e][n] = req[r].b
        /\ \A f \in EntityName, m \in FileName : f # e \/ m # n => files'[f][m] = files[f][m]
    BY <1>r, <1>w, <2>2 DEF Content
  <2>4. \A f \in EntityName, m \in FileName :
            f # e \/ m # n => (<<f, m>> \in faults' <=> <<f, m>> \in faults)
    BY <2>1
  <2> QED
    BY <1>v, <2>1, <2>3, <2>4
<1>9. CASE WriteFails(r)
  <2>1. /\ UNCHANGED <<dirs, files, entity_id_map, ids>>
        /\ pc[r] \in {"open", "write"}
        /\ Written(r)
        /\ faults' = faults \cup {<<e, n>>}
    BY <1>9 DEF WriteFails, At, Target
  <2>2. \A f \in EntityName, m \in FileName :
            f # e \/ m # n => (<<f, m>> \in faults' <=> <<f, m>> \in faults)
    BY <2>1
  <2> QED
    BY <1>v, <2>1, <2>2
<1>10. CASE ListStep(r)
  <2>1. /\ UNCHANGED <<dirs, files, faults, entity_id_map>>
        /\ pc[r] = "list"
    BY <1>10 DEF ListStep, disk, At
  <2>2. PICK listed : Finish(r, 200, listed, Absent)
    BY <1>10 DEF ListStep
  <2>3. /\ pc'[r] = "idle"
        /\ InDir(r)' /\ HasKey(r)' /\ CopyFits(r)' /\ FileFits(r)'
        /\ acked' = acked
    BY <1>f, <1>i, <2>1, <2>2 DEF RequestShape
  <2>4. FilesInDirs' /\ AckedSurvives'
    BY <1>i, <2>1, <2>3 DEF FilesInDirs, AckedSurvives
  <2>5. KeysAreDirs'
    BY <1>d, <1>l, <2>1 DEF KeyUnderWay
  <2>6. IndexFollows'
    BY <1>m, <2>1 DEF Mending
  <2> QED
    BY <1>g, <2>3, <2>4, <2>5, <2>6
<1>11. CASE Read(r)
  <2>1. /\ UNCHANGED <<dirs, files, faults, entity_id_map, ids, acked>>
        /\ pc[r] = "read"
        /\ pc'[r] = "insert"
        /\ req[r].op = "retrieve"
    BY <1>11, <1>i, <1>t DEF Read, disk, aux, At, Goto, RequestShape
  <2>2. req'[r].e = e /\ req'[r].n = n /\ req'[r].op = "retrieve"
    BY <1>11, <1>t, <2>1 DEF Read, StoredRequest
  <2>3. FilesInDirs' /\ AckedSurvives'
    BY <1>i, <2>1 DEF FilesInDirs, AckedSurvives
  <2>4. KeysAreDirs'
    BY <1>k, <2>1, <2>2 DEF KeyUnderWay
  <2>5. IndexFollows'
    BY <1>m, <2>1 DEF Mending
  <2>6. InDir(r)' /\ HasKey(r)' /\ CopyFits(r)'
    BY <1>i, <2>1, <2>2 DEF InDir, HasKey, CopyFits
  <2>7. FileFits(r)'
    BY <1>i, <2>1, <2>2 DEF FileFits, OnDisk
  <2> QED
    BY <1>g, <2>3, <2>4, <2>5, <2>6, <2>7
<1>12. CASE Remove(r)
  <2>1. /\ UNCHANGED <<dirs, entity_id_map, ids>>
        /\ pc[r] = "remove"
        /\ req[r].op \in {"delete", "detour"}
        /\ files' = WriteFile(files, e, n, Absent)
        /\ faults' = faults \ {<<e, n>>} \/ faults' = faults \cup {<<e, n>>}
        /\ req[r].op = "detour" => <<e, n>> \in faults'
    BY <1>12, <1>i DEF Remove, At, Target, RequestShape
  <2>2. /\ files'[e][n] = Absent
        /\ \A f \in EntityName, m \in FileName : f # e \/ m # n => files'[f][m] = files[f][m]
    BY <1>w, <2>1 DEF Content
  <2>3. \A f \in EntityName, m \in FileName :
            f # e \/ m # n => (<<f, m>> \in faults' <=> <<f, m>> \in faults)
    BY <2>1
  <2>4. acked[e][n] = Absent
    BY <1>i, <2>1 DEF FileFits
  <2>5. FilesInDirs'
    BY <1>i, <2>1, <2>2 DEF FilesInDirs
  <2>6. \A m \in FileName :
            Numeric(m) /\ m # n /\ <<e, m>> \notin faults' =>
                (InIndex(e, Stoi[m]) <=> files'[e][m] # Absent)
    BY <1>l, <1>r, <2>1, <2>2, <2>3 DEF Mending
  <2>7. \A j : InIndex(e, j)' <=> InIndex(e, j)
    BY <2>1 DEF InIndex
  <2>8. KeysAreDirs'
    BY <1>d, <1>l, <2>1 DEF KeyUnderWay
  <2>9. acked' = acked => AckedSurvives'
    BY <1>i, <2>2, <2>3, <2>4 DEF AckedSurvives
  <2>10. CASE req[r].op = "delete" /\ Numeric(n)
    <3>1. UNCHANGED <<req, acked>> /\ pc'[r] = "erase"
      BY <1>12, <1>t, <2>10 DEF Remove, aux, Goto
    <3>2. IndexFollows'
      <4>1. Mending(r, e, i)'
        BY <2>10, <3>1 DEF Mending
      <4> QED
        BY <1>j, <2>6, <2>7, <3>1, <4>1
    <3>3. InDir(r)' /\ HasKey(r)' /\ CopyFits(r)'
      BY <3>1 DEF InDir, HasKey, CopyFits
    <3>4. FileFits(r)'
      BY <2>1, <2>2, <2>4, <3>1 DEF FileFits, OnDisk
    <3> QED
      BY <1>g, <2>5, <2>8, <2>9, <3>1, <3>2, <3>3, <3>4
  <2>11. CASE ~(req[r].op = "delete" /\ Numeric(n))
    <3>1. Finish(r, 200, {}, Absent)
      BY <1>12, <2>11 DEF Remove
    <3>2. /\ pc'[r] = "idle"
          /\ InDir(r)' /\ HasKey(r)' /\ CopyFits(r)' /\ FileFits(r)'
          /\ acked' = acked
      BY <1>f, <2>1, <3>1
    <3>3. IndexFollows'
      BY <1>j, <2>1, <2>6, <2>7, <2>11
    <3> QED
      BY <1>g, <2>5, <2>8, <2>9, <3>2, <3>3
  <2> QED
    BY <2>10, <2>11
<1>c. pc[r] \in {"insert", "insertback", "insertnew", "erase", "eraseback"} => i \in FileId /\ Numeric(n)
  BY <1>i, <1>r, StoiIsFileId DEF RequestShape
<1>13. CASE CopyIds(r)
  <2>1. /\ UNCHANGED <<dirs, files, faults, entity_id_map, req, acked>>
        /\ pc[r] \in {"insert", "erase"}
        /\ CopyFits(r)'
    BY <1>13, CopyIdsFits DEF StepInv, ShapeInv
  <2>2. /\ pc[r] = "insert" => pc'[r] \in {"insertnew", "insertback"}
        /\ pc[r] = "erase" => pc'[r] = "eraseback"
    BY <1>13, CopyIdsFits DEF StepInv, ShapeInv
  <2>3. FilesInDirs' /\ AckedSurvives'
    BY <1>i, <2>1 DEF FilesInDirs, AckedSurvives
  <2>4. KeysAreDirs'
    BY <1>k, <2>1, <2>2 DEF KeyUnderWay
  <2>5. IndexFollows'
    BY <1>m, <2>1, <2>2 DEF Mending
  <2>6. InDir(r)' /\ HasKey(r)'
    BY <1>i, <2>1, <2>2 DEF InDir, HasKey
  <2>7. FileFits(r)'
    BY <1>i, <2>1, <2>2 DEF FileFits, OnDisk, Target
  <2> QED
    BY <1>g, <2>1, <2>3, <2>4, <2>5, <2>6, <2>7
<1>14. CASE InsertBack(r)
  <2>1. /\ UNCHANGED <<dirs, files, faults>>
        /\ pc[r] \in {"insertback", "insertnew"}
        /\ WriteBack(r)
    BY <1>14 DEF InsertBack, disk, At
  <2>2. PICK body : Finish(r, 200, {}, body)
    BY <1>14 DEF InsertBack
  <2>3. entity_id_map' = InsertIfNotExist(entity_id_map, e, i)
    BY <1>i, <2>1 DEF WriteBack, CopyFits, Back, WithCopy
  <2>4. /\ entity_id_map'[e] # NoEntry
        /\ entity_id_map[e] = NoEntry => entity_id_map'[e] = {i}
        /\ entity_id_map[e] # NoEntry => entity_id_map'[e] = entity_id_map[e] \cup {i}
        /\ \A f \in EntityName : f # e => entity_id_map'[f] = entity_id_map[f]
    BY <1>c, <1>r, <1>t, <2>1, <2>3, InsertType
  <2>5. /\ pc'[r] = "idle"
        /\ InDir(r)' /\ HasKey(r)' /\ CopyFits(r)' /\ FileFits(r)'
        /\ \A f \in EntityName, m \in FileName :
               f # e \/ m # n => acked'[f][m] = acked[f][m]
        /\ \/ acked' = acked
           \/ req[r].op \in {"create", "update"} /\ acked'[e][n] = req[r].b
    BY <1>f, <2>1, <2>2
  <2>6. FilesInDirs'
    BY <1>i, <2>1 DEF FilesInDirs
  <2>7. e \in dirs
    BY <1>i, <2>1 DEF InDir
  <2>8. KeysAreDirs'
    BY <1>d, <2>1, <2>4, <2>7
  <2>9. files[e][n] # Absent \/ <<e, n>> \in faults
    BY <1>a, <1>i, <2>1 DEF FileFits, OnDisk, Target, RequestShape
  <2>10. IndexFollows'
    <3>1. \A j : InIndex(e, j)' <=> InIndex(e, j) \/ j = i
      BY <2>4 DEF InIndex
    <3>2. \A m \in FileName : Stoi[m] # i => ~Mending(r, e, Stoi[m])
      BY DEF Mending
    <3>3. \A m \in FileName :
              Numeric(m) /\ <<e, m>> \notin faults => (InIndex(e, Stoi[m])' <=> files[e][m] # Absent)
      BY <1>l, <1>u, <2>9, <3>1, <3>2
    <3> QED
      BY <1>j, <2>1, <3>3
  <2>11. AckedSurvives'
    <3>1. CASE acked' = acked
      BY <1>i, <2>1, <3>1 DEF AckedSurvives
    <3>2. CASE req[r].op \in {"create", "update"} /\ acked'[e][n] = req[r].b
      <4>1. files[e][n] = req[r].b \/ <<e, n>> \in faults
        BY <1>i, <2>1, <3>2 DEF FileFits, OnDisk, Target, RequestShape
      <4> QED
        BY <1>i, <2>1, <2>5, <3>2, <4>1 DEF AckedSurvives
    <3> QED
      BY <2>5, <3>1, <3>2
  <2> QED
    BY <1>g, <2>5, <2>6, <2>8, <2>10, <2>11
<1>15. CASE EraseBack(r)
  <2>1. /\ UNCHANGED <<dirs, files, faults>>
        /\ pc[r] = "eraseback"
        /\ WriteBack(r)
        /\ req[r].op \in {"delete", "retrieve"} \/ NumericGet(req[r])
    BY <1>15, <1>i DEF EraseBack, disk, At, RequestShape
  <2>2. PICK code : Finish(r, code, {}, Absent)
    BY <1>15 DEF EraseBack
  <2>k. PICK k : ItemId(req[r]) = k
    OBVIOUS
  <2>3. entity_id_map' = EraseIfExist(entity_id_map, e, k)
    BY <1>i, <2>1, <2>k DEF WriteBack, CopyFits, Back, WithCopy
  <2>4. /\ entity_id_map[e] # NoEntry => /\ entity_id_map'[e] # NoEntry
                                         /\ entity_id_map'[e] = entity_id_map[e] \ {k}
        /\ entity_id_map[e] = NoEntry => entity_id_map' = entity_id_map
        /\ \A f \in EntityName : f # e => entity_id_map'[f] = entity_id_map[f]
    BY <1>r, <1>t, <2>3, EraseType
  <2>5. /\ pc'[r] = "idle"
        /\ InDir(r)' /\ HasKey(r)' /\ CopyFits(r)' /\ FileFits(r)'
        /\ acked' = acked
    BY <1>f, <2>1, <2>2 DEF NumericGet
  <2>6. FilesInDirs' /\ AckedSurvives'
    BY <1>i, <2>1, <2>5 DEF FilesInDirs, AckedSurvives
  <2>7. KeysAreDirs'
    BY <1>d, <1>l, <2>1, <2>4 DEF KeyUnderWay
  <2>8. req[r].op # "list" => k = i /\ files[e][n] = Absent
    BY <1>i, <2>1, <2>k DEF FileFits, OnDisk, ItemId
  <2>9. req[r].op = "list" => \A m \in FileName : Numeric(m) => Stoi[m] # k
    BY <1>n, <2>1, <2>k DEF ItemId
  <2>10. IndexFollows'
    <3>1. \A j : InIndex(e, j)' <=> InIndex(e, j) /\ j # k
      BY <2>4 DEF InIndex
    <3>2. \A m \in FileName : Stoi[m] # i => ~Mending(r, e, Stoi[m])
      BY DEF Mending
    <3>3. \A m \in FileName :
              Numeric(m) /\ <<e, m>> \notin faults => (InIndex(e, Stoi[m])' <=> files[e][m] # Absent)
      <4>1. CASE req[r].op # "list"
        BY <1>l, <1>u, <2>8, <3>1, <3>2, <4>1
      <4>2. CASE req[r].op = "list"
        BY <1>l, <2>9, <3>1, <4>2 DEF Mending
      <4> QED
        BY <4>1, <4>2
    <3> QED
      BY <1>j, <2>1, <3>3
  <2> QED
    BY <1>g, <2>5, <2>6, <2>7, <2>10
<1> QED
  BY <1>1, <1>2, <1>3, <1>4, <1>5, <1>6, <1>7, <1>8, <1>9, <1>10, <1>11, <1>12, <1>13,
     <1>14, <1>15 DEF Step

LEMMA NextInv == Canonical /\ Apart /\ Apart' /\ StepInv /\ [Next]_vars => StepInv'
<1> SUFFICES ASSUME Canonical, Apart, Apart', StepInv, [Next]_vars PROVE StepInv'
  OBVIOUS
<1>1. ShapeInv'
  BY NextShape DEF StepInv, ShapeInv
<1>2. CASE UNCHANGED vars
  <2>1. FilesInDirs' /\ KeysAreDirs' /\ IndexFollows' /\ AckedSurvives'
    BY <1>2 DEF vars, StepInv, FilesInDirs, KeysAreDirs, KeyUnderWay, IndexFollows, InIndex,
                Mending, AckedSurvives
  <2>2. ASSUME NEW r \in Runner PROVE InDir(r)' /\ HasKey(r)' /\ CopyFits(r)' /\ FileFits(r)'
    <3>1. InDir(r) /\ HasKey(r) /\ CopyFits(r) /\ FileFits(r)
      BY DEF StepInv
    <3> QED
      BY <1>2, <3>1 DEF vars, InDir, HasKey, CopyFits, Back, FileFits, OnDisk, Target
  <2> QED
    BY <1>1, <2>1, <2>2 DEF StepInv, ShapeInv
<1>3. ASSUME NEW r \in Runner, NEW q \in RequestType, Begin(r, q) PROVE StepInv'
  BY <1>3, BeginInv
<1>4. ASSUME NEW r \in Runner, Step(r) PROVE StepInv'
  BY <1>4, StepKeepsInv
<1>5. CASE Crash
  <2>1. UNCHANGED <<dirs, files, faults, entity_id_map, pc, req, ids, acked>>
    BY <1>5 DEF Crash, disk, aux
  <2>2. FilesInDirs' /\ KeysAreDirs' /\ IndexFollows' /\ AckedSurvives'
    BY <2>1 DEF StepInv, FilesInDirs, KeysAreDirs, KeyUnderWay, IndexFollows, InIndex,
                Mending, AckedSurvives
  <2>3. ASSUME NEW r \in Runner PROVE InDir(r)' /\ HasKey(r)' /\ CopyFits(r)' /\ FileFits(r)'
    <3>1. InDir(r) /\ HasKey(r) /\ CopyFits(r) /\ FileFits(r)
      BY DEF StepInv
    <3> QED
      BY <2>1, <3>1 DEF InDir, HasKey, CopyFits, Back, FileFits, OnDisk, Target
  <2> QED
    BY <1>1, <2>2, <2>3 DEF StepInv, ShapeInv
<1>6. CASE Restart
  <2>1. /\ UNCHANGED <<dirs, files, faults, acked>>
        /\ pc' = [r \in Runner |-> "idle"]
        /\ entity_id_map' = ScanFS(dirs, files)
    BY <1>6 DEF Restart, disk
  <2>2. FilesInDirs' /\ AckedSurvives'
    BY <2>1 DEF StepInv, FilesInDirs, AckedSurvives
  <2>3. \A e \in EntityName : (entity_id_map'[e] # NoEntry) <=> e \in dirs
    BY <2>1, ScanFSType
  <2>4. \A e \in EntityName : e \in dirs => entity_id_map'[e] = DiskIds(files, e)
    BY <2>1, ScanFSType
  <2>5. \A e \in EntityName, n \in FileName :
            Numeric(n) => (Stoi[n] \in DiskIds(files, e) <=> files[e][n] # Absent)
    BY DiskIdsMember DEF Canonical
  <2>6. KeysAreDirs'
    BY <2>1, <2>3 DEF KeysAreDirs
  <2>7. IndexFollows'
    BY <2>1, <2>3, <2>4, <2>5 DEF IndexFollows, InIndex, StepInv, FilesInDirs
  <2>8. ASSUME NEW r \in Runner PROVE InDir(r)' /\ HasKey(r)' /\ CopyFits(r)' /\ FileFits(r)'
    BY <2>1 DEF InDir, HasKey, CopyFits, FileFits
  <2> QED
    BY <1>1, <2>2, <2>6, <2>7, <2>8 DEF StepInv, ShapeInv
<1> QED
  BY <1>2, <1>3, <1>4, <1>5, <1>6 DEF Next

LEMMA StepInvHolds ==
    ASSUME Canonical
    PROVE  Spec /\ []Apart => []StepInv
<1>1. Init => StepInv
  BY InitInv
<1>2. Apart /\ Apart' /\ StepInv /\ [Next]_vars => StepInv'
  BY NextInv
<1> QED
  BY <1>1, <1>2, PTL DEF Spec

\* One thread is never at two requests.
LEMMA OneRunnerApart == ASSUME OneRunner PROVE Apart
BY DEF OneRunner, Apart

LEMMA OneRunnerInv ==
    ASSUME OneRunner, Canonical
    PROVE  Spec => []StepInv
<1>1. OneRunner => Apart
  BY OneRunnerApart
<1>2. OneRunner
  OBVIOUS
<1> QED
  BY <1>1, <1>2, StepInvHolds, PTL

LEMMA ApartHolds == ApartSpec => Spec /\ []Apart
<1>1. Init => Apart
  BY DEF Init, Apart
<1>2. Apart /\ [Next /\ Apart']_vars => Apart'
  BY DEF Apart, vars
<1>3. [Next /\ Apart']_vars => [Next]_vars
  OBVIOUS
<1> QED
  BY <1>1, <1>2, <1>3, PTL DEF ApartSpec, Spec

\* What StepInv says of an entity no request is at.
LEMMA QuiescentFits == ASSUME Canonical PROVE StepInv => QuiescentMapMatchesDisk
<1>1. ASSUME StepInv, NEW e \in EntityName, Quiescent(e)
      PROVE  /\ entity_id_map[e] # NoEntry <=> e \in dirs
             /\ e \in dirs =>
                    entity_id_map[e] \ FaultIds(e) = DiskIds(files, e) \ FaultIds(e)
  <2>1. \A r \in Runner : pc[r] = "idle" \/ req[r].e # e
    BY <1>1 DEF Quiescent
  <2>2. entity_id_map[e] # NoEntry <=> e \in dirs
    BY <1>1, <2>1 DEF StepInv, KeysAreDirs, KeyUnderWay
  <2>3. \A n \in FileName : Numeric(n) /\ <<e, n>> \notin faults =>
            (InIndex(e, Stoi[n]) <=> files[e][n] # Absent)
    BY <1>1, <2>1 DEF StepInv, IndexFollows, Mending
  <2>4. ASSUME e \in dirs
        PROVE  entity_id_map[e] \ FaultIds(e) = DiskIds(files, e) \ FaultIds(e)
    <3>1. entity_id_map[e] \in SUBSET FileId /\ entity_id_map[e] # NoEntry
      BY <1>1, <2>2, <2>4 DEF StepInv, TypeOK, MapType
    <3>2. \A n \in FileName : Numeric(n) /\ Stoi[n] \notin FaultIds(e) => <<e, n>> \notin faults
      BY DEF FaultIds
    <3>3. \A n \in FileName : Numeric(n) /\ Stoi[n] \notin FaultIds(e) =>
              (Stoi[n] \in entity_id_map[e] <=> Stoi[n] \in DiskIds(files, e))
      BY <2>3, <3>1, <3>2, DiskIdsMember DEF InIndex, Canonical
    <3>4. \A j \in entity_id_map[e] \cup DiskIds(files, e) :
              \E n \in FileName : Numeric(n) /\ j = Stoi[n]
      BY <3>1 DEF FileId, DiskIds
    <3> QED
      BY <3>3, <3>4
  <2> QED
    BY <2>2, <2>4
<1> QED
  BY <1>1 DEF QuiescentMapMatchesDisk

\* With one thread in the handlers the index of APIHandlerFactory is, between
\* requests, what scanFS would build from the disk, wherever the process ended
\* before; it differs at most in items whose last write the disk refused or that
\* a DELETE by a longer target removed.  Canonical leaves out an entity called
\* by the number of one of its files, whose GET takes that id out of the index.
THEOREM IndexIsDiskBetweenRequests ==
    ASSUME OneRunner, Canonical
    PROVE  Spec => []QuiescentMapMatchesDisk
BY OneRunnerInv, QuiescentFits, PTL

\* With one thread in the handlers a body answered with 200 or 201 is in its
\* file until a client updates or deletes that item, unless the disk refused it:
\* neither the id get_next_id hands out nor a process that ended in the middle of
\* a request loses it, under canonical names.
THEOREM AckedBodiesSurvive ==
    ASSUME OneRunner, Canonical
    PROVE  Spec => []AckedSurvives
<1>1. StepInv => AckedSurvives
  BY DEF StepInv
<1> QED
  BY <1>1, OneRunnerInv, PTL

\* Any number of threads may be in the handlers without a lock as long as their
\* requests are about different entities that have their keys: get_next_id
\* finds the key, the ids of an entity no request is at are those on the disk,
\* and an acknowledged body stays, whatever is under way at other entities,
\* wherever the process ends and whatever the disk refuses to write.  Nothing is
\* said of two requests at one entity, for which no lock provides: there even
\* NextIdHasKey fails, as the run with two runners shows.
THEOREM ApartRequestsSafe ==
    ASSUME Canonical
    PROVE  ApartSpec => [](NextIdHasKey /\ QuiescentMapMatchesDisk /\ AckedSurvives)
<1>1. StepInv => NextIdHasKey
  BY DEF StepInv, NextIdHasKey, At, HasKey
<1>2. StepInv => AckedSurvives
  BY DEF StepInv
<1> QED
  BY <1>1, <1>2, ApartHolds, StepInvHolds, QuiescentFits, PTL

-----------------------------------------------------------------------------
(* A request and the state it began in.  Progress says, step by step, what    *)
(* the request has done to the disk and to the index since it was dispatched. *)

\* An entity has a key in the map when it has a directory, and only then files.
Settled(ds, fs, map) ==
    \A e \in EntityName :
        /\ map[e] # NoEntry <=> e \in ds
        /\ \A n \in FileName : fs[e][n] # Absent => e \in ds

\* What Begin kept.
SavedFits ==
    /\ saved.dirs \in SUBSET EntityName
    /\ saved.files \in [EntityName -> [FileName -> Content]]
    /\ saved.map \in MapType
    /\ Settled(saved.dirs, saved.files, saved.map)

Untouched == dirs = saved.dirs /\ files = saved.files /\ entity_id_map = saved.map

\* The index POST gives to get_next_id.
KeyMap(e) == IF e \in saved.dirs THEN saved.map ELSE InsertKey(saved.map, e)

\* The index with the id get_next_id chose, to_string of which names the file.
Allotted(e, n) ==
    \E id \in 1..MaxId :
        /\ n = ToString[id]
        /\ IsNextId(id, KeyMap(e)[e])
        /\ entity_id_map = [KeyMap(e) EXCEPT ![e] = @ \cup {id}]

\* The file holds the body, or what a refused write leaves.
Stored(e, n, b) ==
    \E c \in Content :
        /\ files = WriteFile(saved.files, e, n, c)
        /\ c = b \/ (DiskErrors /\ c \in {saved.files[e][n], Truncated})

Inserting == {"insert", "insertback", "insertnew"}
Erasing == {"erase", "eraseback"}

\* Before the first change.
Looked(r, e, n) ==
    /\ pc[r] \in {"check", "mkdir", "list", "read", "remove"} => Untouched
    /\ pc[r] = "mkdir" => e \notin saved.dirs
    /\ pc[r] = "list" => e \in saved.dirs /\ IdOf(e) = 0
    /\ pc[r] \in {"read", "remove"} => saved.files[e][n] # Absent

\* POST and PUT up to the write.
Prepared(r, e, n) ==
    /\ pc[r] \in {"insertkey", "nextid", "nextidback", "open", "write"} => dirs = saved.dirs \cup {e}
    /\ pc[r] \in {"insertkey", "nextid", "nextidback", "open"} => files = saved.files
    /\ pc[r] = "write" => files = WriteFile(saved.files, e, n, Truncated)
    /\ pc[r] = "insertkey" => entity_id_map = saved.map /\ e \notin saved.dirs
    /\ pc[r] \in {"nextid", "nextidback"} => entity_id_map = KeyMap(e)
    /\ pc[r] = "nextidback" => ids[r] = entity_id_map[e]
    /\ pc[r] \in {"open", "write"} => IF req[r].op = "create" THEN Allotted(e, n)
                                      ELSE entity_id_map = saved.map

\* PUT, GET and DELETE on their way through the index.
Indexing(r, e, n) ==
    /\ pc[r] \in Inserting \cup Erasing => entity_id_map = saved.map
    /\ pc[r] \in Inserting =>
           IF req[r].op = "update" THEN dirs = saved.dirs \cup {e} /\ Stored(e, n, req[r].b)
           ELSE dirs = saved.dirs /\ files = saved.files
                /\ req[r].b = saved.files[e][n] /\ req[r].b # Absent
    /\ pc[r] \in Erasing => dirs = saved.dirs
    /\ pc[r] \in Erasing =>
           IF req[r].op = "delete"
           THEN saved.files[e][n] # Absent /\ files = WriteFile(saved.files, e, n, Absent)
           ELSE files = saved.files
    /\ pc[r] \in Erasing /\ req[r].op = "retrieve" => saved.files[e][n] = Absent

\* What parse_url_target let through.
Parsed(q) ==
    /\ q.op = "list" => Numeric(q.n)
    /\ q.op \in {"retrieve", "update"} => IdOf(q.n) # 0

Progress(r) ==
    pc[r] # "idle" =>
        /\ SavedFits
        /\ Parsed(req[r])
        /\ Looked(r, req[r].e, req[r].n)
        /\ Prepared(r, req[r].e, req[r].n)
        /\ Indexing(r, req[r].e, req[r].n)
        /\ CopyFits(r)

\* The inductive invariant of the refinement.
AtomicInv ==
    /\ ShapeInv
    /\ ~Busy => Settled(dirs, files, entity_id_map)
    /\ \A r \in Runner : Progress(r)

\* What ImplementsAtomic allows besides stuttering.
AtomicMove ==
    \/ Atomic!Next
    \/ \E e \in EntityName, n \in FileName : CutOff(e, n) \/ (DiskErrors /\ Spoilt(e, n))

\* A step inside a request, and the one with which it answers.
Goes(r) == UNCHANGED <<saved, resp>> /\ pc'[r] # "idle" /\ Progress(r)'

Answers(r) == pc'[r] = "idle" /\ Settled(dirs, files, entity_id_map)' /\ AtomicMove

LEMMA BusyViews ==
    ASSUME NEW r \in Runner, pc[r] # "idle"
    PROVE  aDirs = saved.dirs /\ aFiles = saved.files /\ aMap = saved.map
BY DEF aDirs, aFiles, aMap, Busy

LEMMA IdleViews ==
    ASSUME \A r \in Runner : pc[r] = "idle"
    PROVE  aDirs = dirs /\ aFiles = files /\ aMap = entity_id_map
BY DEF aDirs, aFiles, aMap, Busy

LEMMA BusyViewsNext ==
    ASSUME NEW r \in Runner, pc'[r] # "idle"
    PROVE  aDirs' = saved'.dirs /\ aFiles' = saved'.files /\ aMap' = saved'.map
BY DEF aDirs, aFiles, aMap, Busy

LEMMA IdleViewsNext ==
    ASSUME \A r \in Runner : pc'[r] = "idle"
    PROVE  aDirs' = dirs' /\ aFiles' = files' /\ aMap' = entity_id_map'
BY DEF aDirs, aFiles, aMap, Busy

\* The answer of get_response.
LEMMA FinishAnswer ==
    ASSUME ShapeInv, NEW r \in Runner, NEW code, NEW listed, NEW body,
           Finish(r, code, listed, body)
    PROVE  /\ pc'[r] = "idle"
           /\ req[r].op # "detour" /\ Numeric(req[r].n) =>
                  resp' = Atomic!Reply(req[r].op, req[r].e, ReplyId(req[r]), code, listed, body)
           /\ req[r].op # "detour" /\ ~Numeric(req[r].n) =>
                  resp' = Atomic!Reply("other", Absent, 0, code, listed, body)
           /\ req[r].op = "detour" =>
                  resp' = Atomic!Reply("detour", Absent, 0, code, listed, body)
<1>1. pc \in [Runner -> Label]
  BY DEF ShapeInv, TypeOK
<1> QED
  BY <1>1 DEF Finish, Goto, Reply, Atomic!Reply

LEMMA PlainIsReply ==
    ASSUME NEW op, NEW e, NEW i, NEW code
    PROVE  Atomic!Plain(op, e, i, code) = Atomic!Reply(op, e, i, code, {}, Absent)
BY DEF Atomic!Plain

\* A request served is a step of ApiHandler.
LEMMA ServeIsMove ==
    ASSUME NEW e \in EntityName, Atomic!Serve(e, Body)
    PROVE  AtomicMove
BY DEF AtomicMove, Atomic!Next, Atomic!Request

LEMMA DetourIsMove ==
    ASSUME NEW e \in EntityName, NEW n \in FileName,
           Atomic!DetourGet(e, n) \/ Atomic!DetourDelete(e, n)
    PROVE  AtomicMove
BY DEF AtomicMove, Atomic!Next, Atomic!Detour

\* Writing a file twice, and writing what is there.
LEMMA WriteTwice ==
    ASSUME NEW d \in [EntityName -> [FileName -> Content]], NEW e \in EntityName,
           NEW n \in FileName, NEW c \in Content, NEW b \in Content
    PROVE  /\ WriteFile(WriteFile(d, e, n, c), e, n, b) = WriteFile(d, e, n, b)
           /\ WriteFile(d, e, n, d[e][n]) = d
BY DEF WriteFile

\* The operators of ApiData as ApiHandler sees them.
LEMMA SameOperators ==
    /\ \A x : Atomic!IdOf(x) = IdOf(x) /\ (Atomic!Numeric(x) <=> Numeric(x))
    /\ \A d, x, y, c : Atomic!WriteFile(d, x, y, c) = WriteFile(d, x, y, c)
    /\ \A m, x, i : /\ Atomic!InsertIfNotExist(m, x, i) = InsertIfNotExist(m, x, i)
                    /\ Atomic!EraseIfExist(m, x, i) = EraseIfExist(m, x, i)
    /\ \A m, x : Atomic!InsertKey(m, x) = InsertKey(m, x)
    /\ \A i, s : Atomic!IsNextId(i, s) <=> IsNextId(i, s)
    /\ \A ds, d : Atomic!ScanFS(ds, d) = ScanFS(ds, d)
<1>1. /\ \A x : Atomic!IdOf(x) = IdOf(x) /\ (Atomic!Numeric(x) <=> Numeric(x))
      /\ \A i, s : Atomic!IsNextId(i, s) <=> IsNextId(i, s)
  BY DEF IdOf, Atomic!IdOf, Numeric, Atomic!Numeric, IsNextId, Atomic!IsNextId
<1>2. \A d, x, y, c : Atomic!WriteFile(d, x, y, c) = WriteFile(d, x, y, c)
  BY DEF WriteFile, Atomic!WriteFile
<1>3. /\ \A m, x, i : /\ Atomic!InsertIfNotExist(m, x, i) = InsertIfNotExist(m, x, i)
                      /\ Atomic!EraseIfExist(m, x, i) = EraseIfExist(m, x, i)
      /\ \A m, x : Atomic!InsertKey(m, x) = InsertKey(m, x)
  BY DEF InsertIfNotExist, Atomic!InsertIfNotExist, EraseIfExist, Atomic!EraseIfExist,
         InsertKey, Atomic!InsertKey
<1>4. \A ds, d : Atomic!ScanFS(ds, d) = ScanFS(ds, d)
  BY DEF ScanFS, Atomic!ScanFS, DiskIds, Atomic!DiskIds, Numeric, Atomic!Numeric
<1> QED
  BY <1>1, <1>2, <1>3, <1>4

\* One step of the one runner, action by action.
LEMMA StepProgress ==
    ASSUME OneRunner, AtomicInv, NEW r \in Runner, Step(r)
    PROVE  Goes(r) \/ Answers(r)
<1>t. /\ dirs \subseteq EntityName
      /\ files \in [EntityName -> [FileName -> Content]]
      /\ entity_id_map \in MapType
      /\ pc \in [Runner -> Label]
      /\ req \in [Runner -> StoredRequest]
      /\ ids \in [Runner -> {NoEntry} \cup SUBSET FileId]
      /\ RequestShape(r)
      /\ Progress(r)
  BY TypeParts DEF AtomicInv, ShapeInv
<1>e. PICK e \in EntityName, n \in FileName, b \in {Truncated} \cup Body, op \in Method :
        req[r].e = e /\ req[r].n = n /\ req[r].b = b /\ req[r].op = op
  BY <1>t DEF StoredRequest
<1>b. pc[r] # "idle"
  BY DEF Step, At, CheckFound, CheckMissing, Mkdir, InsertKeyStep, NextId, NextIdBack, Open,
         Write, WriteFails, ListStep, Read, Remove, CopyIds, InsertBack, EraseBack
<1>p. /\ SavedFits
      /\ Parsed(req[r])
      /\ Looked(r, e, n) /\ Prepared(r, e, n) /\ Indexing(r, e, n)
      /\ CopyFits(r)
  BY <1>t, <1>e, <1>b DEF Progress
<1>s. /\ saved.dirs \in SUBSET EntityName
      /\ saved.files \in [EntityName -> [FileName -> Content]]
      /\ saved.map \in MapType
      /\ \A f \in EntityName : saved.map[f] # NoEntry <=> f \in saved.dirs
      /\ \A f \in EntityName, m \in FileName : saved.files[f][m] # Absent => f \in saved.dirs
  BY <1>p DEF SavedFits, Settled
<1>k. /\ KeyMap(e) \in MapType
      /\ KeyMap(e)[e] # NoEntry
      /\ saved.map[e] = NoEntry => KeyMap(e)[e] = {}
      /\ saved.map[e] # NoEntry => KeyMap(e)[e] = saved.map[e]
      /\ \A f \in EntityName : f # e => KeyMap(e)[f] = saved.map[f]
  BY <1>s, InsertKeyType DEF KeyMap
<1>v. aDirs = saved.dirs /\ aFiles = saved.files /\ aMap = saved.map
  BY <1>b, BusyViews
<1>n. ASSUME pc'[r] = "idle"
      PROVE  aDirs' = dirs' /\ aFiles' = files' /\ aMap' = entity_id_map'
  BY <1>n, IdleViewsNext DEF OneRunner
<1>c. /\ b \in Content /\ Truncated \in Content /\ Absent \in Content
      /\ Truncated # Absent /\ (b # Absent)
  BY TruncatedAssumption, AbsentAssumption DEF Content
<1>g. ASSUME saved' = saved, resp' = resp, pc'[r] # "idle",
             NEW m \in FileName, req'[r].e = e, req'[r].n = m, Parsed(req'[r]),
             Looked(r, e, m)', Prepared(r, e, m)', Indexing(r, e, m)', CopyFits(r)'
      PROVE  Goes(r)
  <2>1. SavedFits'
    BY <1>p, <1>g DEF SavedFits, Settled
  <2>2. Progress(r)'
    BY <1>g, <2>1 DEF Progress
  <2> QED
    BY <1>g, <2>2 DEF Goes
<1>1. CASE CheckFound(r)
  <2>1. /\ UNCHANGED <<dirs, files, entity_id_map, req, ids, resp, saved>>
        /\ pc[r] = "check"
        /\ FoundAt(r)
    BY <1>1 DEF CheckFound, disk, aux, At
  <2>2. /\ pc'[r] \in {"nextid", "open", "list", "read", "remove"}
        /\ pc'[r] = "nextid" <=> op = "create"
        /\ pc'[r] = "open" <=> op = "update"
        /\ pc'[r] = "list" <=> op = "list"
        /\ pc'[r] = "read" <=> op = "retrieve"
        /\ pc'[r] = "remove" <=> op \in {"delete", "detour"}
    BY <1>1, <1>t, <1>e DEF CheckFound, Goto, Method
  <2>3. Untouched
    BY <1>p, <2>1 DEF Looked
  <2>4. /\ op \in {"create", "update", "list"} => e \in saved.dirs
        /\ op = "list" => IdOf(e) = 0
        /\ op \in {"retrieve", "delete", "detour"} => saved.files[e][n] # Absent
    BY <1>e, <2>1, <2>3 DEF FoundAt, NumericGet, Untouched
  <2>5. Looked(r, e, n)'
    BY <2>1, <2>2, <2>3, <2>4 DEF Looked, Untouched
  <2>6. Prepared(r, e, n)'
    BY <1>e, <1>s, <2>1, <2>2, <2>3, <2>4 DEF Prepared, Untouched, KeyMap
  <2>7. Indexing(r, e, n)' /\ CopyFits(r)'
    BY <2>2 DEF Indexing, CopyFits, Inserting, Erasing
  <2> QED
    BY <1>e, <1>g, <1>p, <2>1, <2>2, <2>5, <2>6, <2>7
<1>2. CASE CheckMissing(r)
  <2>1. /\ UNCHANGED <<dirs, files, entity_id_map, ids>>
        /\ pc[r] = "check"
        /\ ~FoundAt(r)
    BY <1>2 DEF CheckMissing, disk, At
  <2>2. Untouched
    BY <1>p, <2>1 DEF Looked
  <2>3. /\ op \in {"create", "update"} => e \notin saved.dirs
        /\ op = "list" /\ IdOf(e) = 0 => e \notin saved.dirs
        /\ op \in {"retrieve", "delete", "detour"} => saved.files[e][n] = Absent
    BY <1>e, <2>1, <2>2 DEF FoundAt, NumericGet, Untouched
  <2>n. NumericGet(req[r]) <=> op = "list" /\ IdOf(e) # 0
    BY <1>e DEF NumericGet
  <2>4. CASE op \in {"create", "update", "retrieve"} \/ NumericGet(req[r])
    <3>1. /\ UNCHANGED <<req, resp, saved>>
          /\ op \in {"create", "update"} => pc'[r] = "mkdir"
          /\ op \notin {"create", "update"} => pc'[r] = "erase"
      <4>1. CASE op \in {"create", "update"}
        BY <1>2, <1>e, <1>t, <2>n, <4>1 DEF CheckMissing, Goto, aux
      <4>2. CASE op \notin {"create", "update"}
        <5>1. req[r].op = "retrieve" \/ NumericGet(req[r])
          BY <1>e, <2>4, <4>2
        <5>2. Goto(r, "erase") /\ UNCHANGED <<req, resp, aux>>
          BY <1>2, <1>e, <4>2, <5>1 DEF CheckMissing
        <5> QED
          BY <1>t, <4>2, <5>2 DEF Goto, aux
      <4> QED
        BY <4>1, <4>2
    <3>2. pc'[r] = "mkdir" \/ (pc'[r] = "erase" /\ op \in {"retrieve", "list"})
      BY <2>4, <2>n, <3>1
    <3>3. Looked(r, e, n)'
      BY <2>1, <2>2, <2>3, <2>4, <3>1, <3>2 DEF Looked, Untouched
    <3>4. Prepared(r, e, n)'
      BY <3>2 DEF Prepared
    <3>5. Indexing(r, e, n)' /\ CopyFits(r)'
      BY <1>e, <2>1, <2>2, <2>3, <3>1, <3>2 DEF Indexing, CopyFits, Inserting, Erasing, Untouched
    <3> QED
      BY <1>e, <1>g, <1>p, <3>1, <3>2, <3>3, <3>4, <3>5
  <2>5. CASE op \in {"list", "delete", "detour"} /\ ~NumericGet(req[r])
    <3>1. Finish(r, 404, {}, Absent)
      BY <1>2, <1>e, <2>5 DEF CheckMissing
    <3>2. /\ pc'[r] = "idle"
          /\ op # "detour" /\ Numeric(n) => resp' = Atomic!Plain(op, e, ReplyId(req[r]), 404)
          /\ op # "detour" /\ ~Numeric(n) => resp' = Atomic!Plain("other", Absent, 0, 404)
          /\ op = "detour" => resp' = Atomic!Plain("detour", Absent, 0, 404)
      BY <1>e, <3>1, FinishAnswer, PlainIsReply DEF AtomicInv
    <3>3. /\ aDirs' = aDirs /\ aFiles' = aFiles /\ aMap' = aMap
          /\ dirs' = saved.dirs /\ files' = saved.files /\ entity_id_map' = saved.map
      BY <1>n, <1>v, <2>1, <2>2, <3>2 DEF Untouched
    <3>4. Settled(dirs, files, entity_id_map)'
      BY <1>s, <3>3 DEF Settled
    <3>5. CASE op = "list"
      <4>1. Numeric(n) /\ IdOf(e) = 0 /\ ReplyId(req[r]) = 0
        BY <1>e, <1>p, <2>5, <2>n, <3>5 DEF Parsed, ReplyId
      <4>2. Atomic!List(e)
        BY <1>v, <2>3, <3>2, <3>3, <3>5, <4>1, SameOperators DEF Atomic!List
      <4> QED
        BY <3>2, <3>4, <4>2, ServeIsMove DEF Atomic!Serve, Answers
    <3>6. CASE op = "delete"
      <4>1. ReplyId(req[r]) = Stoi[n]
        BY <1>e, <3>6 DEF ReplyId
      <4>2. Atomic!Delete(e, n)
        BY <1>v, <2>3, <3>2, <3>3, <3>6, <4>1, SameOperators DEF Atomic!Delete
      <4> QED
        BY <3>2, <3>4, <4>2, ServeIsMove DEF Atomic!Serve, Answers
    <3>7. CASE op = "detour"
      <4>1. Atomic!DetourGet(e, n)
        BY <3>2, <3>3, <3>7 DEF Atomic!DetourGet
      <4> QED
        BY <3>2, <3>4, <4>1, DetourIsMove DEF Answers
    <3> QED
      BY <2>5, <3>5, <3>6, <3>7
  <2> QED
    BY <2>4, <2>5 DEF Method
<1>3. CASE Mkdir(r)
  <2>1. /\ UNCHANGED <<files, entity_id_map, req, ids, resp, saved>>
        /\ dirs' = dirs \cup {e}
        /\ pc[r] = "mkdir"
        /\ pc'[r] = IF op = "create" THEN "insertkey" ELSE "open"
    BY <1>3, <1>e, <1>t DEF Mkdir, Goto, aux, At
  <2>2. Untouched /\ e \notin saved.dirs
    BY <1>p, <2>1 DEF Looked
  <2>3. Looked(r, e, n)' /\ Indexing(r, e, n)' /\ CopyFits(r)'
    BY <2>1 DEF Looked, Indexing, CopyFits, Inserting, Erasing
  <2>4. Prepared(r, e, n)'
    BY <1>e, <2>1, <2>2 DEF Prepared, Untouched
  <2> QED
    BY <1>e, <1>g, <1>p, <2>1, <2>3, <2>4
<1>4. CASE InsertKeyStep(r)
  <2>1. /\ UNCHANGED <<dirs, files, req, ids, resp, saved>>
        /\ entity_id_map' = InsertKey(entity_id_map, e)
        /\ pc[r] = "insertkey"
        /\ pc'[r] = "nextid"
    BY <1>4, <1>e, <1>t DEF InsertKeyStep, Goto, disk, aux, At
  <2>2. Looked(r, e, n)' /\ Indexing(r, e, n)' /\ CopyFits(r)'
    BY <2>1 DEF Looked, Indexing, CopyFits, Inserting, Erasing
  <2>3. Prepared(r, e, n)'
    BY <1>p, <2>1 DEF Prepared, KeyMap
  <2> QED
    BY <1>e, <1>g, <1>p, <2>1, <2>2, <2>3
<1>5. CASE NextId(r)
  <2>1. /\ UNCHANGED <<dirs, files, entity_id_map, req, resp, saved>>
        /\ pc[r] = "nextid"
    BY <1>5 DEF NextId, disk, aux, At
  <2>2. entity_id_map = KeyMap(e)
    BY <1>p, <2>1 DEF Prepared
  <2>3. pc'[r] = "nextidback" /\ ids'[r] = entity_id_map[e]
    BY <1>5, <1>e, <1>k, <1>t, <2>2 DEF NextId, ExistingIDs, Goto
  <2>4. Looked(r, e, n)' /\ Indexing(r, e, n)' /\ CopyFits(r)'
    BY <2>3 DEF Looked, Indexing, CopyFits, Inserting, Erasing
  <2>5. Prepared(r, e, n)'
    BY <1>p, <2>1, <2>3 DEF Prepared, KeyMap
  <2> QED
    BY <1>e, <1>g, <1>p, <2>1, <2>3, <2>4, <2>5
<1>6. CASE NextIdBack(r)
  <2>1. /\ UNCHANGED <<dirs, files, resp, saved>>
        /\ pc[r] = "nextidback"
        /\ pc'[r] = "open"
        /\ op = "create"
    BY <1>6, <1>e, <1>t DEF NextIdBack, disk, aux, At, Goto, RequestShape
  <2>2. PICK id \in 1..MaxId :
          /\ IsNextId(id, ids[r])
          /\ entity_id_map' = [entity_id_map EXCEPT ![e] = ids[r] \cup {id}]
          /\ req' = [req EXCEPT ![r].n = ToString[id]]
    BY <1>6, <1>e DEF NextIdBack
  <2>3. ToString[id] \in FileName /\ Numeric(ToString[id])
    BY NewIdIsFileId
  <2>4. req'[r].e = e /\ req'[r].n = ToString[id] /\ req'[r].op = op
    BY <1>e, <1>t, <2>2 DEF StoredRequest
  <2>5. entity_id_map = KeyMap(e) /\ ids[r] = entity_id_map[e]
    BY <1>p, <2>1 DEF Prepared
  <2>6. Allotted(e, ToString[id])'
    <3>1. KeyMap(e)' = KeyMap(e)
      BY <2>1 DEF KeyMap
    <3>2. entity_id_map' = [KeyMap(e) EXCEPT ![e] = @ \cup {id}]
      BY <2>2, <2>5
    <3> QED
      BY <2>2, <2>5, <3>1, <3>2 DEF Allotted
  <2>7. Looked(r, e, ToString[id])' /\ Indexing(r, e, ToString[id])' /\ CopyFits(r)'
    BY <2>1 DEF Looked, Indexing, CopyFits, Inserting, Erasing
  <2>8. Prepared(r, e, ToString[id])'
    BY <1>p, <2>1, <2>4, <2>6 DEF Prepared
  <2>9. Parsed(req'[r])
    BY <2>1, <2>4 DEF Parsed
  <2> QED
    BY <1>g, <2>1, <2>3, <2>4, <2>7, <2>8, <2>9
<1>7. CASE Open(r)
  <2>1. /\ UNCHANGED <<dirs, entity_id_map, req, ids, resp, saved>>
        /\ files' = WriteFile(files, e, n, Truncated)
        /\ pc[r] = "open"
        /\ pc'[r] = "write"
    BY <1>7, <1>e, <1>t DEF Open, Goto, aux, At
  <2>2. Looked(r, e, n)' /\ Indexing(r, e, n)' /\ CopyFits(r)'
    BY <2>1 DEF Looked, Indexing, CopyFits, Inserting, Erasing
  <2>3. KeyMap(e)' = KeyMap(e)
    BY <2>1 DEF KeyMap
  <2>4. Allotted(e, n) => Allotted(e, n)'
    BY <2>1, <2>3 DEF Allotted
  <2>5. Prepared(r, e, n)'
    BY <1>p, <2>1, <2>4 DEF Prepared
  <2> QED
    BY <1>e, <1>g, <1>p, <2>1, <2>2, <2>5
<1>x. ASSUME dirs' = saved.dirs \cup {e}, NEW c \in Content,
             files' = WriteFile(saved.files, e, n, c), entity_id_map'[e] # NoEntry,
             \A f \in EntityName : f # e => entity_id_map'[f] = saved.map[f]
      PROVE  Settled(dirs, files, entity_id_map)'
  <2>1. \A f \in EntityName, m \in FileName : f # e => files'[f][m] = saved.files[f][m]
    BY <1>s, <1>x, ContentWritten
  <2> QED
    BY <1>s, <1>x, <2>1 DEF Settled
<1>y. ASSUME dirs' = saved.dirs,
             files' = saved.files \/ files' = WriteFile(saved.files, e, n, Absent),
             \A f \in EntityName : entity_id_map'[f] = NoEntry <=> saved.map[f] = NoEntry
      PROVE  Settled(dirs, files, entity_id_map)'
  <2>1. \A f \in EntityName, m \in FileName : files'[f][m] # Absent => saved.files[f][m] # Absent
    <3>1. CASE files' = saved.files
      BY <3>1
    <3>2. CASE files' = WriteFile(saved.files, e, n, Absent)
      <4>1. /\ files'[e][n] = Absent
            /\ \A f \in EntityName, m \in FileName :
                   f # e \/ m # n => files'[f][m] = saved.files[f][m]
        BY <1>c, <1>s, <3>2, ContentWritten
      <4> QED
        BY <4>1
    <3> QED
      BY <1>y, <3>1, <3>2
  <2> QED
    BY <1>s, <1>y, <2>1 DEF Settled
<1>o. ASSUME pc[r] \in {"open", "write"}
      PROVE  /\ dirs = saved.dirs \cup {e}
             /\ op \in {"create", "update"}
             /\ b \in Body
             /\ pc[r] = "open" => files = saved.files
             /\ pc[r] = "write" => files = WriteFile(saved.files, e, n, Truncated)
             /\ op = "create" => Allotted(e, n)
             /\ op = "update" => entity_id_map = saved.map
  BY <1>e, <1>o, <1>p, <1>t DEF Prepared, RequestShape
<1>a. ASSUME Allotted(e, n)
      PROVE  /\ Numeric(n)
             /\ entity_id_map = InsertIfNotExist(saved.map, e, Stoi[n])
             /\ entity_id_map[e] # NoEntry
             /\ \A f \in EntityName : f # e => entity_id_map[f] = saved.map[f]
  <2>1. PICK id \in 1..MaxId :
          /\ n = ToString[id]
          /\ entity_id_map = [KeyMap(e) EXCEPT ![e] = @ \cup {id}]
    BY <1>a DEF Allotted
  <2>2. id \in FileId /\ Numeric(n) /\ Stoi[n] = id
    BY <2>1, NewIdIsFileId
  <2> DEFINE k == InsertIfNotExist(saved.map, e, id)
  <2>3. /\ k \in MapType
        /\ k[e] # NoEntry
        /\ saved.map[e] = NoEntry => k[e] = {id}
        /\ saved.map[e] # NoEntry => k[e] = saved.map[e] \cup {id}
        /\ \A f \in EntityName : f # e => k[f] = saved.map[f]
    BY <1>s, <2>2, InsertType
  <2> HIDE DEF k
  <2>4. entity_id_map[e] = k[e]
    BY <1>k, <2>1, <2>3 DEF MapType
  <2>5. \A f \in EntityName : f # e => entity_id_map[f] = k[f]
    BY <1>k, <2>1, <2>3 DEF MapType
  <2>6. entity_id_map = k
    BY <1>t, <2>3, <2>4, <2>5 DEF MapType
  <2> QED
    BY <2>2, <2>3, <2>6 DEF k
<1>u. ASSUME pc[r] \in {"open", "write"}, op = "update", Written(r),
             UNCHANGED <<dirs, entity_id_map, ids>>, Stored(e, n, b)'
      PROVE  Goes(r)
  <2>1. UNCHANGED <<req, resp, saved>> /\ pc'[r] = "insert"
    BY <1>e, <1>t, <1>u DEF Written, Goto, aux
  <2>2. Looked(r, e, n)' /\ Prepared(r, e, n)' /\ CopyFits(r)'
    BY <2>1 DEF Looked, Prepared, CopyFits
  <2>3. Indexing(r, e, n)'
    BY <1>e, <1>o, <1>u, <2>1 DEF Indexing, Inserting, Erasing
  <2> QED
    BY <1>e, <1>g, <1>p, <2>1, <2>2, <2>3
<1>8. CASE Write(r)
  <2>1. /\ UNCHANGED <<dirs, entity_id_map, ids>>
        /\ pc[r] = "write"
        /\ Written(r)
    BY <1>8 DEF Write, At
  <2>2. files = WriteFile(saved.files, e, n, Truncated) /\ files[e][n] = Truncated
    BY <1>c, <1>o, <1>s, <2>1, ContentWritten
  <2>3. files' = WriteFile(files, e, n, b)
    BY <1>8, <1>c, <1>e, <2>2 DEF Write
  <2>4. files' = WriteFile(saved.files, e, n, b)
    BY <1>c, <1>s, <2>2, <2>3, WriteTwice
  <2>5. CASE op = "update"
    <3>1. Stored(e, n, b)'
      <4>1. saved' = saved
        BY <1>e, <2>1, <2>5 DEF Written, aux
      <4> QED
        BY <1>c, <2>4, <4>1 DEF Stored
    <3> QED
      BY <1>u, <2>1, <2>5, <3>1
  <2>6. CASE op = "create"
    <3>1. Finish(r, 201, {}, Absent)
      BY <1>e, <2>1, <2>6 DEF Written
    <3>2. Allotted(e, n)
      BY <1>o, <2>1, <2>6
    <3>3. ReplyId(req[r]) = Stoi[n] /\ Numeric(n)
      BY <1>a, <1>e, <2>6, <3>2 DEF ReplyId
    <3>4. pc'[r] = "idle" /\ resp' = Atomic!Plain("create", e, Stoi[n], 201)
      BY <1>e, <2>6, <3>1, <3>3, FinishAnswer, PlainIsReply DEF AtomicInv
    <3>5. Settled(dirs, files, entity_id_map)'
      BY <1>a, <1>c, <1>o, <1>x, <2>1, <2>4, <3>2
    <3>6. PICK id \in 1..MaxId :
            /\ n = ToString[id]
            /\ IsNextId(id, KeyMap(e)[e])
            /\ entity_id_map = [KeyMap(e) EXCEPT ![e] = @ \cup {id}]
      BY <3>2 DEF Allotted
    <3>7. Stoi[n] = id
      BY <3>6, NewIdIsFileId
    <3>8. KeyMap(e) = IF e \in aDirs THEN aMap ELSE Atomic!InsertKey(aMap, e)
      BY <1>v, SameOperators DEF KeyMap
    <3>9. /\ aDirs' = aDirs \cup {e}
          /\ aFiles' = Atomic!WriteFile(aFiles, e, ToString[id], b)
          /\ aMap' = [KeyMap(e) EXCEPT ![e] = @ \cup {id}]
      BY <1>n, <1>o, <1>v, <2>1, <2>4, <3>4, <3>6, SameOperators
    <3>10. Atomic!Post(e, b)
      BY <1>k, <3>4, <3>6, <3>7, <3>8, <3>9, SameOperators DEF Atomic!Post
    <3>11. Atomic!Serve(e, Body)
      BY <1>o, <2>1, <3>10 DEF Atomic!Serve
    <3> QED
      BY <3>4, <3>5, <3>11, ServeIsMove DEF Answers
  <2> QED
    BY <1>o, <2>1, <2>5, <2>6
<1>9. CASE WriteFails(r)
  <2>1. /\ UNCHANGED <<dirs, files, entity_id_map, ids>>
        /\ pc[r] \in {"open", "write"}
        /\ Written(r)
        /\ DiskErrors
    BY <1>9 DEF WriteFails, At
  <2>2. PICK c \in {saved.files[e][n], Truncated} : files = WriteFile(saved.files, e, n, c)
    BY <1>c, <1>o, <1>s, <2>1, WriteTwice
  <2>3. c \in Content
    BY <1>c, <1>s, <2>2
  <2>4. CASE op = "update"
    <3>1. Stored(e, n, b)'
      <4>1. saved' = saved
        BY <1>e, <2>1, <2>4 DEF Written, aux
      <4> QED
        BY <2>1, <2>2, <2>3, <4>1 DEF Stored
    <3> QED
      BY <1>u, <2>1, <2>4, <3>1
  <2>5. CASE op = "create"
    <3>1. Finish(r, 201, {}, Absent)
      BY <1>e, <2>1, <2>5 DEF Written
    <3>2. Allotted(e, n)
      BY <1>o, <2>1, <2>5
    <3>3. ReplyId(req[r]) = Stoi[n] /\ Numeric(n)
      BY <1>a, <1>e, <2>5, <3>2 DEF ReplyId
    <3>4. pc'[r] = "idle" /\ resp' = Atomic!Plain("create", e, Stoi[n], 201)
      BY <1>e, <2>5, <3>1, <3>3, FinishAnswer, PlainIsReply DEF AtomicInv
    <3>5. Settled(dirs, files, entity_id_map)'
      BY <1>a, <1>o, <1>x, <2>1, <2>2, <2>3, <3>2
    <3>6. Spoilt(e, n)
      BY <1>a, <1>n, <1>o, <1>v, <2>1, <2>2, <3>2, <3>4 DEF Spoilt
    <3> QED
      BY <2>1, <3>4, <3>5, <3>6 DEF Answers, AtomicMove
  <2> QED
    BY <1>o, <2>1, <2>4, <2>5
<1>10. CASE ListStep(r)
  <2>1. /\ UNCHANGED <<dirs, files, entity_id_map>>
        /\ pc[r] = "list"
        /\ op = "list"
    BY <1>10, <1>e, <1>t DEF ListStep, disk, At, RequestShape
  <2>2. PICK listed :
          /\ listed = IF entity_id_map[e] = NoEntry THEN {} ELSE entity_id_map[e]
          /\ Finish(r, 200, listed, Absent)
    BY <1>10, <1>e DEF ListStep
  <2>3. Untouched /\ e \in saved.dirs /\ IdOf(e) = 0
    BY <1>p, <2>1 DEF Looked
  <2>4. Numeric(n) /\ ReplyId(req[r]) = 0
    BY <1>e, <1>p, <2>1 DEF Parsed, ReplyId
  <2>5. pc'[r] = "idle" /\ resp' = Atomic!Reply("list", e, 0, 200, listed, Absent)
    BY <1>e, <2>1, <2>2, <2>4, FinishAnswer DEF AtomicInv
  <2>6. Settled(dirs, files, entity_id_map)'
    BY <1>y, <2>1, <2>3 DEF Untouched
  <2>7. aDirs' = aDirs /\ aFiles' = aFiles /\ aMap' = aMap
    BY <1>n, <1>v, <2>1, <2>3, <2>5 DEF Untouched
  <2>8. listed = aMap[e] /\ aMap[e] # NoEntry
    BY <1>s, <1>v, <2>2, <2>3 DEF Untouched
  <2>9. Atomic!List(e)
    BY <1>v, <2>3, <2>4, <2>5, <2>7, <2>8, SameOperators DEF Atomic!List, Atomic!ListReply
  <2> QED
    BY <2>5, <2>6, <2>9, ServeIsMove DEF Atomic!Serve, Answers
<1>11. CASE Read(r)
  <2>1. /\ UNCHANGED <<dirs, files, entity_id_map, ids, resp, saved>>
        /\ pc[r] = "read"
        /\ pc'[r] = "insert"
        /\ op = "retrieve"
    BY <1>11, <1>e, <1>t DEF Read, disk, aux, At, Goto, RequestShape
  <2>2. Untouched /\ saved.files[e][n] # Absent
    BY <1>p, <2>1 DEF Looked
  <2>3. /\ req'[r].e = e /\ req'[r].n = n /\ req'[r].op = "retrieve"
        /\ req'[r].b = saved.files[e][n]
    BY <1>11, <1>e, <1>t, <2>1, <2>2 DEF Read, StoredRequest, Untouched
  <2>4. Looked(r, e, n)' /\ Prepared(r, e, n)' /\ CopyFits(r)'
    BY <2>1 DEF Looked, Prepared, CopyFits
  <2>5. Indexing(r, e, n)'
    BY <2>1, <2>2, <2>3 DEF Indexing, Inserting, Erasing, Untouched
  <2>6. Parsed(req'[r])
    BY <1>e, <1>p, <2>1, <2>3 DEF Parsed
  <2> QED
    BY <1>g, <2>1, <2>3, <2>4, <2>5, <2>6
<1>12. CASE Remove(r)
  <2>1. /\ UNCHANGED <<dirs, entity_id_map, ids>>
        /\ pc[r] = "remove"
        /\ op \in {"delete", "detour"}
        /\ files' = WriteFile(files, e, n, Absent)
    BY <1>12, <1>e, <1>t DEF Remove, At, RequestShape
  <2>2. Untouched /\ saved.files[e][n] # Absent
    BY <1>p, <2>1 DEF Looked
  <2>3. CASE op = "delete" /\ Numeric(n)
    <3>1. UNCHANGED <<req, resp, saved>> /\ pc'[r] = "erase"
      BY <1>12, <1>e, <1>t, <2>3 DEF Remove, Goto, aux
    <3>2. Looked(r, e, n)' /\ Prepared(r, e, n)' /\ CopyFits(r)'
      BY <3>1 DEF Looked, Prepared, CopyFits
    <3>3. Indexing(r, e, n)'
      BY <1>e, <2>1, <2>2, <2>3, <3>1 DEF Indexing, Inserting, Erasing, Untouched
    <3> QED
      BY <1>e, <1>g, <1>p, <3>1, <3>2, <3>3
  <2>4. CASE ~(op = "delete" /\ Numeric(n))
    <3>1. Finish(r, 200, {}, Absent)
      BY <1>12, <1>e, <2>4 DEF Remove
    <3>2. pc'[r] = "idle" /\ resp' = Atomic!Plain(IF op = "detour" THEN "detour" ELSE "other",
                                                 Absent, 0, 200)
      BY <1>e, <2>1, <2>4, <3>1, FinishAnswer, PlainIsReply DEF AtomicInv
    <3>3. Settled(dirs, files, entity_id_map)'
      BY <1>y, <2>1, <2>2 DEF Untouched
    <3>4. /\ aDirs' = aDirs /\ aMap' = aMap
          /\ aFiles' = Atomic!WriteFile(aFiles, e, n, Absent)
      BY <1>n, <1>v, <2>1, <2>2, <3>2, SameOperators DEF Untouched
    <3>5. op = "delete" => Atomic!Delete(e, n)
      BY <1>v, <2>2, <2>4, <3>2, <3>4, SameOperators DEF Atomic!Delete
    <3>6. op = "detour" => Atomic!DetourDelete(e, n)
      BY <1>v, <2>2, <3>2, <3>4, SameOperators DEF Atomic!DetourDelete
    <3>7. AtomicMove
      BY <2>1, <3>5, <3>6, DetourIsMove, ServeIsMove DEF Atomic!Serve
    <3> QED
      BY <3>2, <3>3, <3>7 DEF Answers
  <2> QED
    BY <2>3, <2>4
<1>13. CASE CopyIds(r)
  <2>1. /\ UNCHANGED <<dirs, files, entity_id_map, req, resp, saved>>
        /\ pc[r] = "insert" => pc'[r] \in {"insertnew", "insertback"}
        /\ pc[r] = "erase" => pc'[r] = "eraseback"
        /\ pc[r] \in {"insert", "erase"}
        /\ CopyFits(r)'
    BY <1>13, CopyIdsFits DEF AtomicInv
  <2>2. Looked(r, e, n)' /\ Prepared(r, e, n)'
    BY <2>1 DEF Looked, Prepared
  <2>3. Stored(e, n, b) => Stored(e, n, b)'
    BY <2>1 DEF Stored
  <2>4. Indexing(r, e, n)'
    BY <1>e, <1>p, <2>1, <2>3 DEF Indexing, Inserting, Erasing
  <2> QED
    BY <1>e, <1>g, <1>p, <2>1, <2>2, <2>4
<1>i. ASSUME pc[r] \in Inserting \cup Erasing
      PROVE  Numeric(n) /\ Stoi[n] \in FileId /\ entity_id_map = saved.map
  BY <1>e, <1>i, <1>p, <1>t, StoiIsFileId DEF RequestShape, Inserting, Erasing, Indexing
<1>14. CASE InsertBack(r)
  <2>1. /\ UNCHANGED <<dirs, files>>
        /\ pc[r] \in {"insertback", "insertnew"}
        /\ WriteBack(r)
        /\ op \in {"update", "retrieve"}
    BY <1>14, <1>e, <1>t DEF InsertBack, disk, At, RequestShape
  <2>2. Finish(r, 200, {}, IF op = "retrieve" THEN b ELSE Absent)
    BY <1>14, <1>e DEF InsertBack
  <2>3. entity_id_map' = InsertIfNotExist(saved.map, e, Stoi[n])
    BY <1>e, <1>i, <1>p, <2>1 DEF WriteBack, CopyFits, Back, WithCopy, Inserting
  <2>4. /\ entity_id_map'[e] # NoEntry
        /\ \A f \in EntityName : f # e => entity_id_map'[f] = saved.map[f]
    BY <1>i, <1>s, <2>1, <2>3, InsertType DEF Inserting
  <2>5. Numeric(n) /\ ReplyId(req[r]) = Stoi[n] /\ IdOf(n) # 0
    BY <1>e, <1>i, <1>p, <2>1 DEF ReplyId, Inserting, Parsed
  <2>6. CASE op = "update"
    <3>1. Finish(r, 200, {}, Absent)
      BY <2>2, <2>6
    <3>2. pc'[r] = "idle" /\ resp' = Atomic!Plain("update", e, Stoi[n], 200)
      BY <1>e, <2>5, <2>6, <3>1, FinishAnswer, PlainIsReply DEF AtomicInv
    <3>3. dirs = saved.dirs \cup {e} /\ Stored(e, n, b)
      BY <1>e, <1>p, <2>1, <2>6 DEF Indexing, Inserting
    <3>4. PICK c \in Content :
            /\ files = WriteFile(saved.files, e, n, c)
            /\ c = b \/ (DiskErrors /\ c \in {saved.files[e][n], Truncated})
      BY <3>3 DEF Stored
    <3>5. Settled(dirs, files, entity_id_map)'
      BY <1>x, <2>1, <2>4, <3>3, <3>4
    <3>6. CASE c = b
      <4>1. /\ aDirs' = aDirs \cup {e}
            /\ aFiles' = Atomic!WriteFile(aFiles, e, n, b)
            /\ aMap' = Atomic!InsertIfNotExist(aMap, e, Stoi[n])
        BY <1>n, <1>v, <2>1, <2>3, <3>2, <3>3, <3>4, <3>6, SameOperators
      <4>2. Atomic!Put(e, n, b)
        BY <2>5, <3>2, <4>1, SameOperators DEF Atomic!Put
      <4>3. b \in Body
        BY <1>e, <1>t, <2>6 DEF RequestShape
      <4>4. Atomic!Serve(e, Body)
        BY <4>2, <4>3 DEF Atomic!Serve
      <4> QED
        BY <3>2, <3>5, <4>4, ServeIsMove DEF Answers
    <3>7. CASE DiskErrors /\ c \in {saved.files[e][n], Truncated}
      <4>1. Spoilt(e, n)
        BY <1>n, <1>v, <2>1, <2>3, <3>2, <3>3, <3>4, <3>7 DEF Spoilt
      <4> QED
        BY <3>2, <3>5, <3>7, <4>1 DEF Answers, AtomicMove
    <3> QED
      BY <3>4, <3>6, <3>7
  <2>7. CASE op = "retrieve"
    <3>1. Finish(r, 200, {}, b)
      BY <2>2, <2>7
    <3>2. pc'[r] = "idle" /\ resp' = Atomic!Reply("retrieve", e, Stoi[n], 200, {}, b)
      BY <1>e, <2>5, <2>7, <3>1, FinishAnswer DEF AtomicInv
    <3>3. dirs = saved.dirs /\ files = saved.files /\ b = saved.files[e][n] /\ b # Absent
      BY <1>e, <1>p, <2>1, <2>7 DEF Indexing, Inserting
    <3>4. Settled(dirs, files, entity_id_map)'
      <4>1. saved.map[e] # NoEntry
        BY <1>s, <3>3
      <4> QED
        BY <1>y, <2>1, <2>4, <3>3, <4>1
    <3>5. /\ aDirs' = aDirs /\ aFiles' = aFiles /\ aFiles[e][n] = b
          /\ aMap' = Atomic!InsertIfNotExist(aMap, e, Stoi[n])
      BY <1>n, <1>v, <2>1, <2>3, <3>2, <3>3, SameOperators
    <3>6. Atomic!Retrieve(e, n)
      BY <2>5, <3>2, <3>3, <3>5, SameOperators DEF Atomic!Retrieve
    <3> QED
      BY <3>2, <3>4, <3>6, ServeIsMove DEF Atomic!Serve, Answers
  <2> QED
    BY <2>1, <2>6, <2>7
<1>15. CASE EraseBack(r)
  <2>1. /\ UNCHANGED <<dirs, files>>
        /\ pc[r] = "eraseback"
        /\ WriteBack(r)
        /\ op \in {"delete", "retrieve"} \/ (op = "list" /\ IdOf(e) # 0)
    BY <1>15, <1>e, <1>t DEF EraseBack, disk, At, RequestShape, NumericGet
  <2>k. PICK k : ItemId(req[r]) = k
    OBVIOUS
  <2>2. entity_id_map' = EraseIfExist(saved.map, e, k)
    BY <1>e, <1>i, <1>p, <2>1, <2>k DEF WriteBack, CopyFits, Back, WithCopy, Erasing
  <2>3. \A f \in EntityName : entity_id_map'[f] = NoEntry <=> saved.map[f] = NoEntry
    BY <1>s, <2>2, EraseType
  <2>4. /\ Numeric(n)
        /\ op # "list" => k = Stoi[n] /\ ReplyId(req[r]) = Stoi[n]
        /\ op = "list" => k = Stoi[e] /\ ReplyId(req[r]) = 0
    BY <1>e, <1>i, <2>1, <2>k DEF ItemId, ReplyId, Erasing
  <2>5. /\ dirs = saved.dirs
        /\ op = "delete" => /\ saved.files[e][n] # Absent
                            /\ files = WriteFile(saved.files, e, n, Absent)
        /\ op # "delete" => files = saved.files
        /\ op = "retrieve" => saved.files[e][n] = Absent
    BY <1>e, <1>p, <2>1 DEF Indexing, Erasing
  <2>6. Settled(dirs, files, entity_id_map)'
    BY <1>y, <2>1, <2>3, <2>5
  <2>7. PICK code : /\ code = IF op = "delete" THEN 200 ELSE 404
                    /\ Finish(r, code, {}, Absent)
    BY <1>15, <1>e DEF EraseBack
  <2>8. pc'[r] = "idle" /\ resp' = Atomic!Plain(op, e, ReplyId(req[r]), code)
    BY <1>e, <2>1, <2>4, <2>7, FinishAnswer, PlainIsReply DEF AtomicInv
  <2>9. /\ aDirs' = aDirs /\ aFiles' = files
        /\ aMap' = Atomic!EraseIfExist(aMap, e, k)
    BY <1>n, <1>v, <2>1, <2>2, <2>5, <2>8, SameOperators
  <2>10. CASE op = "delete"
    <3>1. Atomic!Delete(e, n)
      BY <1>v, <2>4, <2>5, <2>7, <2>8, <2>9, <2>10, SameOperators DEF Atomic!Delete
    <3> QED
      BY <2>6, <2>8, <3>1, ServeIsMove DEF Atomic!Serve, Answers
  <2>11. CASE op = "retrieve"
    <3>1. IdOf(n) # 0
      BY <1>e, <1>p, <2>11 DEF Parsed
    <3>2. Atomic!Retrieve(e, n)
      BY <1>v, <2>4, <2>5, <2>7, <2>8, <2>9, <2>11, <3>1, SameOperators DEF Atomic!Retrieve
    <3> QED
      BY <2>6, <2>8, <3>2, ServeIsMove DEF Atomic!Serve, Answers
  <2>12. CASE op = "list"
    <3>1. Atomic!GetNumericEntity(e)
      BY <1>v, <2>1, <2>4, <2>5, <2>7, <2>8, <2>9, <2>12, SameOperators
         DEF Atomic!GetNumericEntity
    <3> QED
      BY <2>6, <2>8, <3>1, ServeIsMove DEF Atomic!Serve, Answers
  <2> QED
    BY <2>1, <2>10, <2>11, <2>12
<1> QED
  BY <1>1, <1>2, <1>3, <1>4, <1>5, <1>6, <1>7, <1>8, <1>9, <1>10, <1>11, <1>12, <1>13,
     <1>14, <1>15 DEF Step

\* What is on the disk when the process ends in the middle of a request.
LEMMA CutOffFits ==
    ASSUME AtomicInv, NEW r \in Runner, pc[r] # "idle"
    PROVE  /\ FilesInDirs
           /\ \E e \in EntityName, n \in FileName :
                  /\ dirs \in {saved.dirs, saved.dirs \cup {e}}
                  /\ \E c \in {saved.files[e][n], Absent, Truncated} \cup Body :
                         files = WriteFile(saved.files, e, n, c)
<1>1. /\ pc \in [Runner -> Label]
      /\ req \in [Runner -> StoredRequest]
      /\ RequestShape(r)
      /\ Progress(r)
  BY TypeParts DEF AtomicInv, ShapeInv
<1>2. PICK e \in EntityName, n \in FileName, b \in {Truncated} \cup Body :
        req[r].e = e /\ req[r].n = n /\ req[r].b = b
  BY <1>1 DEF StoredRequest
<1>3. SavedFits /\ Looked(r, e, n) /\ Prepared(r, e, n) /\ Indexing(r, e, n)
  BY <1>1, <1>2 DEF Progress
<1>4. /\ saved.files \in [EntityName -> [FileName -> Content]]
      /\ \A f \in EntityName, m \in FileName : saved.files[f][m] # Absent => f \in saved.dirs
  BY <1>3 DEF SavedFits, Settled
<1>5. Absent \in Content /\ Truncated \in Content /\ saved.files[e][n] \in Content
  BY <1>4 DEF Content
<1>6. pc[r] \in {"check", "mkdir", "insertkey", "nextid", "nextidback", "open", "write", "list",
                 "read", "remove"} \cup Inserting \cup Erasing
  BY <1>1 DEF Label, Inserting, Erasing
<1>s. WriteFile(saved.files, e, n, saved.files[e][n]) = saved.files
  BY <1>4, <1>5, WriteTwice
<1>7. PICK c \in {saved.files[e][n], Absent, Truncated} \cup Body :
        /\ files = WriteFile(saved.files, e, n, c)
        /\ \/ dirs = saved.dirs /\ c \in {saved.files[e][n], Absent}
           \/ dirs = saved.dirs \cup {e}
  <2>1. CASE pc[r] \in {"check", "mkdir", "list", "read", "remove"}
    <3>1. dirs = saved.dirs /\ files = saved.files
      BY <1>3, <2>1 DEF Looked, Untouched
    <3> QED
      BY <1>s, <3>1
  <2>2. CASE pc[r] \in {"insertkey", "nextid", "nextidback", "open", "write"}
    <3>1. /\ dirs = saved.dirs \cup {e}
          /\ files = saved.files \/ files = WriteFile(saved.files, e, n, Truncated)
      BY <1>3, <2>2 DEF Prepared
    <3> QED
      BY <1>s, <3>1
  <2>3. CASE pc[r] \in Inserting /\ req[r].op = "update"
    <3>1. dirs = saved.dirs \cup {e} /\ Stored(e, n, b)
      BY <1>2, <1>3, <2>3 DEF Indexing
    <3>2. b \in Body
      BY <1>1, <1>2, <2>3 DEF RequestShape
    <3> QED
      BY <3>1, <3>2 DEF Stored
  <2>4. CASE pc[r] \in Inserting /\ req[r].op # "update"
    <3>1. dirs = saved.dirs /\ files = saved.files
      BY <1>3, <2>4 DEF Indexing
    <3> QED
      BY <1>s, <3>1
  <2>5. CASE pc[r] \in Erasing
    <3>1. /\ dirs = saved.dirs
          /\ files = saved.files \/ files = WriteFile(saved.files, e, n, Absent)
      BY <1>3, <2>5 DEF Indexing
    <3> QED
      BY <1>s, <3>1
  <2> QED
    BY <1>6, <2>1, <2>2, <2>3, <2>4, <2>5
<1>8. c \in Content
  BY <1>5, <1>7 DEF Content
<1>9. /\ files[e][n] = c
      /\ \A f \in EntityName, m \in FileName : f # e \/ m # n => files[f][m] = saved.files[f][m]
  BY <1>4, <1>7, <1>8, ContentWritten
<1>10. FilesInDirs
  BY <1>4, <1>7, <1>9 DEF FilesInDirs
<1> QED
  BY <1>7, <1>10

LEMMA InitAtomic == Init => AtomicInv /\ Atomic!Init
<1> SUFFICES ASSUME Init PROVE AtomicInv /\ Atomic!Init
  OBVIOUS
<1>1. \A r \in Runner : pc[r] = "idle"
  BY DEF Init
<1>2. Settled(dirs, files, entity_id_map)
  <2>1. \A e \in EntityName : entity_id_map[e] # NoEntry <=> e \in dirs
    <3>1. entity_id_map = ScanFS(dirs, files)
      BY DEF Init
    <3>2. \A e \in EntityName : ScanFS(dirs, files)[e] # NoEntry <=> e \in dirs
      BY ScanFSType
    <3> QED
      BY <3>1, <3>2
  <2>2. \A e \in EntityName, n \in FileName : files[e][n] # Absent => e \in dirs
    BY DEF Init
  <2> QED
    BY <2>1, <2>2 DEF Settled
<1>3. AtomicInv
  BY <1>1, <1>2, InitShape DEF AtomicInv, Progress
<1>4. aDirs = dirs /\ aFiles = files /\ aMap = entity_id_map
  BY <1>1, IdleViews
<1>5. resp = Atomic!Plain("none", Absent, 0, 0)
  BY DEF Init, Reply, Atomic!Plain, Atomic!Reply
<1>6. Atomic!Init
  BY <1>4, <1>5, SameOperators DEF Init, Atomic!Init, DiskType, Atomic!DiskType
<1> QED
  BY <1>3, <1>6

\* Dispatching a request changes nothing a client sees.
LEMMA BeginAtomic ==
    ASSUME OneRunner, AtomicInv, NEW r \in Runner, NEW q \in RequestType, Begin(r, q)
    PROVE  Progress(r)' /\ pc'[r] # "idle" /\ UNCHANGED <<aDirs, aFiles, aMap, resp>>
<1>1. /\ dirs \subseteq EntityName
      /\ files \in [EntityName -> [FileName -> Content]]
      /\ entity_id_map \in MapType
      /\ pc \in [Runner -> Label]
      /\ req \in [Runner -> StoredRequest]
  BY TypeParts DEF AtomicInv, ShapeInv
<1>2. /\ pc[r] = "idle" /\ pc'[r] = "check" /\ req'[r] = q
      /\ saved' = [dirs |-> dirs, files |-> files, map |-> entity_id_map]
      /\ UNCHANGED <<dirs, files, entity_id_map, resp>>
      /\ Accepted(q)
  BY <1>1 DEF Begin, At, Goto, disk
<1>3. \A s \in Runner : pc[s] = "idle"
  BY <1>2 DEF OneRunner
<1>4. Settled(dirs, files, entity_id_map)
  BY <1>3 DEF AtomicInv, Busy
<1>5. SavedFits'
  BY <1>1, <1>2, <1>4 DEF SavedFits, Settled
<1>6. Parsed(q)
  <2>1. q.op \in Method
    BY DEF RequestType
  <2>2. 1 \in 1..MaxId
    BY MaxIdAssumption
  <2>3. Numeric(ToString[1])
    BY <2>2, NewIdIsFileId
  <2>4. CASE q.op = "list"
    BY <1>2, <2>3, <2>4 DEF Accepted, Parsed
  <2>5. CASE q.op \in {"retrieve", "update"}
    BY <1>2, <2>5 DEF Accepted, Parsed
  <2> QED
    BY <2>4, <2>5 DEF Parsed
<1>7. /\ Looked(r, req[r].e, req[r].n)' /\ Prepared(r, req[r].e, req[r].n)'
      /\ Indexing(r, req[r].e, req[r].n)' /\ CopyFits(r)'
  BY <1>2 DEF Looked, Prepared, Indexing, CopyFits, Untouched, Inserting, Erasing
<1>8. Progress(r)'
  BY <1>2, <1>5, <1>6, <1>7 DEF Progress
<1>9. UNCHANGED <<aDirs, aFiles, aMap>>
  <2>1. aDirs = dirs /\ aFiles = files /\ aMap = entity_id_map
    BY <1>3, IdleViews
  <2>2. aDirs' = saved'.dirs /\ aFiles' = saved'.files /\ aMap' = saved'.map
    BY <1>2, BusyViewsNext
  <2> QED
    BY <1>2, <2>1, <2>2
<1> QED
  BY <1>2, <1>8, <1>9

\* The start of a new process: a restart of ApiHandler, or what it finds of a
\* request cut off.
LEMMA RestartAtomic ==
    ASSUME AtomicInv, Restart
    PROVE  Settled(dirs, files, entity_id_map)' /\ AtomicMove
<1>1. /\ UNCHANGED <<dirs, files, resp>> /\ ~up
      /\ entity_id_map' = ScanFS(dirs, files)
      /\ \A r \in Runner : pc'[r] = "idle"
  BY DEF Restart, disk
<1>2. aDirs' = dirs /\ aFiles' = files /\ aMap' = ScanFS(dirs, files)
  BY <1>1, IdleViewsNext
<1>3. FilesInDirs => Settled(dirs, files, entity_id_map)'
  BY <1>1, ScanFSType DEF FilesInDirs, Settled
<1>4. CASE Busy
  <2>1. PICK r \in Runner : pc[r] # "idle"
    BY <1>4 DEF Busy
  <2>2. FilesInDirs
    BY <2>1, CutOffFits
  <2>3. PICK e \in EntityName, n \in FileName :
          /\ dirs \in {saved.dirs, saved.dirs \cup {e}}
          /\ \E c \in {saved.files[e][n], Absent, Truncated} \cup Body :
                 files = WriteFile(saved.files, e, n, c)
    BY <2>1, CutOffFits
  <2>4. aDirs = saved.dirs /\ aFiles = saved.files
    BY <2>1, BusyViews
  <2>5. CutOff(e, n)
    BY <1>1, <1>2, <2>3, <2>4 DEF CutOff
  <2> QED
    BY <1>3, <2>2, <2>5 DEF AtomicMove
<1>5. CASE ~Busy
  <2>1. \A r \in Runner : pc[r] = "idle"
    BY <1>5 DEF Busy
  <2>2. aDirs = dirs /\ aFiles = files /\ FilesInDirs
    BY <1>5, <2>1, IdleViews DEF AtomicInv, Settled, FilesInDirs
  <2>3. Atomic!Restart
    BY <1>1, <1>2, <2>2, SameOperators DEF Atomic!Restart
  <2> QED
    BY <1>3, <2>2, <2>3 DEF AtomicMove, Atomic!Next
<1> QED
  BY <1>4, <1>5

LEMMA NextAtomic ==
    ASSUME OneRunner, AtomicInv, [Next]_vars
    PROVE  AtomicInv' /\ (AtomicMove \/ UNCHANGED <<aDirs, aFiles, aMap, resp>>)
<1>1. ShapeInv'
  BY NextShape DEF AtomicInv
<1>2. ASSUME NEW r \in Runner, pc'[r] # "idle", Progress(r)' PROVE AtomicInv'
  <2>1. \A s \in Runner : Progress(s)'
    BY <1>2 DEF OneRunner
  <2>2. Busy'
    BY <1>2 DEF Busy
  <2> QED
    BY <1>1, <2>1, <2>2 DEF AtomicInv
<1>3. ASSUME \A r \in Runner : pc'[r] = "idle", Settled(dirs, files, entity_id_map)'
      PROVE  AtomicInv'
  <2>1. \A r \in Runner : Progress(r)'
    BY <1>3 DEF Progress
  <2> QED
    BY <1>1, <1>3, <2>1 DEF AtomicInv
<1>4. ASSUME NEW r \in Runner, NEW q \in RequestType, Begin(r, q)
      PROVE  AtomicInv' /\ UNCHANGED <<aDirs, aFiles, aMap, resp>>
  BY <1>2, <1>4, BeginAtomic
<1>5. ASSUME NEW r \in Runner, Step(r)
      PROVE  AtomicInv' /\ (AtomicMove \/ UNCHANGED <<aDirs, aFiles, aMap, resp>>)
  <2>1. CASE Answers(r)
    <3>1. AtomicInv'
      BY <1>3, <2>1 DEF Answers, OneRunner
    <3> QED
      BY <2>1, <3>1 DEF Answers
  <2>2. CASE Goes(r)
    <3>1. AtomicInv'
      BY <1>2, <2>2 DEF Goes
    <3>2. pc[r] # "idle"
      BY <1>5 DEF Step, At, CheckFound, CheckMissing, Mkdir, InsertKeyStep, NextId, NextIdBack,
                  Open, Write, WriteFails, ListStep, Read, Remove, CopyIds, InsertBack, EraseBack
    <3>3. aDirs = saved.dirs /\ aFiles = saved.files /\ aMap = saved.map
      BY <3>2, BusyViews
    <3>4. aDirs' = saved'.dirs /\ aFiles' = saved'.files /\ aMap' = saved'.map
      BY <2>2, BusyViewsNext DEF Goes
    <3> QED
      BY <2>2, <3>1, <3>3, <3>4 DEF Goes
  <2> QED
    BY <1>5, <2>1, <2>2, StepProgress
<1>6. CASE Crash \/ UNCHANGED vars
  <2>1. UNCHANGED <<dirs, files, entity_id_map, pc, req, ids, resp, saved>>
    BY <1>6 DEF Crash, vars, disk, aux
  <2>2. UNCHANGED <<aDirs, aFiles, aMap, resp>>
    BY <2>1 DEF aDirs, aFiles, aMap, Busy
  <2>3. Busy' <=> Busy
    BY <2>1 DEF Busy
  <2>4. ~Busy => Settled(dirs, files, entity_id_map)'
    BY <2>1 DEF AtomicInv, Settled
  <2>5. ASSUME NEW r \in Runner PROVE Progress(r)'
    <3>1. Progress(r)
      BY DEF AtomicInv
    <3> QED
      BY <2>1, <3>1 DEF Progress, SavedFits, Settled, Looked, Prepared, Indexing, CopyFits, Back,
                        Untouched, Allotted, Stored, KeyMap
  <2> QED
    BY <1>1, <2>2, <2>3, <2>4, <2>5 DEF AtomicInv
<1>7. CASE Restart
  <2>1. \A r \in Runner : pc'[r] = "idle"
    BY <1>7 DEF Restart
  <2> QED
    BY <1>3, <1>7, <2>1, RestartAtomic
<1> QED
  BY <1>4, <1>5, <1>6, <1>7 DEF Next

LEMMA AtomicInvHolds == ASSUME OneRunner PROVE Spec => []AtomicInv
<1>1. Init => AtomicInv
  BY InitAtomic
<1>2. AtomicInv /\ [Next]_vars => AtomicInv'
  BY NextAtomic
<1> QED
  BY <1>1, <1>2, PTL DEF Spec

\* With one thread in the handlers get_response, taken apart at every call on
\* the file system and the index, answers and leaves disk and index as the
\* atomic handler of ApiHandler does, whatever the names are; a process that
\* ended in the middle leaves at most the directory and one file of the request
\* it was at, and a write the disk refused spoils that one file.
THEOREM OneRunnerIsAtomic == ASSUME OneRunner PROVE Spec => ImplementsAtomic
<1>1. Init => Atomic!Init
  BY InitAtomic
<1>2. AtomicInv /\ [Next]_vars =>
          [\/ Atomic!Next
           \/ \E e \in EntityName, n \in FileName :
                  CutOff(e, n) \/ (DiskErrors /\ Spoilt(e, n))]_<<aDirs, aFiles, aMap, resp>>
  BY NextAtomic DEF AtomicMove
<1> QED
  BY <1>1, <1>2, AtomicInvHolds, PTL DEF Spec, ImplementsAtomic

\* "When call this function, the map must have key of entity, no need to
\* check": with one thread in the handlers get_next_id finds the key, whatever
\* the names are, also after a crash between any two steps and with a disk that
\* refuses writes.
THEOREM OneRunnerFindsKey == ASSUME OneRunner PROVE Spec => []NextIdHasKey
<1>1. ASSUME AtomicInv, NEW r \in Runner, At(r, "nextid")
      PROVE  entity_id_map[req[r].e] # NoEntry
  <2>1. req[r].e \in EntityName
    BY <1>1, TypeParts DEF AtomicInv, ShapeInv, StoredRequest
  <2>2. /\ entity_id_map = KeyMap(req[r].e)
        /\ saved.map \in MapType
        /\ \A e \in EntityName : e \in saved.dirs => saved.map[e] # NoEntry
    BY <1>1 DEF AtomicInv, Progress, Prepared, SavedFits, Settled, At
  <2> QED
    BY <2>1, <2>2, InsertKeyType DEF KeyMap
<1>2. AtomicInv => NextIdHasKey
  BY <1>1 DEF NextIdHasKey
<1> QED
  BY <1>2, AtomicInvHolds, PTL
=============================================================================
