------------------------------ MODULE ApiSteps ------------------------------
(***************************************************************************)
(* RequestHandlerAPI::get_response taken apart at every call it makes on   *)
(* the FileSystem and at every read and write-back of the shared           *)
(* entity_id_map, which no lock protects.  A Runner is a thread inside     *)
(* io_service::run; several runners may be in the handler at once, and the *)
(* process may end between any two steps (signal_handler calls exit) and   *)
(* be started again.                                                       *)
(*                                                                         *)
(* The requests are POST /e, GET /e, GET /e/n, PUT /e/n, DELETE /e/n and   *)
(* "detour", a DELETE whose target has more segments and resolves to file  *)
(* n of e.  What is left out changes neither the disk nor the ids of an    *)
(* entity: requests refused, GET /e/n with id 0, GET by longer targets.    *)
(* The helpers of the map copy an id set, change the copy and assign it    *)
(* back: two steps.  RealFileSsystem::write_file opens, which truncates,   *)
(* and then writes: two steps, either of which the disk may refuse; the    *)
(* function returns true all the same.                                     *)
(***************************************************************************)
EXTENDS ApiData

CONSTANTS
    Runner,     \* threads that execute handlers
    MayCrash,   \* BOOLEAN: may the process end in the middle of requests
    DiskErrors, \* BOOLEAN: may the disk refuse to open or to write a file
    Truncated   \* content of a file opened and not (wholly) written

ASSUME FaultAssumption == MayCrash \in BOOLEAN /\ DiskErrors \in BOOLEAN
ASSUME RequestAssumption == EntityName # {} /\ Body # {}
ASSUME TruncatedAssumption == Truncated \notin Body \cup {Absent}

VARIABLES
    dirs, files,    \* the disk
    entity_id_map,  \* the shared index
    up,             \* the process runs
    pc, req,        \* per runner: the next step, and the request it serves
    ids,            \* per runner: its copy of an id set
    resp,           \* the last response and the request it answers
    saved,          \* auxiliary: disk and index when the last request began
    acked,          \* auxiliary: the body last acknowledged for each file
    faults          \* auxiliary: the files whose last write the disk refused and
                    \* the ones removed by a longer target

vars == <<dirs, files, entity_id_map, up, pc, req, ids, resp, saved, acked, faults>>

disk == <<dirs, files, faults>>
aux == <<saved, acked>>

Label == {"idle", "check", "mkdir", "insertkey", "nextid", "nextidback", "open", "write",
          "list", "read", "remove", "insert", "insertback", "insertnew", "erase", "eraseback"}

Method == {"create", "list", "retrieve", "update", "delete", "detour"}

RequestType == [op : Method, e : EntityName, n : FileName, b : Body]

\* What parse_url_target and the method let through to the disk.  POST takes
\* its file name from get_next_id; the bound MaxId keeps an id free for it.
Accepted(q) ==
    CASE q.op = "create" -> /\ q.n = ToString[1]
                            /\ \E i \in 1..MaxId :
                                   entity_id_map[q.e] # NoEntry => i \notin entity_id_map[q.e]
      [] q.op = "list" -> q.n = ToString[1]
      [] q.op \in {"delete", "detour"} -> TRUE
      [] OTHER -> IdOf(q.n) # 0

IdleRequest == CHOOSE q \in RequestType : TRUE

IdleState == [dirs |-> {}, files |-> EmptyDisk, map |-> ScanFS({}, EmptyDisk)]

Goto(r, label) == pc' = [pc EXCEPT ![r] = label]

At(r, label) == up /\ pc[r] = label

Reply(op, e, i, code, listed, body) ==
    [op |-> op, entity |-> e, id |-> i, code |-> code, ids |-> listed, body |-> body]

\* GET of an entity called by a number: the number is taken for an id.
NumericGet(q) == q.op = "list" /\ IdOf(q.e) # 0

\* The id parse_url_target finds in the target of q, and the one its response names.
ItemId(q) == IF q.op = "list" THEN Stoi[q.e] ELSE Stoi[q.n]
ReplyId(q) == IF q.op = "list" THEN 0 ELSE Stoi[q.n]

\* get_response returns: the response goes out and the runner is free.
Finish(r, code, listed, body) ==
    LET q == req[r]
    IN  /\ Goto(r, "idle")
        /\ resp' = IF q.op = "detour" THEN Reply("detour", Absent, 0, code, listed, body)
                   ELSE IF Numeric(q.n)
                        THEN Reply(q.op, q.e, ReplyId(q), code, listed, body)
                   ELSE Reply("other", Absent, 0, code, listed, body)
        /\ req' = [req EXCEPT ![r] = IdleRequest]
        /\ saved' = IdleState
        /\ acked' = IF code \in {200, 201} /\ q.op \in {"create", "update"}
                    THEN WriteFile(acked, q.e, q.n, q.b) ELSE acked

-----------------------------------------------------------------------------

Init ==
    /\ dirs \in SUBSET EntityName
    /\ files \in DiskType
    /\ \A e \in EntityName \ dirs, n \in FileName : files[e][n] = Absent
    /\ entity_id_map = ScanFS(dirs, files)
    /\ up = TRUE
    /\ pc = [r \in Runner |-> "idle"]
    /\ req = [r \in Runner |-> IdleRequest]
    /\ ids = [r \in Runner |-> {}]
    /\ resp = Reply("none", Absent, 0, 0, {}, Absent)
    /\ saved = IdleState
    /\ acked = EmptyDisk
    /\ faults = {}

\* A request is dispatched to a runner.  PUT and DELETE end the promise about
\* the body acknowledged before; POST names no file and ends none.
Begin(r, q) ==
    /\ At(r, "idle")
    /\ Accepted(q)
    /\ Goto(r, "check")
    /\ req' = [req EXCEPT ![r] = q]
    /\ saved' = [dirs |-> dirs, files |-> files, map |-> entity_id_map]
    /\ acked' = IF q.op \in {"update", "delete", "detour"} THEN WriteFile(acked, q.e, q.n, Absent)
                ELSE acked
    /\ UNCHANGED <<disk, entity_id_map, up, ids, resp>>

\* Mutant: the directory is checked where the file should be.
FoundDirectory(r) == req[r].e \in dirs

\* exists and is_regular_file, and the branch taken on them.  A number for an
\* entity would have to be a file of the root.
FoundAt(r) ==
    IF req[r].op \in {"create", "update", "list"}
    THEN ~NumericGet(req[r]) /\ req[r].e \in dirs
    ELSE files[req[r].e][req[r].n] # Absent

CheckFound(r) ==
    /\ At(r, "check")
    /\ FoundAt(r)
    /\ Goto(r, CASE req[r].op = "create" -> "nextid"
                 [] req[r].op = "update" -> "open"
                 [] req[r].op = "list" -> "list"
                 [] req[r].op = "retrieve" -> "read"
                 [] req[r].op \in {"delete", "detour"} -> "remove")
    /\ UNCHANGED <<disk, entity_id_map, up, req, ids, resp, aux>>

CheckMissing(r) ==
    /\ At(r, "check")
    /\ ~FoundAt(r)
    /\ CASE req[r].op \in {"create", "update"} -> Goto(r, "mkdir") /\ UNCHANGED <<req, resp, aux>>
         [] req[r].op = "retrieve" \/ NumericGet(req[r]) ->
                Goto(r, "erase") /\ UNCHANGED <<req, resp, aux>>
         [] OTHER -> Finish(r, 404, {}, Absent)
    /\ UNCHANGED <<disk, entity_id_map, up, ids>>

Mkdir(r) ==
    /\ At(r, "mkdir")
    /\ dirs' = dirs \cup {req[r].e}
    /\ Goto(r, IF req[r].op = "create" THEN "insertkey" ELSE "open")
    /\ UNCHANGED <<files, faults, entity_id_map, up, req, ids, resp, aux>>

InsertKeyStep(r) ==
    /\ At(r, "insertkey")
    /\ entity_id_map' = InsertKey(entity_id_map, req[r].e)
    /\ Goto(r, "nextid")
    /\ UNCHANGED <<disk, up, req, ids, resp, aux>>

\* The helpers of the map keep the ids they copy in a local, existingIDs.
ExistingIDs(r, copy) == ids' = [ids EXCEPT ![r] = copy]

\* get_next_id: find the key, copy its ids.  Without the key it reads
\* map::end(), and the process is taken to die there.
NextId(r) ==
    /\ At(r, "nextid")
    /\ IF entity_id_map[req[r].e] = NoEntry
       THEN /\ up' = FALSE
            /\ UNCHANGED <<pc, ids>>
       ELSE /\ ExistingIDs(r, entity_id_map[req[r].e])
            /\ Goto(r, "nextidback")
            /\ UNCHANGED up
    /\ UNCHANGED <<disk, entity_id_map, req, resp, aux>>

\* get_next_id: the loop over the copy, and the copy assigned back.
NextIdBack(r) ==
    /\ At(r, "nextidback")
    /\ \E id \in 1..MaxId :
           /\ IsNextId(id, ids[r])
           /\ entity_id_map' = [entity_id_map EXCEPT ![req[r].e] = ids[r] \cup {id}]
           /\ req' = [req EXCEPT ![r].n = ToString[id]]
    /\ ids' = [ids EXCEPT ![r] = {}]
    /\ Goto(r, "open")
    /\ UNCHANGED <<disk, up, resp, aux>>

\* The file write_file is about.
Target(r) == <<req[r].e, req[r].n>>

Open(r) ==
    /\ At(r, "open")
    /\ files' = WriteFile(files, req[r].e, req[r].n, Truncated)
    /\ Goto(r, "write")
    /\ UNCHANGED <<dirs, faults, entity_id_map, up, req, ids, resp, aux>>

\* write_file has returned true: POST answers, PUT goes on to the index.
Written(r) ==
    IF req[r].op = "create" THEN Finish(r, 201, {}, Absent)
    ELSE Goto(r, "insert") /\ UNCHANGED <<req, resp, aux>>

\* The body goes to the file opened; when someone removed it in between, to a
\* file that has no name any more.
Write(r) ==
    /\ At(r, "write")
    /\ files' = IF files[req[r].e][req[r].n] = Absent THEN files
                ELSE WriteFile(files, req[r].e, req[r].n, req[r].b)
    /\ faults' = faults \ {Target(r)}
    /\ Written(r)
    /\ UNCHANGED <<dirs, entity_id_map, up, ids>>

\* The disk refuses the open, and the file stays as it was, or the write, and
\* the file stays truncated.
WriteFails(r) ==
    /\ DiskErrors
    /\ At(r, "open") \/ At(r, "write")
    /\ faults' = faults \cup {Target(r)}
    /\ Written(r)
    /\ UNCHANGED <<dirs, files, entity_id_map, up, ids>>

ListStep(r) ==
    /\ At(r, "list")
    /\ LET listed == entity_id_map[req[r].e]
       IN  Finish(r, 200, IF listed = NoEntry THEN {} ELSE listed, Absent)
    /\ UNCHANGED <<disk, entity_id_map, up, ids>>

\* read_file of a file that is gone yields the empty body.
Read(r) ==
    /\ At(r, "read")
    /\ LET content == files[req[r].e][req[r].n]
       IN  req' = [req EXCEPT ![r].b = IF content = Absent THEN Truncated ELSE content]
    /\ Goto(r, "insert")
    /\ UNCHANGED <<disk, entity_id_map, up, ids, resp, aux>>

\* The key a longer target leaves for erase_if_exist is no entity's.
Remove(r) ==
    /\ At(r, "remove")
    /\ files' = WriteFile(files, req[r].e, req[r].n, Absent)
    /\ faults' = IF req[r].op = "detour" THEN faults \cup {Target(r)} ELSE faults \ {Target(r)}
    /\ IF req[r].op = "delete" /\ Numeric(req[r].n)
       THEN Goto(r, "erase") /\ UNCHANGED <<req, resp, aux>>
       ELSE Finish(r, 200, {}, Absent)
    /\ UNCHANGED <<dirs, entity_id_map, up, ids>>

\* insert_if_notexist and erase_if_exist: find the key, copy its ids and change
\* the copy, or NoEntry when there is nothing to write back.
Changed(map, e) == IF map = entity_id_map THEN NoEntry ELSE map[e]

CopyIds(r) ==
    LET e == req[r].e
        id == ItemId(req[r])
    IN  /\ \/ /\ At(r, "insert")
              /\ Goto(r, IF entity_id_map[e] = NoEntry THEN "insertnew" ELSE "insertback")
              /\ ExistingIDs(r, Changed(InsertIfNotExist(entity_id_map, e, id), e))
           \/ /\ At(r, "erase")
              /\ Goto(r, "eraseback")
              /\ ExistingIDs(r, Changed(EraseIfExist(entity_id_map, e, id), e))
        /\ UNCHANGED <<disk, entity_id_map, up, req, resp, aux>>

\* The write-back: an assignment through the iterator, or map::insert of a new
\* key, which has no effect when the key is there by now.
WriteBack(r) ==
    /\ entity_id_map' = IF \/ ids[r] = NoEntry
                           \/ pc[r] = "insertnew" /\ entity_id_map[req[r].e] # NoEntry
                        THEN entity_id_map
                        ELSE [entity_id_map EXCEPT ![req[r].e] = ids[r]]
    /\ ids' = [ids EXCEPT ![r] = {}]

InsertBack(r) ==
    /\ At(r, "insertback") \/ At(r, "insertnew")
    /\ WriteBack(r)
    /\ Finish(r, 200, {}, IF req[r].op = "retrieve" THEN req[r].b ELSE Absent)
    /\ UNCHANGED <<disk, up>>

EraseBack(r) ==
    /\ At(r, "eraseback")
    /\ WriteBack(r)
    /\ Finish(r, IF req[r].op = "delete" THEN 200 ELSE 404, {}, Absent)
    /\ UNCHANGED <<disk, up>>

Crash ==
    /\ MayCrash
    /\ up
    /\ up' = FALSE
    /\ UNCHANGED <<disk, entity_id_map, pc, req, ids, resp, aux>>

\* A new process: no request is in a handler, scanFS builds the index.
Restart ==
    /\ ~up
    /\ up' = TRUE
    /\ entity_id_map' = ScanFS(dirs, files)
    /\ pc' = [r \in Runner |-> "idle"]
    /\ req' = [r \in Runner |-> IdleRequest]
    /\ ids' = [r \in Runner |-> {}]
    /\ saved' = IdleState
    /\ UNCHANGED <<disk, resp, acked>>

Step(r) ==
    \/ CheckFound(r) \/ CheckMissing(r) \/ Mkdir(r) \/ InsertKeyStep(r)
    \/ NextId(r) \/ NextIdBack(r) \/ Open(r) \/ Write(r) \/ WriteFails(r)
    \/ ListStep(r) \/ Read(r) \/ Remove(r) \/ CopyIds(r) \/ InsertBack(r) \/ EraseBack(r)

Next ==
    \/ \E r \in Runner, q \in RequestType : Begin(r, q)
    \/ \E r \in Runner : Step(r)
    \/ Crash
    \/ Restart

Spec == Init /\ [][Next]_vars

\* Requests that overlap are about different entities, and each of these has
\* its key: no two threads are at one id set, and none changes the shape of
\* the std::map another one searches.
Apart ==
    \A r, s \in Runner :
        r # s /\ pc[r] # "idle" /\ pc[s] # "idle" =>
            req[r].e # req[s].e /\ entity_id_map[req[r].e] # NoEntry

\* Any number of threads, while the clients keep apart; nothing in the code
\* makes them.
ApartSpec == Init /\ [][Next /\ Apart']_vars

-----------------------------------------------------------------------------

TypeOK ==
    /\ dirs \subseteq EntityName
    /\ files \in [EntityName -> [FileName -> {Absent, Truncated} \cup Body]]
    /\ entity_id_map \in MapType
    /\ up \in BOOLEAN
    /\ pc \in [Runner -> Label]
    /\ req \in [Runner -> [op : Method, e : EntityName, n : FileName, b : {Truncated} \cup Body]]
    /\ ids \in [Runner -> {NoEntry} \cup SUBSET FileId]
    /\ acked \in DiskType
    /\ faults \subseteq EntityName \X FileName

\* No request is at entity e.
Quiescent(e) == up /\ \A r \in Runner : pc[r] = "idle" \/ req[r].e # e

\* "When call this function, the map must have key of entity, no need to
\* check" (get_next_id): a POST that found or made the directory finds the key.
NextIdHasKey ==
    \A r \in Runner : At(r, "nextid") => entity_id_map[req[r].e] # NoEntry

\* The ids of e whose file the disk refused to write or a longer target removed.
FaultIds(e) == {Stoi[n] : n \in {m \in FileName : Numeric(m) /\ <<e, m>> \in faults}}

\* Between the requests to an entity its ids in the index are what scanFS would
\* build from the disk, also after the process ended between any two steps of a
\* request; an item the disk refused to write or a longer target removed may be
\* in one and not in the other, and no other item.
QuiescentMapMatchesDisk ==
    \A e \in EntityName :
        Quiescent(e) =>
            /\ entity_id_map[e] # NoEntry <=> e \in dirs
            /\ e \in dirs =>
                   entity_id_map[e] \ FaultIds(e) = DiskIds(files, e) \ FaultIds(e)

\* A body acknowledged with 200 or 201 stays until a client updates or deletes
\* that item, by whatever target: no crash, no restart and no id handed out by
\* get_next_id loses it, nor does the disk refusing to write another item.
AckedSurvives ==
    \A e \in EntityName, n \in FileName :
        acked[e][n] # Absent => files[e][n] = acked[e][n] \/ <<e, n>> \in faults

-----------------------------------------------------------------------------
(* With one runner the steps of a request amount to its atomic action in     *)
(* ApiHandler, taken when the response goes out.                             *)

Busy == \E r \in Runner : pc[r] # "idle"

aDirs == IF Busy THEN saved.dirs ELSE dirs
aFiles == IF Busy THEN saved.files ELSE files
aMap == IF Busy THEN saved.map ELSE entity_id_map

Atomic == INSTANCE ApiHandler WITH
              OutsideEdits <- FALSE, Detours <- TRUE, up <- TRUE,
              dirs <- aDirs, files <- aFiles, entity_id_map <- aMap

\* What the start of a new process finds of a request cut off: at most its
\* directory made and its one file truncated, written or removed, no response,
\* and an index that says what the disk holds.
CutOff(e, n) ==
    /\ ~up
    /\ aDirs' \in {aDirs, aDirs \cup {e}}
    /\ \E c \in {aFiles[e][n], Absent, Truncated} \cup Body : aFiles' = WriteFile(aFiles, e, n, c)
    /\ aMap' = ScanFS(aDirs', aFiles')
    /\ resp' = resp

\* A POST or PUT whose write the disk refused: answered and entered in the
\* index like any other, its file as it was or truncated.
Spoilt(e, n) ==
    /\ aDirs' = aDirs \cup {e}
    /\ \E c \in {aFiles[e][n], Truncated} : aFiles' = WriteFile(aFiles, e, n, c)
    /\ aMap' = InsertIfNotExist(aMap, e, Stoi[n])
    /\ resp' \in {Atomic!Plain("create", e, Stoi[n], 201), Atomic!Plain("update", e, Stoi[n], 200)}

\* A request is atomic in spite of crashes and of a disk that refuses writes:
\* every response is that of the whole request on the disk and index the
\* request before it left, and the only other change is what a cut off request
\* can leave at the next start.
ImplementsAtomic ==
    /\ Atomic!Init
    /\ [][\/ Atomic!Next
          \/ \E e \in EntityName, n \in FileName :
                 CutOff(e, n) \/ (DiskErrors /\ Spoilt(e, n))]_<<aDirs, aFiles, aMap, resp>>
=============================================================================
