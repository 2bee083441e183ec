----------------------------- MODULE ApiHandler -----------------------------
(***************************************************************************)
(* RequestHandlerAPI::get_response over the disk and over the index that   *)
(* APIHandlerFactory keeps beside it.  One request is one action: this is  *)
(* the behaviour with a single thread in the handlers (ApiSteps takes the  *)
(* requests apart).  Actions are named for the branch of get_response they *)
(* model and take the two segments of the request's target.                *)
(***************************************************************************)
EXTENDS ApiData

CONSTANTS
    OutsideEdits,  \* BOOLEAN: may someone else change files of an entity
    Detours        \* BOOLEAN: do clients use targets of more than two segments

ASSUME SwitchAssumption == OutsideEdits \in BOOLEAN /\ Detours \in BOOLEAN

VARIABLES
    dirs,           \* the directories below the API root
    files,          \* the files in them
    entity_id_map,  \* APIHandlerFactory::entity_id_map
    up,             \* FALSE once an undefined read has ended the process
    resp            \* the last response and the request it answers

vars == <<dirs, files, entity_id_map, up, resp>>

Reply(op, e, i, code, ids, body) ==
    [op |-> op, entity |-> e, id |-> i, code |-> code, ids |-> ids, body |-> body]

Plain(op, e, i, code) == Reply(op, e, i, code, {}, Absent)

\* The ids are what the text of a listing carries; its brackets are left out.
ListReply(e, ids) == Reply("list", e, 0, 200, ids, Absent)

-----------------------------------------------------------------------------

Init ==
    /\ dirs \in SUBSET EntityName
    /\ files \in DiskType
    /\ \A e \in EntityName \ dirs, n \in FileName : files[e][n] = Absent
    /\ entity_id_map = ScanFS(dirs, files)
    /\ up = TRUE
    /\ resp = Plain("none", Absent, 0, 0)

\* POST /e.  get_next_id reads through find(e) unchecked: without the key the
\* read is of map::end() and the process is taken to die there.
Post(e, b) ==
    LET map == IF e \in dirs THEN entity_id_map ELSE InsertKey(entity_id_map, e)
    IN  /\ up
        /\ dirs' = dirs \cup {e}
        /\ IF map[e] = NoEntry
           THEN up' = FALSE /\ UNCHANGED <<files, entity_id_map, resp>>
           ELSE \E id \in 1..MaxId :
                    /\ IsNextId(id, map[e])
                    /\ entity_id_map' = [map EXCEPT ![e] = @ \cup {id}]
                    /\ files' = WriteFile(files, e, ToString[id], b)
                    /\ resp' = Plain("create", e, id, 201)
                    /\ up' = up

\* GET /e with id 0: the listing comes from the index, not from the disk.
List(e) ==
    /\ up
    /\ IdOf(e) = 0
    /\ resp' = IF e \notin dirs THEN Plain("list", e, 0, 404)
               ELSE IF entity_id_map[e] = NoEntry THEN Plain("list", e, 0, 200)
               ELSE ListReply(e, entity_id_map[e])
    /\ UNCHANGED <<dirs, files, entity_id_map, up>>

\* GET /e with a numeric e: taken for a retrieval, and root/e is no regular file.
GetNumericEntity(e) ==
    /\ up
    /\ IdOf(e) # 0
    /\ entity_id_map' = EraseIfExist(entity_id_map, e, Stoi[e])
    /\ resp' = Plain("list", e, 0, 404)
    /\ UNCHANGED <<dirs, files, up>>

\* GET /e/n with a number n other than 0.
Retrieve(e, n) ==
    /\ up
    /\ IdOf(n) # 0
    /\ IF files[e][n] = Absent
       THEN /\ entity_id_map' = EraseIfExist(entity_id_map, e, Stoi[n])
            /\ resp' = Plain("retrieve", e, Stoi[n], 404)
       ELSE /\ entity_id_map' = InsertIfNotExist(entity_id_map, e, Stoi[n])
            /\ resp' = Reply("retrieve", e, Stoi[n], 200, {}, files[e][n])
    /\ UNCHANGED <<dirs, files, up>>

\* GET /e/n with id 0: a listing of key e when n spells 0, else of key "e/n",
\* which the map never has.
GetZero(e, n) ==
    /\ up
    /\ IdOf(n) = 0
    /\ resp' = IF files[e][n] = Absent THEN Plain("other", Absent, 0, 404)
               ELSE IF Numeric(n) /\ entity_id_map[e] # NoEntry
                    THEN ListReply(e, entity_id_map[e])
               ELSE Plain("other", Absent, 0, 200)
    /\ UNCHANGED <<dirs, files, entity_id_map, up>>

\* PUT /e/n with a number n other than 0.
Put(e, n, b) ==
    /\ up
    /\ IdOf(n) # 0
    /\ dirs' = dirs \cup {e}
    /\ files' = WriteFile(files, e, n, b)
    /\ entity_id_map' = InsertIfNotExist(entity_id_map, e, Stoi[n])
    /\ resp' = Plain("update", e, Stoi[n], 200)
    /\ UNCHANGED up

\* DELETE /e/n.
Delete(e, n) ==
    /\ up
    /\ IF files[e][n] = Absent
       THEN UNCHANGED <<files, entity_id_map>>
       ELSE /\ files' = WriteFile(files, e, n, Absent)
            /\ entity_id_map' = IF Numeric(n)
                                THEN EraseIfExist(entity_id_map, e, Stoi[n])
                                ELSE entity_id_map
    /\ resp' = IF Numeric(n)
               THEN Plain("delete", e, Stoi[n], IF files[e][n] = Absent THEN 404 ELSE 200)
               ELSE Plain("other", Absent, 0, IF files[e][n] = Absent THEN 404 ELSE 200)
    /\ UNCHANGED <<dirs, up>>

\* Targets and methods the handler answers with 400, 404 or 405 and no effect:
\* a target without "/", POST and PUT with another number of segments than one
\* and two, PUT with id 0, DELETE of a directory, any other method.
Refuse ==
    /\ up
    /\ \E code \in {400, 404, 405} : resp' = Plain("other", Absent, 0, code)
    /\ UNCHANGED <<dirs, files, entity_id_map, up>>

\* GET and DELETE do not count the segments of their target.  One of more than
\* two (with "." or "..", say) is what the file system resolves it to: file n of
\* an entity e, a directory, or nothing.  The key the code cuts out of its text
\* has a "/" and is no entity's, so that the ids of e stay as they are.
DetourGet(e, n) ==
    /\ up
    /\ \/ \E code \in {200, 404} : resp' = Plain("detour", Absent, 0, code)
       \/ IdOf(n) # 0 /\ resp' = Reply("detour", Absent, 0, 200, {}, files[e][n])
    /\ UNCHANGED <<dirs, files, entity_id_map, up>>

DetourDelete(e, n) ==
    /\ up
    /\ files[e][n] # Absent
    /\ files' = WriteFile(files, e, n, Absent)
    /\ resp' = Plain("detour", Absent, 0, 200)
    /\ UNCHANGED <<dirs, entity_id_map, up>>

Detour(e, n) == Detours /\ (DetourGet(e, n) \/ DetourDelete(e, n))

\* The process ends between two requests, or has died, and is started again:
\* generate_routes constructs the factory, whose constructor runs scanFS.
Restart ==
    /\ entity_id_map' = ScanFS(dirs, files)
    /\ up' = TRUE
    /\ UNCHANGED <<dirs, files, resp>>

\* Someone other than the server adds, changes or removes a file of an entity.
EditDisk(e, n) ==
    /\ OutsideEdits
    /\ e \in dirs
    /\ \E c \in {Absent} \cup Body : files' = WriteFile(files, e, n, c)
    /\ UNCHANGED <<dirs, entity_id_map, up, resp>>

\* A request on entity e or on a file of it, with a body out of bodies, by a
\* target of one or two segments.
Serve(e, bodies) ==
    \/ \E b \in bodies : Post(e, b)
    \/ List(e) \/ GetNumericEntity(e)
    \/ \E n \in FileName : Retrieve(e, n) \/ GetZero(e, n) \/ Delete(e, n)
    \/ \E n \in FileName, b \in bodies : Put(e, n, b)

Request == Refuse \/ \E e \in EntityName : Serve(e, Body)

Next ==
    \/ Request
    \/ Restart
    \/ \E e \in EntityName, n \in FileName : Detour(e, n) \/ EditDisk(e, n)

Spec == Init /\ [][Next]_vars

-----------------------------------------------------------------------------

\* The response is one of those get_response builds, the index maps entities
\* to ids of file names, and files lie in directories that exist.
TypeOK ==
    /\ dirs \subseteq EntityName
    /\ files \in DiskType
    /\ \A e \in EntityName \ dirs, n \in FileName : files[e][n] = Absent
    /\ entity_id_map \in MapType
    /\ up \in BOOLEAN
    /\ resp \in [op : {"none", "create", "list", "retrieve", "update", "delete", "other",
                       "detour"},
                 entity : {Absent} \cup EntityName, id : {0} \cup FileId,
                 code : {0, 200, 201, 400, 404, 405}, ids : SUBSET FileId,
                 body : {Absent} \cup Body]

\* "When call this function, the map must have key of entity, no need to
\* check" (get_next_id): whatever sequence of requests, outside edits of files
\* and restarts came before, the directory that makes POST skip the insertion
\* of the key has a key, so the process never dies of it.  "." and ".." are
\* directories without a key from the start, and no entities here.
NextIdHasKey == up /\ \A e \in dirs : entity_id_map[e] # NoEntry

\* The index is the disk: under canonical names, and while nobody else edits
\* the files and nobody uses longer targets, the ids the API lists and
\* allocates from are those of the files, after every request and restart.
MapMatchesDisk ==
    \A e \in EntityName : entity_id_map[e] # NoEntry => entity_id_map[e] = DiskIds(files, e)

\* Where index and disk disagree about an id of an entity.
Drift ==
    {p \in EntityName \X FileId :
        (entity_id_map[p[1]] # NoEntry /\ p[2] \in entity_id_map[p[1]])
            # (p[2] \in DiskIds(files, p[1]))}

\* GET of an entity called by a number takes the number for an id of its own
\* and erases it from the index, whether a file has that id or not.
OwnNumber == {p \in EntityName \X FileId : GetNumericEntity(p[1]) /\ p[2] = Stoi[p[1]]}

\* No request by a target of one or two segments makes index and disk disagree
\* about one more id, also when others edit the files below the server and use
\* longer targets: erase_if_exist and insert_if_notexist follow what the request
\* saw or did.  GET of an entity called by a number may, about that number.
RequestsNeverAddDrift == [][Request => Drift' \subseteq Drift \cup OwnNumber]_vars

\* "Given entity, return next available ID" (get_next_id): POST creates a file
\* and never replaces one.
PostNeverOverwrites ==
    [][\A e \in EntityName, b \in Body : Post(e, b) =>
           \A d \in EntityName, n \in FileName :
               files[d][n] # Absent => files'[d][n] = files[d][n]]_vars

-----------------------------------------------------------------------------
(* The promise: the index and the restarts cannot be observed. *)

NameOf(i) == CHOOSE n \in FileName : Numeric(n) /\ Stoi[n] = i

StoreOf(disk) == [e \in EntityName |-> [i \in FileId |-> disk[e][NameOf(i)]]]

Crud == INSTANCE CrudStore WITH
            Id <- FileId, NewId <- 1..MaxId,
            entities <- dirs, store <- StoreOf(files), reply <- resp

\* Entities can be listed: no entity is called by a number other than 0.
EntitiesAreNames == \A e \in EntityName : IdOf(e) = 0

\* With canonical names the handler implements the store: listings show
\* exactly the items stored, new ids are unused, retrieval returns the last
\* body written, and a restart changes nothing a client can see.
ImplementsCrudStore == Crud!Spec
=============================================================================
