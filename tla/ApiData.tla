------------------------------ MODULE ApiData ------------------------------
(***************************************************************************)
(* The data of the CRUD API: names, ids, the disk below the API root and   *)
(* the in-memory index entity_id_map, with the helpers that               *)
(* RequestHandlerAPI and APIHandlerFactory apply to them.                  *)
(*                                                                         *)
(* A target below the route is "/e" or "/e/n": e is an EntityName (a       *)
(* directory below the root), n a FileName (a file of that directory).     *)
(* Both are model values; what the code computes from a name, std::stoi,   *)
(* is the constant function Stoi, so "1", "01" and "1abc" are three names  *)
(* with the same Stoi, and a name that makes std::stoi throw has Stoi      *)
(* NotANumber.                                                             *)
(***************************************************************************)
EXTENDS Integers

CONSTANTS
    EntityName,   \* first path segments clients use, other than "." and ".."
    FileName,     \* second path segments clients use
    Stoi,         \* std::stoi on names
    ToString,     \* std::to_string on ids
    Body,         \* contents of requests and files
    MaxId,        \* bound: POST is modelled for ids up to MaxId
    Absent,       \* no such file
    NoEntry,      \* entity_id_map has no such key
    NotANumber    \* std::stoi throws

Name == EntityName \cup FileName

ASSUME MaxIdAssumption == MaxId \in Nat \ {0}
ASSUME StoiAssumption == Stoi \in [Name -> {NotANumber} \cup Int]
ASSUME NotANumberAssumption == NotANumber \notin Int
ASSUME AbsentAssumption == Absent \notin Body
\* POST names its file by to_string(id), which std::stoi reads back as id.
ASSUME ToStringAssumption ==
    /\ ToString \in [1..MaxId -> FileName]
    /\ \A i \in 1..MaxId : Stoi[ToString[i]] = i

(***************************************************************************)
(* The names are canonical when an id has one spelling and no entity is    *)
(* called by the id of a file.  The code does not enforce it; the theorems *)
(* that need it say so.                                                    *)
(***************************************************************************)
CanonicalIds ==
    \A n, m \in FileName : Stoi[n] = Stoi[m] /\ Stoi[n] # NotANumber => n = m

EntitiesAreNotIds ==
    \A e \in EntityName, n \in FileName : Stoi[e] # NotANumber => Stoi[e] # Stoi[n]

Canonical == CanonicalIds /\ EntitiesAreNotIds

Numeric(n) == Stoi[n] # NotANumber

\* The id parse_url_target leaves for a last segment n: 0 when stoi throws.
IdOf(n) == IF Numeric(n) THEN Stoi[n] ELSE 0

FileId == {Stoi[n] : n \in {m \in FileName : Numeric(m)}}

ASSUME NoEntryAssumption == \A ids \in SUBSET FileId : NoEntry # ids

-----------------------------------------------------------------------------
(* The disk: disk[e][n] is the content of root/e/n. *)

DiskType == [EntityName -> [FileName -> {Absent} \cup Body]]

EmptyDisk == [e \in EntityName |-> [n \in FileName |-> Absent]]

\* The regular files of directory e whose name std::stoi accepts.
DiskIds(disk, e) ==
    {Stoi[n] : n \in {m \in FileName : Numeric(m) /\ disk[e][m] # Absent}}

WriteFile(disk, e, n, b) == [disk EXCEPT ![e][n] = b]

-----------------------------------------------------------------------------
(* The index: map[e] is the set of ids of e, or NoEntry. *)

MapType == [EntityName -> {NoEntry} \cup SUBSET FileId]

\* Mutant: the write-back is forgotten.
EraseForgotten(map, e, id) == map

EraseIfExist(map, e, id) ==
    IF map[e] = NoEntry THEN map ELSE [map EXCEPT ![e] = @ \ {id}]

\* Mutant: the branch for an entity without a key is forgotten.
InsertKnownOnly(map, e, id) ==
    IF map[e] = NoEntry THEN map ELSE [map EXCEPT ![e] = @ \cup {id}]

InsertIfNotExist(map, e, id) ==
    [map EXCEPT ![e] = IF @ = NoEntry THEN {id} ELSE @ \cup {id}]

\* Mutant: the directory is made and the key forgotten.
InsertKeyForgotten(map, e) == map

\* std::map::insert of an empty id set: no effect when the key is there.
InsertKey(map, e) == [map EXCEPT ![e] = IF @ = NoEntry THEN {} ELSE @]

\* Mutant: the loop of get_next_id is dropped.
NextIdUnchecked(id, ids) == id = 1

\* The id the loop of get_next_id stops at: the least positive one not in ids.
IsNextId(id, ids) == id \notin ids /\ \A j \in 1..(id - 1) : j \in ids

\* Mutants: file names are not parsed first; a directory without files gets no
\* key; the files are not visited.
ScanFSUnparsed(directories, disk) ==
    [e \in EntityName |->
        IF e \in directories THEN {Stoi[n] : n \in {m \in FileName : disk[e][m] # Absent}}
        ELSE NoEntry]

ScanFSSkipsEmpty(directories, disk) ==
    [e \in EntityName |->
        IF e \in directories /\ DiskIds(disk, e) # {} THEN DiskIds(disk, e) ELSE NoEntry]

ScanFSKeysOnly(directories, disk) ==
    [e \in EntityName |-> IF e \in directories THEN {} ELSE NoEntry]

\* scanFS and Insert_ID at start-up: one key per directory, its numeric files.
ScanFS(directories, disk) ==
    [e \in EntityName |-> IF e \in directories THEN DiskIds(disk, e) ELSE NoEntry]
=============================================================================
