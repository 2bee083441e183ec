--------------------------- MODULE ApiDataProofs ---------------------------
(* Lemmas about the operators of ApiData, for every choice of names and ids. *)
EXTENDS ApiData, TLAPS

LEMMA FileIdInt == FileId \subseteq Int
BY StoiAssumption DEF FileId, Numeric, Name

LEMMA NewIdIsFileId ==
    ASSUME NEW i \in 1..MaxId
    PROVE  /\ i \in FileId
           /\ ToString[i] \in FileName
           /\ Numeric(ToString[i])
           /\ Stoi[ToString[i]] = i
BY ToStringAssumption, NotANumberAssumption DEF FileId, Numeric

LEMMA StoiIsFileId ==
    ASSUME NEW n \in FileName, Numeric(n)
    PROVE  Stoi[n] \in FileId /\ Stoi[n] \in Int
BY StoiAssumption DEF FileId, Numeric, Name

\* IdOf tells a name that std::stoi accepts from one it does not.
LEMMA IdOfNumeric ==
    ASSUME NEW n, IdOf(n) # 0
    PROVE  Numeric(n) /\ IdOf(n) = Stoi[n]
BY DEF IdOf

\* A write changes one file, whatever may be stored in files.
LEMMA WriteFileIn ==
    ASSUME NEW V, NEW d \in [EntityName -> [FileName -> V]],
           NEW e \in EntityName, NEW n \in FileName, NEW c \in V
    PROVE  /\ WriteFile(d, e, n, c) \in [EntityName -> [FileName -> V]]
           /\ WriteFile(d, e, n, c)[e][n] = c
           /\ \A f \in EntityName, m \in FileName :
                  (f # e \/ m # n) => WriteFile(d, e, n, c)[f][m] = d[f][m]
BY DEF WriteFile

LEMMA WriteFileType ==
    ASSUME NEW d \in DiskType, NEW e \in EntityName, NEW n \in FileName,
           NEW c \in {Absent} \cup Body
    PROVE  /\ WriteFile(d, e, n, c) \in DiskType
           /\ WriteFile(d, e, n, c)[e][n] = c
           /\ \A f \in EntityName, m \in FileName :
                  (f # e \/ m # n) => WriteFile(d, e, n, c)[f][m] = d[f][m]
BY DEF WriteFile, DiskType

LEMMA DiskIdsType ==
    ASSUME NEW d, NEW e \in EntityName
    PROVE  DiskIds(d, e) \subseteq FileId
BY DEF DiskIds, FileId

\* A write adds the id of its file name to the ids on disk.
LEMMA DiskIdsWrite ==
    ASSUME NEW d \in DiskType, NEW e \in EntityName, NEW n \in FileName, Numeric(n),
           NEW b \in Body
    PROVE  DiskIds(WriteFile(d, e, n, b), e) = DiskIds(d, e) \cup {Stoi[n]}
<1> DEFINE w == WriteFile(d, e, n, b)
<1>1. w[e][n] = b /\ b # Absent
  BY WriteFileType, AbsentAssumption
<1>2. \A m \in FileName : m # n => w[e][m] = d[e][m]
  BY WriteFileType
<1> QED
  BY <1>1, <1>2 DEF DiskIds

\* Under canonical names a removal takes exactly the id of its file name away.
LEMMA DiskIdsRemove ==
    ASSUME CanonicalIds,
           NEW d \in DiskType, NEW e \in EntityName, NEW n \in FileName, Numeric(n)
    PROVE  DiskIds(WriteFile(d, e, n, Absent), e) = DiskIds(d, e) \ {Stoi[n]}
<1> DEFINE w == WriteFile(d, e, n, Absent)
<1>1. w[e][n] = Absent
  BY WriteFileType
<1>2. \A m \in FileName : m # n => w[e][m] = d[e][m]
  BY WriteFileType
<1>3. \A m \in FileName : Numeric(m) /\ m # n => Stoi[m] # Stoi[n]
  BY DEF CanonicalIds, Numeric
<1> QED
  BY <1>1, <1>2, <1>3 DEF DiskIds

\* Files of other entities, and files std::stoi rejects, leave the ids alone.
LEMMA DiskIdsOther ==
    ASSUME NEW d \in DiskType, NEW e \in EntityName, NEW n \in FileName,
           NEW c \in {Absent} \cup Body, NEW f \in EntityName, f # e \/ ~Numeric(n)
    PROVE  DiskIds(WriteFile(d, e, n, c), f) = DiskIds(d, f)
<1>1. \A m \in FileName : Numeric(m) => WriteFile(d, e, n, c)[f][m] = d[f][m]
  BY WriteFileType
<1> QED
  BY <1>1 DEF DiskIds

\* Under canonical names an id is on disk exactly when its file is.
LEMMA DiskIdsMember ==
    ASSUME CanonicalIds, NEW d, NEW e \in EntityName, NEW n \in FileName, Numeric(n)
    PROVE  Stoi[n] \in DiskIds(d, e) <=> d[e][n] # Absent
BY DEF DiskIds, CanonicalIds, Numeric

LEMMA EraseType ==
    ASSUME NEW m \in MapType, NEW e \in EntityName, NEW i
    PROVE  /\ EraseIfExist(m, e, i) \in MapType
           /\ m[e] # NoEntry => /\ EraseIfExist(m, e, i)[e] # NoEntry
                                /\ EraseIfExist(m, e, i)[e] = m[e] \ {i}
           /\ m[e] = NoEntry => EraseIfExist(m, e, i) = m
           /\ \A f \in EntityName : f # e => EraseIfExist(m, e, i)[f] = m[f]
<1>1. CASE m[e] = NoEntry
  BY <1>1 DEF EraseIfExist
<1>2. CASE m[e] # NoEntry
  <2>1. m[e] \in SUBSET FileId
    BY <1>2 DEF MapType
  <2>2. m[e] \ {i} \in SUBSET FileId
    BY <2>1
  <2>3. m[e] \ {i} # NoEntry
    BY <2>2, NoEntryAssumption
  <2> QED
    BY <1>2, <2>2, <2>3 DEF EraseIfExist, MapType
<1> QED
  BY <1>1, <1>2

LEMMA InsertType ==
    ASSUME NEW m \in MapType, NEW e \in EntityName, NEW i \in FileId
    PROVE  /\ InsertIfNotExist(m, e, i) \in MapType
           /\ InsertIfNotExist(m, e, i)[e] # NoEntry
           /\ m[e] = NoEntry => InsertIfNotExist(m, e, i)[e] = {i}
           /\ m[e] # NoEntry => InsertIfNotExist(m, e, i)[e] = m[e] \cup {i}
           /\ \A f \in EntityName : f # e => InsertIfNotExist(m, e, i)[f] = m[f]
<1> DEFINE new == IF m[e] = NoEntry THEN {i} ELSE m[e] \cup {i}
<1>1. new \in SUBSET FileId
  BY DEF MapType
<1>2. new # NoEntry
  BY <1>1, NoEntryAssumption
<1> QED
  BY <1>1, <1>2 DEF InsertIfNotExist, MapType

LEMMA InsertKeyType ==
    ASSUME NEW m \in MapType, NEW e \in EntityName
    PROVE  /\ InsertKey(m, e) \in MapType
           /\ InsertKey(m, e)[e] # NoEntry
           /\ InsertKey(m, e)[e] = IF m[e] = NoEntry THEN {} ELSE m[e]
           /\ \A f \in EntityName : f # e => InsertKey(m, e)[f] = m[f]
<1>1. {} \in SUBSET FileId /\ {} # NoEntry
  BY NoEntryAssumption
<1> QED
  BY <1>1 DEF InsertKey, MapType

LEMMA ScanFSType ==
    ASSUME NEW ds, NEW d
    PROVE  /\ ScanFS(ds, d) \in MapType
           /\ \A e \in EntityName : (ScanFS(ds, d)[e] # NoEntry) <=> e \in ds
           /\ \A e \in EntityName : e \in ds => ScanFS(ds, d)[e] = DiskIds(d, e)
<1>1. \A e \in EntityName : DiskIds(d, e) \in SUBSET FileId /\ DiskIds(d, e) # NoEntry
  BY DiskIdsType, NoEntryAssumption
<1> QED
  BY <1>1 DEF ScanFS, MapType
=============================================================================
